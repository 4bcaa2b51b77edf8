------------------------ MODULE SessionEdits_proofs ------------------------
(***************************************************************************)
(* What a session of edits promises where each sweep has a file of its     *)
(* own: Do Its build on one another, the replot of each shows it, the      *)
(* frame moves to the file it wrote, and to the user each of them is a     *)
(* single step.  And, over volumes too: a file is entered at its first     *)
(* sweep, and stepping forward passes no sweep over.                       *)
(***************************************************************************)
EXTENDS SoloSession_proofs
LOCAL INSTANCE FiniteSetsExt
LOCAL INSTANCE SequencesExt

----------------------------------------------------------------------------
(* Do Its over sweeps that have a file each.                               *)

OneSweepFiles == \A p \in Paths : InitFiles[p] # NoVolume => NSweeps(InitFiles[p]) = 1

OneSweepEach ==
  /\ \A p \in Paths : disk[p] # NoVolume => NSweeps(disk[p]) = 1
  /\ \A i \in DOMAIN undo : undo[i].image # NoVolume => NSweeps(undo[i].image) = 1

(* A read state sees the file as it is, unless this Do It has written it.  *)
Sees(st) ==
  st.vol # NoVolume =>
    /\ NSweeps(st.vol) = 1
    /\ st.path \notin se.wrote => st.vol = disk[st.path]

WroteNow == se.wrote # {} => se.pc \in {"loop", "post"} /\ se.modified

StackInv == OneSweepEach /\ Sees(io[SE_FRAME]) /\ WroteNow

LEMMA OneSweepStep ==
  Shape /\ WriteInv /\ WholeInv /\ OneSweepEach /\ [Next]_vars => OneSweepEach'
<1> SUFFICES ASSUME Shape, WriteInv, WholeInv, OneSweepEach, [Next]_vars
             PROVE  OneSweepEach'
  OBVIOUS
<1>1. PICK d, v : d = disk' /\ v = undo'
  OBVIOUS
<1>2. ASSUME NEW p \in Paths, d[p] # NoVolume
      PROVE  NSweeps(d[p]) = 1
  <2>1. Becomes(p, d[p])
    BY <1>1, FilesBecome
  <2>2. QED
    BY <1>2, <2>1 DEF Becomes, OneSweepEach
<1>3. ASSUME NEW i \in DOMAIN v, v[i].image # NoVolume
      PROVE  NSweeps(v[i].image) = 1
  <2>1. EntriesFrom(v)
    BY <1>1, UndoEntries
  <2>2. QED
    BY <1>3, <2>1 DEF EntriesFrom, OneSweepEach
<1>4. QED
  BY <1>1, <1>2, <1>3 DEF OneSweepEach

(* Opening the next file keeps the editor's sight of it.                   *)
LEMMA EditorSees ==
  ASSUME Shape, WholeInv, StackInv, NEW ok, EditRay(ok), NEW st, st = StNow
  PROVE  Sees(st) /\ st.path \in Paths
<1>0. ViewOK /\ FilesOK /\ LoopOK /\ OneSweepEach
  BY DEF WholeInv, StackInv
<1>1. HeldOK(st) /\ st.vol # NoVolume
  BY <1>0, RayFound
<1>2. st.path \in Paths
  BY <1>1, HeldSweep
<1>3. CASE Opens
  <2>1. PICK now, file : now = io[SE_FRAME] /\ file = FileNow
    OBVIOUS
  <2>2. st = HeaderRead(now, file, req[SE_FRAME], disk) /\ IsState(now)
    BY <1>3, <2>1 DEF StNow, Shape, Windows
  <2>3. st.vol = VolumeRead(now, file, disk) /\ st.path = file
    BY <1>1, <2>2, HeaderReadVolume
  <2>4. Sees(now)
    BY <2>1 DEF StackInv
  <2>5. CASE now.vol # NoVolume /\ now.path = file
    BY <1>2, <2>3, <2>4, <2>5 DEF VolumeRead, Sees
  <2>6. CASE ~(now.vol # NoVolume /\ now.path = file)
    <3>1. st.vol = disk[file] /\ file \in Paths
      BY <1>2, <2>3, <2>6 DEF VolumeRead
    <3>2. QED
      BY <1>0, <1>2, <2>3, <3>1 DEF OneSweepEach, Sees
  <2>7. QED
    BY <1>2, <2>5, <2>6
<1>4. CASE ~Opens
  BY <1>2, <1>4 DEF StNow, StackInv
<1>5. QED
  BY <1>3, <1>4

(* A file of one sweep is rewritten under its own name.                    *)
LEMMA SameFile ==
  ASSUME Shape, WriteInv, WholeInv, StackInv, NEW ok, EditRay(ok), EndsNow,
         NEW st, st = StNow, NEW W, W = WsNow.wvol
  PROVE  /\ OutNow = st.path /\ Len(W) = Len(st.vol)
         /\ \A i \in 1 .. Len(W) : W[i].gen = st.vol[i].gen + 1
<1>0. ViewOK /\ FilesOK /\ LoopOK
  BY DEF WholeInv
<1>1. HeldOK(st) /\ st.vol # NoVolume
  BY <1>0, RayFound
<1>2. PICK vol, p, n : vol = st.vol /\ p = st.path /\ n = Len(vol)
  OBVIOUS
<1>3. NSweeps(vol) = 1
  BY <1>1, <1>2, EditorSees DEF Sees
<1>4. /\ vol \in Seq(AnyRay) /\ p \in Paths /\ Whole(p, vol) /\ n \in Nat
      /\ st.swp_index \in 0 .. NSweeps(vol) - 1
      /\ st.start = SweepStart(vol, st.swp_index)
      /\ st.nrays = SweepEnd(vol, st.swp_index) - st.start + 1
  BY <1>1, <1>2, LenProperties DEF HeldOK, Holds, Volumes
<1>5. st.swp_index = 0
  BY <1>3, <1>4
<1>6. SweepStart(vol, 0) = 1 /\ SweepEnd(vol, 0) = n
  BY <1>2, <1>3, <1>4, OneSweep
<1>7. st.start = 1 /\ st.nrays = n
  BY <1>4, <1>5, <1>6
<1>8. W = Rewritten(st, st.nrays)
  BY <1>0, SweepWritten
<1>9. /\ Len(W) = st.nrays
      /\ PathOf(W) \in Paths
      /\ PathOf(W)[1] = st.path[1] + st.start - 1
      /\ PathOf(W)[2] = st.path[1] + st.start + st.nrays - 2
      /\ \A i \in 1 .. Len(W) : W[i].gen = st.vol[st.start + i - 1].gen + 1
  BY <1>1, <1>8, SweepDone
<1>10. \A i \in 1 .. n : 1 + i - 1 = i
  BY <1>4
<1>11. \A i \in 1 .. Len(W) : W[i].gen = vol[i].gen + 1
  BY <1>2, <1>7, <1>9, <1>10
<1>12. p[1] \in Int /\ p[2] \in Int /\ p = <<p[1], p[2]>>
  BY <1>4, RadarIOAssumption DEF Paths, Times
<1>13. PICK q : q = PathOf(W)
  OBVIOUS
<1>14. q = <<q[1], q[2]>>
  BY <1>9, <1>13 DEF Paths
<1>15. q[1] = p[1] /\ q[2] = p[2]
  <2>1. n = p[2] - p[1] + 1
    BY <1>2, <1>4 DEF Whole
  <2>2. q[1] = p[1] + 1 - 1 /\ q[2] = p[1] + 1 + n - 2
    BY <1>2, <1>7, <1>9, <1>13
  <2>3. QED
    BY <1>4, <1>12, <2>1, <2>2
<1>16. q = p
  BY <1>12, <1>14, <1>15
<1>17. QED
  BY <1>2, <1>7, <1>9, <1>11, <1>13, <1>16 DEF OutNow

(* An iteration that writes a file notes it, and one that does not, does   *)
(* not.                                                                    *)
LEMMA WrittenNoted ==
  ASSUME Shape, NEW ok \in WriteResults, EditRay(ok)
  PROVE  \/ disk' = disk /\ se'.wrote = se.wrote
         \/ /\ EndsNow /\ se'.wrote = se.wrote \cup {OutNow}
            /\ disk' = DiskAfterSweepEnd(WsNow, TRUE, disk)
<1>1. CASE ok = TRUE
  <2>1. EditRay(TRUE)
    BY <1>1
  <2>2. /\ se'.wrote = IF EndsNow /\ TRUE THEN se.wrote \cup {OutNow} ELSE se.wrote
        /\ disk' = IF EndsNow THEN DiskAfterSweepEnd(WsNow, TRUE, disk) ELSE disk
    BY <2>1, EditRayWrites, Zenon
  <2>3. QED
    BY <2>2, Zenon
<1>2. CASE ok = FALSE
  <2>1. EditRay(FALSE)
    BY <1>2
  <2>2. /\ se'.wrote = IF EndsNow /\ FALSE THEN se.wrote \cup {OutNow} ELSE se.wrote
        /\ disk' = IF EndsNow THEN DiskAfterSweepEnd(WsNow, FALSE, disk) ELSE disk
    BY <2>1, EditRayWrites, Zenon
  <2>3. DiskAfterSweepEnd(WsNow, FALSE, disk) = disk
    BY DEF DiskAfterSweepEnd
  <2>4. QED
    BY <2>2, <2>3, Zenon
<1>3. ok \in BOOLEAN
  BY SessionAssumption
<1>4. QED
  BY <1>1, <1>2, <1>3, Zenon

LEMMA StackStep ==
  Shape /\ WriteInv /\ WholeInv /\ StackInv /\ [Next]_vars => StackInv'
<1> SUFFICES ASSUME Shape, WriteInv, WholeInv, StackInv, [Next]_vars PROVE StackInv'
  OBVIOUS
<1>0. OneSweepEach' /\ SE_FRAME \in Windows
  BY OneSweepStep DEF StackInv, Windows
<1>1. ASSUME UNCHANGED <<disk, se>>, io'[SE_FRAME] = io[SE_FRAME]
      PROVE  StackInv'
  BY <1>0, <1>1 DEF StackInv, Sees, WroteNow
<1>2. ASSUME se.wrote = {}, se'.wrote = {}, disk' = disk, io'[SE_FRAME] = io[SE_FRAME]
      PROVE  StackInv'
  BY <1>0, <1>2 DEF StackInv, Sees, WroteNow
<1>3. ASSUME se'.wrote = {}, io'[SE_FRAME].vol = NoVolume
      PROVE  StackInv'
  BY <1>0, <1>3 DEF StackInv, Sees, WroteNow
<1>4. CASE Untouched \/ Looks
  BY <1>1, <1>4 DEF Untouched, Looks, Reads
<1>5. CASE ReplotReads
  <2>1. se'.wrote = se.wrote
    BY <1>5 DEF ReplotReads, Shape, IsEditor
  <2>2. QED
    BY <1>2, <1>5, <2>1 DEF ReplotReads, Reads, StackInv, WroteNow
<1>6. CASE LoopEnds
  <2>1. se'.wrote = se.wrote
    BY <1>6 DEF LoopEnds, Shape, IsEditor
  <2>2. QED
    BY <1>0, <1>6, <2>1 DEF LoopEnds, StackInv, Sees, WroteNow
<1>7. CASE EndDoIt
  <2>1. se'.wrote = {} /\ IF se.modified THEN DropReadCaches(se.frame) ELSE io' = io
    BY <1>7, DoItEnds
  <2>2. CASE se.modified
    <3>1. io'[SE_FRAME].vol = NoVolume
      BY <1>0, <2>1, <2>2, CachesDropped
    <3>2. QED
      BY <1>3, <2>1, <3>1
  <2>3. CASE ~se.modified
    <3>1. disk' = disk
      BY <1>7, DoItEnds
    <3>2. QED
      BY <1>2, <2>1, <2>3, <3>1 DEF StackInv, WroteNow
  <2>4. QED
    BY <2>2, <2>3
<1>8. ASSUME NEW ok \in WriteResults, EditRay(ok)
      PROVE  StackInv'
  <2>1. PICK st : st = StNow
    OBVIOUS
  <2>2. PICK t : t = RayRead(st)
    OBVIOUS
  <2>3. io'[SE_FRAME] = t /\ IsState(st)
    BY <1>0, <1>8, <2>1, <2>2, EditRayReads
  <2>4. t.vol = st.vol /\ t.path = st.path
    <3>1. PICK c : t = [st EXCEPT !.cursor = c]
      BY <2>2 DEF RayRead
    <3>2. QED
      BY <2>3, <3>1, CursorSet
  <2>5. Sees(st)
    BY <1>8, <2>1, EditorSees
  <2>6. PICK out, d : out = OutNow /\ d = disk'
    OBVIOUS
  <2>7. \/ d = disk /\ se'.wrote = se.wrote
        \/ /\ EndsNow /\ se'.wrote = se.wrote \cup {out}
           /\ d = DiskAfterSweepEnd(WsNow, TRUE, disk)
    BY <1>8, <2>6, WrittenNoted
  <2>8. se.wrote \subseteq se'.wrote
    BY <2>7
  <2>9. \A p \in Paths : p \notin se'.wrote => d[p] = disk[p]
    <3>1. CASE d = DiskAfterSweepEnd(WsNow, TRUE, disk) /\ se'.wrote = se.wrote \cup {out}
      <4>1. d = disk \/ d = [disk EXCEPT ![out] = WsNow.wvol]
        BY <2>6, <3>1 DEF DiskAfterSweepEnd, OutNow
      <4>2. QED
        BY <3>1, <4>1 DEF WholeInv, FilesOK
    <3>2. QED
      BY <2>7, <3>1
  <2>10. st.path \in Paths
    BY <1>8, <2>1, EditorSees
  <2>11. Sees(io[SE_FRAME])'
    BY <2>3, <2>4, <2>5, <2>6, <2>8, <2>9, <2>10 DEF Sees
  <2>12. WroteNow'
    <3>1. EndsNow => se.modified \/ Modifies(se.command)
      BY DEF EndsNow, DumpsNow
    <3>2. /\ se'.pc = IF PuntNow THEN "post" ELSE "loop"
          /\ se'.modified = (se.modified \/ Modifies(se.command))
      BY <1>8, EditRayWrites
    <3>3. QED
      BY <2>7, <3>1, <3>2 DEF StackInv, WroteNow
  <2>13. QED
    BY <1>0, <2>11, <2>12 DEF StackInv
<1>9. ASSUME NEW f \in Frames, NEW command \in Commands, NEW auto \in BOOLEAN,
             DoIt(f, command, auto)
      PROVE  StackInv'
  <2>1. Idle /\ UNCHANGED <<disk, io>> /\ se'.wrote = {}
    BY <1>9, DoItStarts
  <2>2. QED
    BY <1>2, <2>1 DEF StackInv, WroteNow, Idle
<1>10. ASSUME NEW f \in Frames, Undo(f)
      PROVE  StackInv'
  <2>1. Idle /\ DropReadCaches(f) /\ se' = [se EXCEPT !.pc = "replot", !.frame = f]
    BY <1>10, UndoDone
  <2>2. io'[SE_FRAME].vol = NoVolume
    BY <1>0, <2>1, CachesDropped
  <2>3. se'.wrote = se.wrote
    BY <2>1 DEF Shape, IsEditor
  <2>4. QED
    BY <1>3, <2>1, <2>2, <2>3 DEF StackInv, WroteNow, Idle
<1>11. QED
  BY <1>4, <1>5, <1>6, <1>7, <1>8, <1>9, <1>10, Steps

LEMMA StackStart == ASSUME OneSweepFiles PROVE Init => StackInv
<1> SUFFICES ASSUME Init PROVE StackInv
  OBVIOUS
<1>1. io[SE_FRAME] = ClosedState
  <2>1. \A f \in Frames : Lead(f) # SE_FRAME
    BY LeadIsFrame, SessionAssumption
  <2>2. PICK p : LET st == HeaderRead(ClosedState, p, 0, InitFiles)
                 IN  io = [w \in Windows |-> IF w \in {Lead(f) : f \in Frames}
                                            THEN [st EXCEPT !.cursor = st.nrays]
                                            ELSE ClosedState]
    BY DEF Init
  <2>3. QED
    BY <2>1, <2>2 DEF Windows
<1>2. disk = InitFiles /\ undo = << >> /\ se.wrote = {}
  BY DEF Init, EditorIdle
<1>3. QED
  BY <1>1, <1>2 DEF StackInv, OneSweepEach, OneSweepFiles, Sees, ClosedState, WroteNow

LEMMA SessionStacks ==
  ASSUME FieldsKept, RecordedWhole, OneSweepFiles
  PROVE  Spec => []StackInv
<1>1. Shape /\ WriteInv /\ WholeInv /\ StackInv /\ [Next]_vars => StackInv'
  BY StackStep
<1>2. QED
  BY <1>1, StackStart, SessionWhole, PTL DEF Spec

(* A chain of Do Its builds up: what the editor writes under the name of a *)
(* file is one edit further than that file was, never one edit further     *)
(* than some older image a cache held (rio_read_header's cache,            *)
(* se_invalidate_read_caches).                                             *)
THEOREM EditsBuildUp ==
  ASSUME FieldsKept, RecordedWhole, OneSweepFiles
  PROVE  Spec => EditsStack
<1> DEFINE Stacked ==
             \A p \in se'.wrote \ se.wrote : disk[p] # NoVolume =>
               /\ Len(disk'[p]) = Len(disk[p])
               /\ \A i \in DOMAIN disk[p] : disk'[p][i].gen = disk[p][i].gen + 1
<1>1. Shape /\ WriteInv /\ WholeInv /\ StackInv /\ [Next]_vars => Stacked
  <2> SUFFICES ASSUME Shape, WriteInv, WholeInv, StackInv, [Next]_vars,
                      NEW p \in se'.wrote \ se.wrote, disk[p] # NoVolume
               PROVE  /\ Len(disk'[p]) = Len(disk[p])
                      /\ \A i \in DOMAIN disk[p] : disk'[p][i].gen = disk[p][i].gen + 1
    OBVIOUS
  <2>1. PICK ok \in WriteResults : EditRay(ok)
    <3>1. CASE Untouched \/ Looks \/ ReplotReads \/ LoopEnds
      BY <3>1 DEF Untouched, Looks, ReplotReads, LoopEnds, Shape, IsEditor
    <3>2. CASE EndDoIt
      BY <3>2, DoItEnds
    <3>3. ASSUME NEW f \in Frames, NEW command \in Commands, NEW auto \in BOOLEAN,
                 DoIt(f, command, auto)
          PROVE  FALSE
      BY <3>3, DoItStarts
    <3>4. ASSUME NEW f \in Frames, Undo(f)
          PROVE  FALSE
      <4>1. se' = [se EXCEPT !.pc = "replot", !.frame = f]
        BY <3>4, UndoDone
      <4>2. QED
        BY <4>1 DEF Shape, IsEditor
    <3>5. QED
      BY <3>1, <3>2, <3>3, <3>4, Steps
  <2>2. EndsNow /\ p = OutNow /\ disk' = DiskAfterSweepEnd(WsNow, TRUE, disk)
    BY <2>1, WrittenNoted
  <2>3. PICK st, W : st = StNow /\ W = WsNow.wvol
    OBVIOUS
  <2>4. /\ p = st.path /\ Len(W) = Len(st.vol)
        /\ \A i \in 1 .. Len(W) : W[i].gen = st.vol[i].gen + 1
    <3>1. /\ OutNow = st.path /\ Len(W) = Len(st.vol)
          /\ \A i \in 1 .. Len(W) : W[i].gen = st.vol[i].gen + 1
      BY <2>1, <2>2, <2>3, SameFile
    <3>2. QED
      BY <2>2, <3>1
  <2>5. Sees(st) /\ p \in Paths
    BY <2>1, <2>3, <2>4, EditorSees
  <2>6. HasRay(st)
    BY <2>1, <2>3, EditRayReads
  <2>7. st.vol = disk[p]
    BY <2>4, <2>5, <2>6 DEF Sees, HasRay
  <2>8. disk'[p] = W
    <3>1. disk' = DiskAfterSweepEnd(WsNow, TRUE, disk)
      BY <2>2
    <3>2. W # NoVolume
      BY <2>1, <2>2, <2>3, SweepWritten DEF WholeInv
    <3>3. disk' = [disk EXCEPT ![p] = W]
      BY <2>2, <2>3, <3>1, <3>2 DEF DiskAfterSweepEnd, OutNow
    <3>4. QED
      BY <2>5, <3>3 DEF WholeInv, FilesOK
  <2>9. DOMAIN disk[p] = 1 .. Len(disk[p])
    BY <2>5, LenProperties DEF WholeInv, FilesOK, Holds, Volumes
  <2>10. QED
    BY <2>4, <2>7, <2>8, <2>9
<1>2. Shape /\ WriteInv /\ WholeInv /\ StackInv /\ [Next]_vars => [Stacked]_vars
  BY <1>1
<1>3. EditsStack <=> [][Stacked]_vars
  BY DEF EditsStack
<1> HIDE DEF Stacked
<1>4. QED
  BY <1>2, <1>3, SessionWhole, SessionStacks, PTL DEF Spec

----------------------------------------------------------------------------
(* What the replot of an edit shows.                                       *)

LEMMA WholeVolumeSelected ==
  ASSUME NEW st, HeldOK(st), st.vol # NoVolume => NSweeps(st.vol) = 1
  PROVE  SelectedRays(st) = st.vol
<1>1. CASE st.vol = NoVolume
  BY <1>1 DEF SelectedRays, NoVolume
<1>2. CASE st.vol # NoVolume
  <2>1. PICK vol, n : vol = st.vol /\ n = Len(vol)
    OBVIOUS
  <2>2. /\ vol \in Seq(AnyRay) /\ NSweeps(vol) = 1 /\ n \in Nat
        /\ st.swp_index \in 0 .. NSweeps(vol) - 1
        /\ st.start = SweepStart(vol, st.swp_index)
        /\ st.nrays = SweepEnd(vol, st.swp_index) - st.start + 1
    BY <1>2, <2>1, LenProperties DEF HeldOK, Holds, Volumes
  <2>3. st.swp_index = 0
    BY <2>2
  <2>4. SweepStart(vol, 0) = 1 /\ SweepEnd(vol, 0) = n
    BY <2>1, <2>2, OneSweep
  <2>5. st.start = 1 /\ st.start + st.nrays - 1 = n
    BY <2>2, <2>3, <2>4
  <2>6. SubSeq(vol, 1, n) = vol
    <3>1. SubSeq(vol, 1, n) = [i \in 1 .. n |-> vol[1 + i - 1]]
      BY <2>1, <2>2
    <3>2. \A i \in 1 .. n : 1 + i - 1 = i
      OBVIOUS
    <3>3. vol = [i \in 1 .. n |-> vol[i]]
      BY <2>1, <2>2
    <3>4. QED
      BY <3>1, <3>2, <3>3
  <2>7. QED
    BY <1>2, <2>1, <2>5, <2>6 DEF SelectedRays
<1>3. QED
  BY <1>1, <1>2

(* A replot never runs out of sweeps, and reads the file it says it does.  *)
ReadsFile(f, nab) ==
  \E r : nab.io = RayRead(HeaderRead(io[f], nab.sweep.file, r, disk))

LEMMA ReplotReadsFile ==
  ASSUME NEW f, NEW s0, NEW action, NEW version, NEW replot, replot = TRUE, NEW rescan,
         NEW nab, nab = NabNextFile(f, s0, action, version, replot, rescan)
  PROVE  nab.ok = TRUE /\ ReadsFile(f, nab)
BY DEF NabNextFile, ReadsFile

(* What it reads in a frame is its file as it is on disk.                  *)
LEMMA ReplotShows ==
  ASSUME ViewOK, CachedAsOnDisk, OneSweepEach, NEW f \in Frames,
         NEW file \in Paths, NEW r, NEW t, HeldOK(t),
         t = RayRead(HeaderRead(io[f], file, r, disk))
  PROVE  SelectedRays(t) = disk[file]
<1>1. PICK now, h : now = io[f] /\ h = HeaderRead(now, file, r, disk)
  OBVIOUS
<1>2. IsState(now) /\ f \in Windows
  BY <1>1 DEF ViewOK, HeldOK, Windows
<1>3. IsState(h) /\ h.vol = VolumeRead(now, file, disk)
  BY <1>1, <1>2, HeaderReadVolume
<1>4. h.vol = disk[file]
  BY <1>1, <1>2, <1>3 DEF VolumeRead, CachedAsOnDisk
<1>5. t.vol = h.vol
  <2>1. PICK c : t = [h EXCEPT !.cursor = c]
    BY <1>1 DEF RayRead
  <2>2. QED
    BY <1>3, <2>1, CursorSet
<1>6. t.vol # NoVolume => NSweeps(t.vol) = 1
  BY <1>4, <1>5 DEF OneSweepEach
<1>7. SelectedRays(t) = t.vol
  BY <1>6, WholeVolumeSelected
<1>8. QED
  BY <1>4, <1>5, <1>7

LEMMA ReplotDrawn ==
  ASSUME ViewOK, NamesOK, FilesOK, CachedAsOnDisk, OneSweepEach, NEW f \in Frames,
         NEW command, command = REPLOT_LOCK_STEP, NEW rescan,
         Plot(f, command, rescan), ~halt
  PROVE  \A g \in Lock[f] : screen'[g] = disk[sweep'[g].file]
<1> DEFINE replot  == command \in {REPLOT_LOCK_STEP, REPLOT_THIS_FRAME}
           action  == CASE replot -> TIME_NEAREST
                        [] command = FORWARD_ONCE -> TIME_AFTER
                        [] command = BACKWARDS_ONCE -> TIME_BEFORE
           version == IF replot THEN sweep[f].version ELSE LATEST_VERSION
           info    == [sweep EXCEPT ![f].version = version]
           plotted == IF command = REPLOT_THIS_FRAME THEN {f} ELSE Lock[f]
           leads   == {Lead(g) : g \in plotted}
           Nab(l)  == NabNextFile(l, info[l], action, version, replot, l \in rescan)
           nab     == [l \in leads |-> Nab(l)]
           drawn   == \A l \in leads : nab[l].ok
<1>1. /\ sweep' = [g \in Frames |->
                     IF g \in leads THEN nab[g].sweep
                     ELSE IF g \in plotted
                          THEN [nab[Lead(g)].sweep EXCEPT !.changed = TRUE]
                          ELSE info[g]]
      /\ screen' = [g \in Frames |->
                      IF g \in plotted /\ drawn
                      THEN SelectedRays(nab[Lead(g)].io) ELSE screen[g]]
  BY DEF Plot
<1>0. replot = TRUE /\ plotted = Lock[f]
  BY DEF REPLOT_LOCK_STEP, REPLOT_THIS_FRAME
<1> HIDE DEF replot, action
<1>2. /\ plotted \subseteq Frames /\ leads \subseteq Frames
      /\ \A g \in plotted : Lead(g) \in leads
      /\ \A g \in leads : Lead(g) = g
  <2>1. plotted \subseteq Frames
    BY <1>0, SessionAssumption
  <2>2. \A g \in Frames : Lead(g) \in Link[g] /\ Lead(g) \in Frames
    BY LeadIsFrame
  <2>3. \A g \in Frames : Link[Lead(g)] = Link[g]
    BY <2>2, SessionAssumption
  <2>4. \A g \in Frames : Lead(Lead(g)) = Lead(g)
    BY <2>3 DEF Lead
  <2>5. QED
    BY <2>1, <2>2, <2>4
<1>3. version \in Int /\ sweep \in [Frames -> SweepInfo]
  BY <1>0 DEF ViewOK, SweepInfo
<1>4. ASSUME NEW l \in Frames
      PROVE  info[l] \in SweepInfo
  <2>1. PICK v : v = version
    OBVIOUS
  <2>2. info[l] = IF l = f THEN [sweep[l] EXCEPT !.version = v] ELSE sweep[l]
    <3> HIDE DEF version
    <3>1. QED
      BY <1>3, <2>1
  <2>3. sweep[l] \in SweepInfo /\ v \in Int
    BY <1>3, <2>1
  <2>4. [sweep[l] EXCEPT !.version = v] \in SweepInfo
    BY <2>3 DEF SweepInfo
  <2> HIDE DEF info
  <2>5. QED
    BY <2>2, <2>3, <2>4
<1> HIDE DEF info, version
<1>5. ASSUME NEW l \in leads
      PROVE  /\ nab[l].ok = TRUE /\ SelectedRays(nab[l].io) = disk[nab[l].sweep.file]
             /\ nab[l].sweep \in SweepInfo
  <2>1. PICK n : n = Nab(l)
    OBVIOUS
  <2>0. PICK s0, b : s0 = info[l] /\ b = (l \in rescan)
    OBVIOUS
  <2>2. l \in Frames /\ s0 \in SweepInfo
    BY <1>2, <1>4, <2>0
  <2>3. n = NabNextFile(l, s0, action, version, TRUE, b)
    BY <1>0, <2>0, <2>1
  <2>4. n.sweep \in SweepInfo /\ HeldOK(n.io)
    BY <1>3, <2>2, <2>3, NabOK
  <2>5. n.ok = TRUE /\ ReadsFile(l, n)
    BY <2>3, ReplotReadsFile
  <2>6. SelectedRays(n.io) = disk[n.sweep.file]
    <3>1. PICK t, file : t = n.io /\ file = n.sweep.file
      OBVIOUS
    <3>2. PICK r : t = RayRead(HeaderRead(io[l], file, r, disk))
      BY <2>5, <3>1 DEF ReadsFile
    <3>3. file \in Paths /\ HeldOK(t)
      BY <2>4, <3>1 DEF SweepInfo
    <3>4. SelectedRays(t) = disk[file]
      BY <2>2, <3>2, <3>3, ReplotShows
    <3>5. QED
      BY <3>1, <3>4
  <2>7. nab[l] = n
    BY <2>1
  <2> HIDE DEF nab
  <2>8. QED
    BY <2>4, <2>5, <2>6, <2>7
<1> HIDE DEF nab, leads, plotted
<1>6. drawn
  BY <1>5
<1> HIDE DEF drawn
<1>7. ASSUME NEW g \in plotted
      PROVE  screen'[g] = disk[sweep'[g].file]
  <2>1. PICK l, n : l = Lead(g) /\ n = nab[l]
    OBVIOUS
  <2>2. g \in Frames /\ l \in leads
    BY <1>2, <2>1
  <2>3. screen'[g] = SelectedRays(n.io)
    BY <1>1, <1>6, <2>1, <2>2
  <2>4. sweep'[g].file = n.sweep.file
    <3>1. CASE g \in leads
      BY <1>1, <1>2, <2>1, <2>2, <3>1
    <3>2. CASE g \notin leads
      <4>1. sweep'[g] = [n.sweep EXCEPT !.changed = TRUE]
        BY <1>1, <2>1, <2>2, <3>2
      <4>2. n.sweep \in SweepInfo
        BY <1>5, <2>1, <2>2
      <4>3. QED
        BY <4>1, <4>2 DEF SweepInfo
    <3>3. QED
      BY <3>1, <3>2
  <2>5. QED
    BY <1>5, <2>1, <2>2, <2>3, <2>4
<1>8. QED
  BY <1>0, <1>7

(* The replot after a Do It or an Undo leaves each frame of the lockstep   *)
(* showing its sweep as it is on disk, edited or restored: "Every dgi that *)
(* the replot will read through has to drop its cached volume"             *)
(* (EDIT_DO_IT, se_invalidate_read_caches, displayq).                      *)
THEOREM ReplotsShowEdits ==
  ASSUME FieldsKept, RecordedWhole, OneSweepFiles, SweepShared
  PROVE  Spec => ReplotShowsDisk
<1> DEFINE Shows == se.pc = "replot" /\ ~halt =>
                      \A g \in Lock[se.frame] : screen'[g] = disk[sweep'[g].file]
<1>1. Shape /\ WholeInv /\ FreshInv /\ StackInv /\ [Next]_vars => [Shows]_vars
  <2> SUFFICES ASSUME Shape, WholeInv, FreshInv, StackInv, Next,
                      se.pc = "replot", ~halt, ~(UNCHANGED vars)
               PROVE  \A g \in Lock[se.frame] : screen'[g] = disk[sweep'[g].file]
    OBVIOUS
  <2>1. Replot
    BY DEF Next, Processing, Gesture, EditRay, EndOfRays, EndDoIt, Escape, PlotFrames, Click,
           SelectFile, ResetTimes, FirstSweep, LastSweep, DoIt, Undo, Idle
  <2>2. se.frame \in Frames
    BY SessionAssumption DEF Shape, Idle
  <2>3. CachedAsOnDisk
    BY DEF FreshInv
  <2>4. PICK rescan : Plot(se.frame, REPLOT_LOCK_STEP, rescan)
    BY <2>1 DEF Replot
  <2>5. QED
    BY <2>2, <2>3, <2>4, ReplotDrawn DEF WholeInv, StackInv
<1>2. ReplotShowsDisk <=> [][Shows]_vars
  BY DEF ReplotShowsDisk
<1> HIDE DEF Shows
<1>3. QED
  BY <1>1, <1>2, SessionWhole, SessionFresh, SessionStacks, PTL DEF Spec

----------------------------------------------------------------------------
(* The files of a session over files of one sweep each.                    *)

(* The files that were recorded.                                           *)
OfRecord(p) == p \in Paths /\ InitFiles[p] # NoVolume

(* A whole volume is named after the file it is in.                        *)
LEMMA VolumeNamed ==
  ASSUME NEW p \in Paths, NEW vol, Holds(p, vol), vol # NoVolume
  PROVE  /\ PathOf(vol) = p /\ p[1] \in Nat \ {0} /\ p[2] \in Nat
         /\ Len(vol) = p[2] - p[1] + 1 /\ Len(vol) >= 1
<1>1. vol \in Volumes /\ Whole(p, vol)
  BY DEF Holds
<1>2. p[1] \in Nat \ {0} /\ p[2] \in Nat /\ p = <<p[1], p[2]>>
  BY RadarIOAssumption DEF Paths, Times
<1>3. PICK n \in Nat : n = Len(vol) /\ n >= 1 /\ DOMAIN vol = 1 .. n
  BY <1>1, VolumeFacts
<1>4. n = p[2] - p[1] + 1 /\ \A i \in 1 .. n : vol[i].time = p[1] + i - 1
  BY <1>1, <1>3 DEF Whole
<1>5. 1 \in 1 .. n /\ n \in 1 .. n
  BY <1>3
<1>6. vol[1].time = p[1] /\ vol[n].time = p[2]
  BY <1>2, <1>4, <1>5
<1>7. QED
  BY <1>2, <1>3, <1>4, <1>6 DEF PathOf

(* Files of one sweep that start together are the same: the later end of   *)
(* the longer one would begin another sweep in it.                         *)
LEMMA ShorterFile ==
  ASSUME NEW p \in Paths, NEW q \in Paths, p[1] = q[1], p[2] < q[2],
         NEW u, Holds(p, u), u # NoVolume, NEW v, Holds(q, v), v # NoVolume
  PROVE  NSweeps(v) # 1
<1>1. p[2] % RaysPerSweep = 0
  BY DEF Holds, Whole
<1>2. /\ p[1] \in Nat \ {0} /\ p[2] \in Nat /\ p[2] - p[1] + 1 >= 1
      /\ q[2] \in Nat
  BY VolumeNamed
<1>3. v \in Volumes /\ Whole(q, v)
  BY DEF Holds
<1>4. PICK n \in Nat : n = Len(v) /\ DOMAIN v = 1 .. n /\ n = q[2] - q[1] + 1
  BY <1>3, VolumeFacts DEF Whole
<1>5. PICK i \in 2 .. n : i = p[2] - p[1] + 2
  <2>1. p[2] - p[1] + 2 \in 2 .. n
    BY <1>2, <1>4
  <2>2. QED
    BY <2>1
<1>6. v[i].time = p[2] + 1 /\ v[i - 1].time = p[2]
  <2>1. i \in 1 .. n /\ i - 1 \in 1 .. n
    BY <1>4, <1>5
  <2>2. v[i].time = p[1] + i - 1 /\ v[i - 1].time = p[1] + (i - 1) - 1
    BY <1>3, <1>4, <2>1 DEF Whole
  <2>3. QED
    BY <1>2, <1>5, <2>2
<1>7. PICK R \in Nat \ {0}, k \in Int : R = RaysPerSweep /\ p[2] = R * k
  <2>1. PICK R \in Nat \ {0}, t \in Nat : R = RaysPerSweep /\ t = p[2]
    BY <1>2, RadarIOAssumption
  <2>2. PICK k, m : k = t \div R /\ m = t % R
    OBVIOUS
  <2>3. k \in Int /\ m \in 0 .. R - 1 /\ t = R * k + m
    BY <2>2
  <2>4. m = 0
    BY <1>1, <2>1, <2>2
  <2>5. t = R * k
    BY <2>3, <2>4
  <2>6. QED
    BY <2>1, <2>3, <2>5
<1>8. p[2] \div R = k /\ (p[2] - 1) \div R = k - 1
  <2>1. PICK t \in Int : t = p[2]
    BY <1>2
  <2>2. t = R * k + 0 /\ 0 \in 0 .. R - 1
    BY <1>7, <2>1
  <2>3. t - 1 = R * (k - 1) + (R - 1) /\ R - 1 \in 0 .. R - 1 /\ k - 1 \in Int /\ t - 1 \in Int
    BY <1>7, <2>1
  <2>4. t \div R = k
    BY <2>2, Division
  <2>5. (t - 1) \div R = k - 1
    BY <2>3, Division
  <2>6. QED
    BY <2>1, <2>4, <2>5
<1>9. SweepOf(v[i]) # SweepOf(v[i - 1])
  <2>1. p[2] + 1 - 1 = p[2] /\ k # k - 1
    BY <1>2, <1>7
  <2>2. QED
    BY <1>6, <1>7, <1>8, <2>1 DEF SweepOf
<1>10. {1, i} \subseteq SweepStarts(v)
  <2>1. i \in 1 .. n /\ 1 \in 1 .. n
    BY <1>4, <1>5
  <2>2. QED
    BY <1>4, <1>9, <2>1 DEF SweepStarts
<1>11. SUFFICES ASSUME NSweeps(v) = 1 PROVE FALSE
  OBVIOUS
<1>12. SweepStarts(v) = {1}
  BY <1>3, <1>11, OneSweep DEF Volumes
<1>13. QED
  BY <1>5, <1>10, <1>12

(* So among files of one sweep the time a file starts at names it.         *)
LEMMA StampNamesFile ==
  ASSUME RecordedWhole, OneSweepFiles, NEW p, OfRecord(p), NEW q, OfRecord(q), p[1] = q[1]
  PROVE  p = q
<1>1. /\ p \in Paths /\ Holds(p, InitFiles[p]) /\ InitFiles[p] # NoVolume
      /\ NSweeps(InitFiles[p]) = 1
  BY RecordedHeld DEF OfRecord, OneSweepFiles
<1>2. /\ q \in Paths /\ Holds(q, InitFiles[q]) /\ InitFiles[q] # NoVolume
      /\ NSweeps(InitFiles[q]) = 1
  BY RecordedHeld DEF OfRecord, OneSweepFiles
<1>3. ~(p[2] < q[2]) /\ ~(q[2] < p[2])
  BY <1>1, <1>2, ShorterFile
<1>4. p[2] \in Nat /\ q[2] \in Nat
  BY <1>1, <1>2, VolumeNamed
<1>5. p[2] = q[2]
  BY <1>3, <1>4
<1>6. QED
  BY <1>1, <1>2, <1>5 DEF Paths

(* The directory stays as it was recorded: an edit goes to a file that is  *)
(* there, and an undo brings back what a file held.                        *)
FilesRemain ==
  /\ dir = InitDir
  /\ \A p \in Paths : disk[p] = NoVolume <=> InitFiles[p] = NoVolume
  /\ \A i \in DOMAIN undo : undo[i].image = NoVolume <=> InitFiles[undo[i].path] = NoVolume
  /\ \A p \in se.wrote : OfRecord(p)

(* The editor reads a file that was recorded.                              *)
LEMMA EditorOfRecord ==
  ASSUME Shape, WholeInv, StackInv, FilesRemain, NEW ok, EditRay(ok), NEW st, st = StNow
  PROVE  OfRecord(st.path)
<1>1. st.vol # NoVolume
  BY RayFound DEF WholeInv
<1>2. Sees(st) /\ st.path \in Paths
  BY EditorSees
<1>3. CASE st.path \in se.wrote
  BY <1>3 DEF FilesRemain
<1>4. CASE st.path \notin se.wrote
  BY <1>1, <1>2, <1>4 DEF Sees, FilesRemain, OfRecord
<1>5. QED
  BY <1>3, <1>4

(* Writing a file that is there leaves the directory as it is.             *)
LEMMA DirKept ==
  ASSUME NEW ok, EditRay(ok), EndsNow => disk[OutNow] # NoVolume
  PROVE  dir' = dir
BY DEF EditRay, StNow, Opens, SwpNow, FileNow, RayNow, TotalNow, PuntNow, DumpsNow,
       WsNow, EndsNow, OutNow

LEMMA FilesRemainStep ==
  Shape /\ WriteInv /\ WholeInv /\ StackInv /\ FilesRemain /\ [Next]_vars => FilesRemain'
<1> SUFFICES ASSUME Shape, WriteInv, WholeInv, StackInv, FilesRemain, [Next]_vars
             PROVE  FilesRemain'
  OBVIOUS
<1>1. PICK v : v = undo'
  OBVIOUS
<1>2. \A i \in DOMAIN v : v[i].image = NoVolume <=> InitFiles[v[i].path] = NoVolume
  <2>1. EntriesFrom(v)
    BY <1>1, UndoEntries
  <2>2. ASSUME NEW i \in DOMAIN v
        PROVE  v[i].image = NoVolume <=> InitFiles[v[i].path] = NoVolume
    <3>1. CASE \E j \in DOMAIN undo : v[i] = undo[j]
      BY <3>1 DEF FilesRemain
    <3>2. ASSUME NEW p \in Paths, v[i] = [path |-> p, image |-> disk[p]]
          PROVE  v[i].image = NoVolume <=> InitFiles[v[i].path] = NoVolume
      <4>1. v[i].path = p /\ v[i].image = disk[p]
        BY <3>2
      <4>2. QED
        BY <4>1 DEF FilesRemain
    <3>3. QED
      BY <2>1, <3>1, <3>2 DEF EntriesFrom
  <2>3. QED
    BY <2>2
<1>3. ASSUME dir' = dir, se'.wrote \subseteq se.wrote,
             \A p \in Paths : disk'[p] = NoVolume <=> InitFiles[p] = NoVolume
      PROVE  FilesRemain'
  BY <1>1, <1>2, <1>3 DEF FilesRemain
<1>4. ASSUME dir' = dir, se'.wrote \subseteq se.wrote, disk' = disk
      PROVE  FilesRemain'
  BY <1>3, <1>4 DEF FilesRemain
<1>5. CASE Untouched \/ Looks
  BY <1>4, <1>5 DEF Untouched, Looks
<1>6. CASE ReplotReads \/ LoopEnds
  <2>1. se'.wrote = se.wrote
    BY <1>6 DEF ReplotReads, LoopEnds, Shape, IsEditor
  <2>2. QED
    BY <1>4, <1>6, <2>1 DEF ReplotReads, LoopEnds
<1>7. CASE EndDoIt
  BY <1>4, <1>7, DoItEnds
<1>8. ASSUME NEW ok \in WriteResults, EditRay(ok)
      PROVE  FilesRemain'
  <2>1. PICK st, W, out, d : st = StNow /\ W = WsNow.wvol /\ out = OutNow /\ d = disk'
    OBVIOUS
  <2>2. OfRecord(st.path) /\ disk[st.path] # NoVolume
    BY <1>8, <2>1, EditorOfRecord DEF FilesRemain, OfRecord
  <2>3. EndsNow => out = st.path /\ W # NoVolume
    BY <1>8, <2>1, SameFile, SweepWritten DEF WholeInv
  <2>4. dir' = dir
    BY <1>8, <2>1, <2>2, <2>3, DirKept
  <2>5. d = disk \/ (EndsNow /\ d = [q \in Paths |-> IF q = out THEN W ELSE disk[q]])
    BY <1>8, <2>1, DiskWritten DEF WholeInv
  <2>6. \A p \in Paths : d[p] = NoVolume <=> InitFiles[p] = NoVolume
    BY <2>2, <2>3, <2>5 DEF FilesRemain, OfRecord
  <2>7. se'.wrote = se.wrote \/ (EndsNow /\ se'.wrote = se.wrote \cup {out})
    BY <1>8, <2>1, WrittenNoted
  <2>8. \A p \in se'.wrote : OfRecord(p)
    BY <2>2, <2>3, <2>7 DEF FilesRemain
  <2>9. QED
    BY <1>1, <1>2, <2>1, <2>4, <2>6, <2>8 DEF FilesRemain
<1>9. ASSUME NEW f \in Frames, NEW command \in Commands, NEW auto \in BOOLEAN,
             DoIt(f, command, auto)
      PROVE  FilesRemain'
  <2>1. UNCHANGED <<disk, dir>> /\ se'.wrote = {}
    BY <1>9, DoItStarts
  <2>2. QED
    BY <1>4, <2>1
<1>10. ASSUME NEW f \in Frames, Undo(f)
      PROVE  FilesRemain'
  <2>1. /\ undo # << >> /\ dir' = dir /\ se' = [se EXCEPT !.pc = "replot", !.frame = f]
        /\ disk' = [disk EXCEPT ![undo[Len(undo)].path] = undo[Len(undo)].image]
    BY <1>10, UndoDone
  <2>2. se'.wrote = se.wrote
    BY <2>1 DEF Shape, IsEditor
  <2>3. Len(undo) \in DOMAIN undo
    BY <2>1, LenProperties, EmptySeq DEF WholeInv, FilesOK
  <2>4. PICK top, d : top = undo[Len(undo)] /\ d = disk'
    OBVIOUS
  <2>5. top.image = NoVolume <=> InitFiles[top.path] = NoVolume
    BY <2>3, <2>4 DEF FilesRemain
  <2>6. d = [disk EXCEPT ![top.path] = top.image]
    BY <2>1, <2>4
  <2>7. \A p \in Paths : d[p] = NoVolume <=> InitFiles[p] = NoVolume
    <3> TAKE p \in Paths
    <3>1. d[p] = IF p = top.path THEN top.image ELSE disk[p]
      BY <2>6 DEF WholeInv, FilesOK
    <3>2. QED
      BY <2>5, <3>1 DEF FilesRemain
  <2>8. QED
    BY <1>3, <2>1, <2>2, <2>4, <2>7
<1>11. QED
  BY <1>5, <1>6, <1>7, <1>8, <1>9, <1>10, Steps

LEMMA FilesRemainStart == Init => FilesRemain
BY DEF Init, EditorIdle, FilesRemain

----------------------------------------------------------------------------
(* What the frames plot.                                                   *)

(* What a frame says it plots is a file of the directory, and its editing  *)
(* window spans that sweep; the frame that leads reads that file, with the *)
(* directory in its catalog.                                               *)
FrameInStep(f) ==
  /\ OfRecord(sweep[f].file) /\ sweep[f].stamp = sweep[f].file[1]
  /\ span[f].start = sweep[f].stamp /\ span[f].stop = sweep[f].stamp
  /\ Lead(f) = f => name[f] = sweep[f].file /\ cat[f] = Listing(InitDir)

FramesInStep ==
  /\ span = [f \in Frames |-> span[f]] /\ \A f \in Frames : FrameInStep(f)

(* What the windows hold is of one sweep.                                  *)
OneSweepHeld == \A w \in Windows : io[w].vol # NoVolume => NSweeps(io[w].vol) = 1

(* The directory lists the files that were recorded, each at its time.     *)
LEMMA ListedOfRecord ==
  LET c == Listing(InitDir)
  IN  /\ c \in Seq(Entry)
      /\ \A i \in DOMAIN c : OfRecord(c[i].file) /\ c[i].stamp = c[i].file[1]
      /\ \A p : OfRecord(p) => p[1] \in Stamps(c)
<1> DEFINE c == Listing(InitDir)
<1>1. InitDir \in Seq(Paths)
  BY SessionAssumption
<1>2. /\ c \in Seq(Entry) /\ DOMAIN c = DOMAIN InitDir
      /\ \A i \in DOMAIN InitDir : c[i].file = InitDir[i] /\ c[i].stamp = InitDir[i][1]
  BY <1>1, ListingOK
<1>3. \A i \in DOMAIN InitDir : InitDir[i] \in Paths
  BY <1>1, LenProperties, ElementOfSeq
<1>4. \A p \in Paths : InitFiles[p] # NoVolume <=> p \in {InitDir[i] : i \in DOMAIN InitDir}
  BY SessionAssumption
<1>5. \A i \in DOMAIN InitDir : OfRecord(InitDir[i])
  BY <1>3, <1>4 DEF OfRecord
<1> HIDE DEF c
<1>6. ASSUME NEW p, OfRecord(p)
      PROVE  p[1] \in Stamps(c)
  <2>1. PICK i \in DOMAIN InitDir : p = InitDir[i]
    BY <1>4, <1>6 DEF OfRecord
  <2>2. c[i].stamp = p[1] /\ i \in DOMAIN c
    BY <1>2, <2>1
  <2>3. QED
    BY <2>2 DEF Stamps
<1>7. QED
  BY <1>2, <1>5, <1>6 DEF c

(* Looking for the file a frame has finds that file, whatever version is   *)
(* asked for; and a frame that stays where it is stays at its file.        *)
LEMMA NearestIsSame ==
  ASSUME NEW c \in Seq(Entry), NEW t \in Stamps(c), NEW v \in Int,
         NEW i \in Search(c, t, TIME_NEAREST, v)
  PROVE  c[i].stamp = t
<1>1. TimeRequested(c, t, TIME_NEAREST) = {t}
  BY DEF TimeRequested, TIME_NEAREST, TIME_AFTER, TIME_BEFORE
<1>2. i = VersionRequested(c, t, v)
  BY <1>1 DEF Search
<1>3. QED
  BY <1>2, VersionFound

(* What solo_nab_next_file comes back with: a recorded file, the same one  *)
(* when it looks for the nearest, and read unless the list is exhausted.   *)
NabbedInStep(f, s0, action, nab) ==
  /\ OfRecord(nab.sweep.file) /\ nab.sweep.stamp = nab.sweep.file[1]
  /\ nab.name = nab.sweep.file /\ nab.cat = Listing(InitDir)
  /\ action = TIME_NEAREST => nab.sweep.file = s0.file
  /\ \/ nab.ok = TRUE /\ ReadsFile(f, nab)
     \/ nab.ok = FALSE /\ nab.sweep.file = s0.file

(* Finding the next file keeps a frame that leads in step.                 *)
LEMMA NabInStep ==
  ASSUME RecordedWhole, OneSweepFiles, ViewOK, OneSweepHeld, dir = InitDir,
         NEW f \in Frames, Lead(f) = f, FrameInStep(f),
         NEW s0 \in SweepInfo, s0.file = sweep[f].file, s0.stamp = sweep[f].stamp,
         NEW action, NEW version \in Int, NEW replot, NEW rescan,
         NEW nab, nab = NabNextFile(f, s0, action, version, replot, rescan)
  PROVE  NabbedInStep(f, s0, action, nab)
<1> DEFINE reread == \/ rescan \/ urgent[f] \/ s0.changed
                     \/ replot /\ version = LATEST_VERSION /\ file_modified[f]
           c0     == IF reread THEN Listing(dir) ELSE cat[f]
           nsw    == NSweeps(io[f].vol)
           cur    == io[f].swp_index
           stepTo == IF nsw > 1 THEN StepWithin(action, cur, nsw) ELSE {}
           within == stepTo # {}
           found  == Search(c0, s0.stamp, action, SearchVersion(version))
           s1     == IF within \/ found = {} THEN [s0 EXCEPT !.changed = FALSE]
                     ELSE LET e == c0[CHOOSE i \in found : TRUE]
                          IN  [s0 EXCEPT !.file = e.file, !.stamp = e.stamp,
                                         !.changed = FALSE]
           same   == ~within /\ ~replot /\ s1.stamp = s0.stamp
           r      == Request(f, stepTo)
           read   == HeaderRead(io[f], s1.file, r, disk)
<1>1. nab = IF same
            THEN [ok |-> FALSE, cat |-> c0, sweep |-> s1,
                  name |-> name[f], req |-> req[f], io |-> io[f]]
            ELSE [ok |-> TRUE, cat |-> c0, sweep |-> s1, name |-> s1.file, req |-> r,
                  io |-> RayRead(read)]
  BY DEF NabNextFile
<1>2. c0 = Listing(InitDir)
  BY DEF FrameInStep
<1>3. ~within
  <2>1. nsw = 0 \/ nsw = 1
    <3>1. CASE io[f].vol = NoVolume
      BY <3>1, CountedSweeps
    <3>2. CASE io[f].vol # NoVolume
      BY <3>2 DEF OneSweepHeld, Windows
    <3>3. QED
      BY <3>1, <3>2
  <2>2. QED
    BY <2>1
<1> HIDE DEF c0, within
<1>4. PICK c \in Seq(Entry) : c = Listing(InitDir)
  BY ListedOfRecord
<1>5. found \subseteq DOMAIN c
  <2>1. s0.stamp \in Int
    BY RadarIOAssumption DEF SweepInfo, Times
  <2>2. SearchVersion(version) \in Int
    BY DEF SearchVersion, LatestVersion
  <2>3. QED
    BY <1>2, <1>4, <2>1, <2>2, SearchFinds
<1>6. ASSUME found # {}
      PROVE  /\ OfRecord(s1.file) /\ s1.stamp = s1.file[1]
             /\ action = TIME_NEAREST => s1.stamp = s0.stamp
  <2>1. PICK i \in found : i = CHOOSE j \in found : TRUE
    BY <1>6
  <2>2. i \in DOMAIN c /\ OfRecord(c[i].file) /\ c[i].stamp = c[i].file[1]
    BY <1>4, <1>5, <2>1, ListedOfRecord
  <2>3. PICK p, t : p = c[i].file /\ t = c[i].stamp
    OBVIOUS
  <2>4. s1 = [s0 EXCEPT !.file = p, !.stamp = t, !.changed = FALSE]
    <3> HIDE DEF found
    <3>1. QED
      BY <1>2, <1>3, <1>4, <1>6, <2>1, <2>3
  <2>5. s1.file = p /\ s1.stamp = t
    BY <2>4 DEF SweepInfo
  <2>6. ASSUME action = TIME_NEAREST
        PROVE  t = s0.stamp
    <3>1. OfRecord(s0.file) /\ s0.stamp = s0.file[1]
      BY DEF FrameInStep
    <3>2. s0.stamp \in Stamps(c)
      BY <1>4, <3>1, ListedOfRecord
    <3>3. SearchVersion(version) \in Int
      BY DEF SearchVersion, LatestVersion
    <3>4. i \in Search(c, s0.stamp, TIME_NEAREST, SearchVersion(version))
      BY <1>2, <1>4, <2>1, <2>6
    <3>5. QED
      BY <2>3, <3>2, <3>3, <3>4, NearestIsSame
  <2> HIDE DEF s1, found
  <2>7. QED
    BY <2>2, <2>3, <2>5, <2>6
<1>7. /\ OfRecord(s1.file) /\ s1.stamp = s1.file[1]
      /\ action = TIME_NEAREST => s1.stamp = s0.stamp
  <2>1. CASE found = {}
    <3>1. s1 = [s0 EXCEPT !.changed = FALSE]
      <4> HIDE DEF found
      <4>1. QED
        BY <2>1
    <3>2. s1.file = s0.file /\ s1.stamp = s0.stamp
      BY <3>1 DEF SweepInfo
    <3> HIDE DEF s1
    <3>3. QED
      BY <3>2 DEF FrameInStep
  <2> HIDE DEF s1, found
  <2>2. QED
    BY <1>6, <2>1
<1> HIDE DEF s1, found
<1>8. s1.stamp = s0.stamp => s1.file = s0.file
  BY <1>7, StampNamesFile DEF FrameInStep
<1>9. nab.sweep = s1 /\ nab.cat = c0
  <2> HIDE DEF same, r, read
  <2>1. QED
    BY <1>1
<1>10. CASE same
  <2>1. s1.stamp = s0.stamp /\ nab.name = name[f] /\ nab.ok = FALSE
    <3>1. s1.stamp = s0.stamp
      BY <1>10
    <3> HIDE DEF same, r, read
    <3>2. QED
      BY <1>1, <1>10, <3>1
  <2>2. QED
    BY <1>2, <1>7, <1>8, <1>9, <2>1 DEF FrameInStep, NabbedInStep
<1>11. CASE ~same
  <2>1. nab.name = s1.file /\ nab.ok = TRUE /\ nab.io = RayRead(read)
    <3> HIDE DEF same, r, read
    <3>1. QED
      BY <1>1, <1>11
  <2>2. ReadsFile(f, nab)
    BY <1>9, <2>1 DEF ReadsFile
  <2>3. QED
    BY <1>2, <1>7, <1>8, <1>9, <2>1, <2>2 DEF NabbedInStep
<1>12. QED
  BY <1>10, <1>11

(* A frame that leads leads itself, and is in lockstep with those it leads. *)
LEMMA LeadsLed ==
  /\ \A g \in Frames : Lead(g) \in Frames /\ Lead(Lead(g)) = Lead(g)
  /\ \A f \in Frames : \A g \in Lock[f] : g \in Frames /\ Lead(g) \in Lock[f]
<1>1. \A g \in Frames : Lead(g) \in Link[g] /\ Lead(g) \in Frames
  BY LeadIsFrame
<1>2. \A g \in Frames : Link[Lead(g)] = Link[g]
  BY <1>1, SessionAssumption
<1>3. \A g \in Frames : Lead(Lead(g)) = Lead(g)
  BY <1>2 DEF Lead
<1>4. \A f \in Frames : \A g \in Lock[f] : g \in Frames /\ Lead(g) \in Lock[f]
  BY <1>1, SessionAssumption
<1>5. QED
  BY <1>1, <1>3, <1>4

(* Plots and clicks move a frame, its editing window and its reads together. *)
LEMMA PlotInStep ==
  ASSUME RecordedWhole, OneSweepFiles, ViewOK, NamesOK, FilesOK, OneSweepHeld, dir = InitDir,
         FramesInStep, NEW f \in Frames, NEW command, NEW rescan, Plot(f, command, rescan)
  PROVE  FramesInStep'
<1>1. CASE halt
  BY <1>1 DEF Plot, frameVars, FramesInStep, FrameInStep
<1>2. CASE ~halt
  <2> DEFINE replot  == command \in {REPLOT_LOCK_STEP, REPLOT_THIS_FRAME}
             action  == CASE replot -> TIME_NEAREST
                          [] command = FORWARD_ONCE -> TIME_AFTER
                          [] command = BACKWARDS_ONCE -> TIME_BEFORE
             version == IF replot THEN sweep[f].version ELSE LATEST_VERSION
             info    == [sweep EXCEPT ![f].version = version]
             plotted == IF command = REPLOT_THIS_FRAME THEN {f} ELSE Lock[f]
             leads   == {Lead(g) : g \in plotted}
             Nab(l)  == NabNextFile(l, info[l], action, version, replot, l \in rescan)
             nab     == [l \in leads |-> Nab(l)]
  <2>1. /\ name' = [g \in Frames |-> IF g \in leads THEN nab[g].name ELSE name[g]]
        /\ cat' = [g \in Frames |-> IF g \in leads THEN nab[g].cat ELSE cat[g]]
        /\ sweep' = [g \in Frames |->
                       IF g \in leads THEN nab[g].sweep
                       ELSE IF g \in plotted
                            THEN [nab[Lead(g)].sweep EXCEPT !.changed = TRUE]
                            ELSE info[g]]
        /\ span' = [g \in Frames |->
                      IF g \in plotted
                      THEN [start |-> sweep'[g].stamp, stop |-> sweep'[g].stamp]
                      ELSE span[g]]
    BY <1>2 DEF Plot
  <2>2. \A g \in plotted : g \in Frames /\ Lead(g) \in leads
    BY LeadsLed
  <2>3. \A l \in leads :
          l \in Frames /\ Lead(l) = l /\ (l \notin plotted => command = REPLOT_THIS_FRAME)
    BY LeadsLed
  <2>4. command = REPLOT_THIS_FRAME => action = TIME_NEAREST
    <3>1. ASSUME command = REPLOT_THIS_FRAME
          PROVE  action = TIME_NEAREST
      <4>1. replot /\ ~(command = FORWARD_ONCE) /\ ~(command = BACKWARDS_ONCE)
        BY <3>1 DEF REPLOT_THIS_FRAME, FORWARD_ONCE, BACKWARDS_ONCE
      <4> HIDE DEF replot
      <4>2. QED
        BY <4>1, Zenon
    <3> HIDE DEF action
    <3>2. QED
      BY <3>1
  <2>5. version \in Int
    BY DEF ViewOK, SweepInfo, LATEST_VERSION
  <2>6. ASSUME NEW g \in Frames
        PROVE  info[g] \in SweepInfo /\ info[g].file = sweep[g].file
               /\ info[g].stamp = sweep[g].stamp
    <3>1. PICK v : v = version
      OBVIOUS
    <3>2. info[g] = IF g = f THEN [sweep[g] EXCEPT !.version = v] ELSE sweep[g]
      <4> HIDE DEF version
      <4>1. QED
        BY <3>1 DEF ViewOK
    <3>3. sweep[g] \in SweepInfo /\ v \in Int
      BY <2>5, <3>1 DEF ViewOK
    <3>4. PICK s : s = [sweep[g] EXCEPT !.version = v]
      OBVIOUS
    <3>5. s \in SweepInfo /\ s.file = sweep[g].file /\ s.stamp = sweep[g].stamp
      BY <3>3, <3>4 DEF SweepInfo
    <3> HIDE DEF info
    <3>6. QED
      BY <3>2, <3>3, <3>4, <3>5
  <2> HIDE DEF info, version, action, replot
  <2>7. ASSUME NEW l \in leads
        PROVE  /\ OfRecord(nab[l].sweep.file) /\ nab[l].sweep.stamp = nab[l].sweep.file[1]
               /\ nab[l].name = nab[l].sweep.file /\ nab[l].cat = Listing(InitDir)
               /\ l \notin plotted => nab[l].sweep.file = sweep[l].file
               /\ nab[l].sweep \in SweepInfo
    <3>1. PICK n, s0, b : n = Nab(l) /\ s0 = info[l] /\ b = (l \in rescan)
      OBVIOUS
    <3>2. /\ l \in Frames /\ Lead(l) = l /\ s0 \in SweepInfo
          /\ s0.file = sweep[l].file /\ s0.stamp = sweep[l].stamp
      <4>1. l \in Frames /\ Lead(l) = l
        BY <2>3
      <4>2. QED
        BY <2>6, <3>1, <4>1
    <3>3. n = NabNextFile(l, s0, action, version, replot, b)
      BY <3>1
    <3>4. /\ OfRecord(n.sweep.file) /\ n.sweep.stamp = n.sweep.file[1]
          /\ n.name = n.sweep.file /\ n.cat = Listing(InitDir)
          /\ action = TIME_NEAREST => n.sweep.file = s0.file
      <4>1. FrameInStep(l)
        BY <3>2 DEF FramesInStep
      <4>2. NabbedInStep(l, s0, action, n)
        BY <2>5, <3>2, <3>3, <4>1, NabInStep
      <4>3. QED
        BY <4>2 DEF NabbedInStep
    <3>5. n.sweep \in SweepInfo
      BY <2>5, <3>2, <3>3, NabOK
    <3>6. nab[l] = n
      BY <3>1
    <3> HIDE DEF nab, plotted, leads
    <3>7. QED
      BY <2>3, <2>4, <3>2, <3>4, <3>5, <3>6
  <2> HIDE DEF nab, leads, plotted
  <2>8. PICK sw, sp, nm, ct : sw = sweep' /\ sp = span' /\ nm = name' /\ ct = cat'
    OBVIOUS
  <2>9. ASSUME NEW g \in Frames
        PROVE  /\ OfRecord(sw[g].file) /\ sw[g].stamp = sw[g].file[1]
               /\ sp[g].start = sw[g].stamp /\ sp[g].stop = sw[g].stamp
               /\ Lead(g) = g => nm[g] = sw[g].file /\ ct[g] = Listing(InitDir)
    <3>0. FrameInStep(g)
      BY DEF FramesInStep
    <3>1. CASE g \in leads
      <4>1. sw[g] = nab[g].sweep /\ nm[g] = nab[g].name /\ ct[g] = nab[g].cat
        BY <2>1, <2>8, <3>1
      <4>2. /\ OfRecord(sw[g].file) /\ sw[g].stamp = sw[g].file[1]
            /\ nm[g] = sw[g].file /\ ct[g] = Listing(InitDir)
            /\ g \notin plotted => sw[g].file = sweep[g].file
        BY <2>7, <3>1, <4>1
      <4>3. CASE g \in plotted
        BY <2>1, <2>8, <4>2, <4>3
      <4>4. CASE g \notin plotted
        <5>1. sp[g] = span[g]
          BY <2>1, <2>8, <4>4
        <5>2. QED
          BY <3>0, <4>2, <4>4, <5>1 DEF FrameInStep
      <4>5. QED
        BY <4>3, <4>4
    <3>2. CASE g \notin leads /\ g \in plotted
      <4>1. PICK l, s : l = Lead(g) /\ s = nab[l].sweep
        OBVIOUS
      <4>2. l \in leads /\ l # g
        BY <2>2, <3>2, <4>1
      <4>3. s \in SweepInfo /\ OfRecord(s.file) /\ s.stamp = s.file[1]
        BY <2>7, <4>1, <4>2
      <4>4. sw[g] = [s EXCEPT !.changed = TRUE]
        BY <2>1, <2>8, <3>2, <4>1
      <4>5. sw[g].file = s.file /\ sw[g].stamp = s.stamp
        BY <4>3, <4>4 DEF SweepInfo
      <4>6. sp[g].start = sw[g].stamp /\ sp[g].stop = sw[g].stamp
        BY <2>1, <2>8, <3>2
      <4>7. QED
        BY <4>1, <4>2, <4>3, <4>5, <4>6
    <3>3. CASE g \notin leads /\ g \notin plotted
      <4>1. sw[g] = info[g] /\ sp[g] = span[g] /\ nm[g] = name[g] /\ ct[g] = cat[g]
        BY <2>1, <2>8, <3>3
      <4>2. QED
        BY <2>6, <3>0, <4>1 DEF FrameInStep
    <3>4. QED
      BY <3>1, <3>2, <3>3
  <2>10. span' = [g \in Frames |-> span'[g]]
    BY <2>1
  <2>11. QED
    BY <2>8, <2>9, <2>10 DEF FramesInStep, FrameInStep
<1>3. QED
  BY <1>1, <1>2

LEMMA ClickInStep ==
  ASSUME RecordedWhole, OneSweepFiles, ViewOK, NamesOK, FilesOK, OneSweepHeld, dir = InitDir,
         FramesInStep, NEW f \in Frames, Click(f)
  PROVE  FramesInStep'
<1>1. PICK l \in Frames : l = Lead(f) /\ Lead(l) = l
  BY LeadsLed
<1>2. PICK nab : nab = NabNextFile(l, sweep[l], TIME_NEAREST, LATEST_VERSION, TRUE, FALSE)
  OBVIOUS
<1>3. span' = span
  BY DEF Click
<1>4. CASE file_modified[l]
  <2>1. /\ name' = [name EXCEPT ![l] = nab.name] /\ cat' = [cat EXCEPT ![l] = nab.cat]
        /\ sweep' = [sweep EXCEPT ![l] = nab.sweep]
    BY <1>1, <1>2, <1>4 DEF Click
  <2>2. FrameInStep(l) /\ sweep[l] \in SweepInfo /\ LATEST_VERSION \in Int
    BY DEF FramesInStep, ViewOK, LATEST_VERSION
  <2>3. /\ OfRecord(nab.sweep.file) /\ nab.sweep.stamp = nab.sweep.file[1]
        /\ nab.name = nab.sweep.file /\ nab.cat = Listing(InitDir)
        /\ nab.sweep.file = sweep[l].file
    <3>1. NabbedInStep(l, sweep[l], TIME_NEAREST, nab)
      BY <1>1, <1>2, <2>2, NabInStep
    <3>2. QED
      BY <3>1 DEF NabbedInStep
  <2>4. PICK sw, nm, ct : sw = sweep' /\ nm = name' /\ ct = cat'
    OBVIOUS
  <2>5. /\ sw[l] = nab.sweep /\ nm[l] = nab.name /\ ct[l] = nab.cat
        /\ \A g \in Frames : g # l => sw[g] = sweep[g] /\ nm[g] = name[g] /\ ct[g] = cat[g]
    BY <2>1, <2>4 DEF ViewOK
  <2>6. ASSUME NEW g \in Frames
        PROVE  /\ OfRecord(sw[g].file) /\ sw[g].stamp = sw[g].file[1]
               /\ span[g].start = sw[g].stamp /\ span[g].stop = sw[g].stamp
               /\ Lead(g) = g => nm[g] = sw[g].file /\ ct[g] = Listing(InitDir)
    <3>1. FrameInStep(g)
      BY DEF FramesInStep
    <3>2. CASE g = l
      BY <2>3, <2>5, <3>1, <3>2 DEF FrameInStep
    <3>3. CASE g # l
      BY <2>5, <3>1, <3>3 DEF FrameInStep
    <3>4. QED
      BY <3>2, <3>3
  <2>7. QED
    BY <1>3, <2>4, <2>6 DEF FramesInStep, FrameInStep
<1>5. CASE ~file_modified[l]
  <2>1. UNCHANGED <<name, cat, sweep>>
    BY <1>1, <1>5 DEF Click
  <2>2. QED
    BY <1>3, <2>1 DEF FramesInStep, FrameInStep
<1>6. QED
  BY <1>4, <1>5

----------------------------------------------------------------------------
(* The undo stack, and what a Do It does to its file.                      *)

(* Snapshots of the file the Do It rewrites, of a span of one sweep: the   *)
(* editing window is that of the frame that leads, the span is that of the *)
(* sweep shown, and the commands either edit every ray or none.            *)
EditsAsPlotted ==
  /\ \A f \in EditFrames : Lead(f) = f
  /\ Commands \subseteq {"edit", "survey"}
  /\ Gestures \cap {"select", "first_sweep", "last_sweep"} = {}

(* The span of a sweep shown is that of one file, its own.                 *)
LEMMA OneToEdit ==
  ASSUME RecordedWhole, OneSweepFiles, NEW p, OfRecord(p), NEW t, t = p[1]
  PROVE  SweepsToEdit(Listing(InitDir), t, t) = <<p>>
<1>1. PICK c \in Seq(Entry) : c = Listing(InitDir)
  BY ListedOfRecord
<1>2. t \in Stamps(c)
  BY <1>1, ListedOfRecord
<1>3. PICK k \in DOMAIN c : c[k].stamp = t /\ SweepsToEdit(c, t, t) = <<c[k].file>>
  BY <1>1, <1>2, OneListed
<1>4. OfRecord(c[k].file) /\ c[k].file[1] = t
  BY <1>1, <1>3, ListedOfRecord
<1>5. c[k].file = p
  BY <1>4, StampNamesFile
<1>6. QED
  BY <1>1, <1>3, <1>5

(* A push, and what it leaves below the new entry.                         *)
LEMMA PushedTop ==
  ASSUME FilesOK, Len(undo) <= SE_UNDO_DEPTH, NEW p \in Paths, NEW v, v = Pushed(p)
  PROVE  /\ v # << >> /\ v[Len(v)] = [path |-> p, image |-> disk[p]]
         /\ SubSeq(v, 1, Len(v) - 1) = IF Len(undo) = SE_UNDO_DEPTH THEN Tail(undo) ELSE undo
         /\ Len(v) <= SE_UNDO_DEPTH /\ Len(v) \in Nat
<1>1. PICK E, e : /\ E = [path : Paths, image : Volumes]
                  /\ e = [path |-> p, image |-> disk[p]]
  OBVIOUS
<1>2. disk[p] \in Volumes /\ undo \in Seq(E)
  BY <1>1 DEF FilesOK, Holds
<1>3. e \in E
  BY <1>1, <1>2
<1>4. PICK u : u = IF Len(undo) = SE_UNDO_DEPTH THEN Tail(undo) ELSE undo
  OBVIOUS
<1>5. PICK d \in Nat \ {0} : d = SE_UNDO_DEPTH
  BY SessionAssumption
<1>6. u \in Seq(E) /\ Len(u) < d
  <2>1. Len(undo) \in Nat /\ Len(undo) <= d
    BY <1>2, <1>5, LenProperties
  <2>2. CASE Len(undo) = d
    <3>1. u = Tail(undo) /\ undo # << >>
      BY <1>2, <1>4, <1>5, <2>2, EmptySeq
    <3>2. u \in Seq(E) /\ Len(u) = Len(undo) - 1
      BY <1>2, <3>1, HeadTailProperties
    <3>3. QED
      BY <1>5, <2>2, <3>2
  <2>3. CASE Len(undo) # d
    BY <1>2, <1>4, <1>5, <2>1, <2>3
  <2>4. QED
    BY <2>2, <2>3
<1>7. v = Append(u, e)
  BY <1>1, <1>4 DEF Pushed
<1>8. /\ v \in Seq(E) /\ Len(v) = Len(u) + 1 /\ v[Len(u) + 1] = e
      /\ \A i \in 1 .. Len(u) : v[i] = u[i]
  BY <1>3, <1>6, <1>7, AppendProperties
<1>9. PICK n \in Nat : n = Len(u)
  BY <1>6, LenProperties
<1>10. v # << >> /\ v[Len(v)] = e /\ Len(v) = n + 1 /\ n + 1 <= d
  BY <1>5, <1>6, <1>8, <1>9, EmptySeq
<1>11. SubSeq(v, 1, n) = u
  <2>1. SubSeq(v, 1, n) = [i \in 1 .. n |-> v[1 + i - 1]]
    BY <1>8, <1>9, <1>10
  <2>2. \A i \in 1 .. n : 1 + i - 1 = i
    OBVIOUS
  <2>3. u = [i \in 1 .. n |-> u[i]]
    BY <1>6, <1>9
  <2>4. \A i \in 1 .. n : v[1 + i - 1] = u[i]
    BY <1>8, <1>9, <2>2
  <2>5. SubSeq(v, 1, n) = [i \in 1 .. n |-> u[i]]
    BY <2>1, <2>4
  <2>6. QED
    BY <2>3, <2>5
<1>12. Len(v) - 1 = n
  BY <1>10
<1>13. QED
  BY <1>1, <1>4, <1>5, <1>10, <1>11, <1>12

(* The stack stays within its depth.                                       *)
UndoBounded == Len(undo) <= SE_UNDO_DEPTH

(* A pop makes room.                                                       *)
LEMMA PoppedLength ==
  ASSUME FilesOK, UndoBounded, undo # << >>, NEW v, v = SubSeq(undo, 1, Len(undo) - 1)
  PROVE  Len(v) = Len(undo) - 1 /\ Len(v) < SE_UNDO_DEPTH
<1>0. PICK E : undo \in Seq(E)
  BY DEF FilesOK
<1>1. PICK n \in Nat, d \in Nat : n = Len(undo) /\ d = SE_UNDO_DEPTH /\ n >= 1 /\ n <= d
  <2>1. Len(undo) \in Nat /\ Len(undo) >= 1
    BY <1>0, LenProperties, EmptySeq
  <2>2. SE_UNDO_DEPTH \in Nat
    BY SessionAssumption
  <2>3. QED
    BY <2>1, <2>2 DEF UndoBounded
<1>2. Len(SubSeq(undo, 1, n - 1)) = n - 1
  BY <1>0, <1>1
<1>3. QED
  BY <1>1, <1>2

LEMMA UndoBoundedStep == Shape /\ WholeInv /\ UndoBounded /\ [Next]_vars => UndoBounded'
<1> SUFFICES ASSUME Shape, WholeInv, UndoBounded, [Next]_vars PROVE UndoBounded'
  OBVIOUS
<1>0. FilesOK /\ ViewOK
  BY DEF WholeInv
<1>1. PICK v : v = undo'
  OBVIOUS
<1>2. CASE v = undo
  BY <1>1, <1>2 DEF UndoBounded
<1>3. CASE undo # << >> /\ v = SubSeq(undo, 1, Len(undo) - 1)
  <2>1. Len(v) = Len(undo) - 1 /\ Len(v) < SE_UNDO_DEPTH
    BY <1>0, <1>3, PoppedLength
  <2>2. Len(undo) \in Nat /\ SE_UNDO_DEPTH \in Nat
    BY <1>0, LenProperties, SessionAssumption DEF FilesOK
  <2>3. QED
    BY <1>1, <2>1, <2>2 DEF UndoBounded
<1>4. CASE undo = << >> /\ v = SubSeq(undo, 1, Len(undo) - 1)
  <2>1. SubSeq(undo, 1, Len(undo) - 1) = << >>
    BY <1>4
  <2>2. QED
    BY <1>2, <1>4, <2>1
<1>5. CASE \E p \in Paths : v = Pushed(p)
  <2>1. PICK p \in Paths : v = Pushed(p)
    BY <1>5
  <2>2. Len(v) <= SE_UNDO_DEPTH
    BY <1>0, <2>1, PushedTop DEF UndoBounded
  <2>3. QED
    BY <1>1, <2>2 DEF UndoBounded
<1>6. CASE Untouched \/ Looks \/ ReplotReads \/ LoopEnds
  BY <1>1, <1>2, <1>6 DEF Untouched, Looks, ReplotReads, LoopEnds
<1>7. CASE EndDoIt
  BY <1>1, <1>2, <1>3, <1>4, <1>7, DoItEnds
<1>8. ASSUME NEW ok \in WriteResults, EditRay(ok)
      PROVE  UndoBounded'
  BY <1>1, <1>2, <1>8, EditRayReads
<1>9. ASSUME NEW f \in Frames, NEW command \in Commands, NEW auto \in BOOLEAN,
             DoIt(f, command, auto)
      PROVE  UndoBounded'
  <2>1. undo' = IF name[f] = NoPath THEN undo ELSE Pushed(name[f])
    BY <1>9, DoItStarts
  <2>2. name[f] \in Paths \cup {NoPath}
    BY <1>0 DEF ViewOK
  <2>3. QED
    BY <1>1, <1>2, <1>5, <2>1, <2>2
<1>10. ASSUME NEW f \in Frames, Undo(f)
       PROVE  UndoBounded'
  BY <1>1, <1>3, <1>10, UndoDone
<1>11. QED
  BY <1>6, <1>7, <1>8, <1>9, <1>10, Steps

(* What a Do It writes is its file edited once more.                       *)
LEMMA EditedFile ==
  ASSUME Shape, WriteInv, WholeInv, StackInv, NEW ok, EditRay(ok), EndsNow,
         NEW st, st = StNow, NEW W, W = WsNow.wvol
  PROVE  W = AsPromised!Edited(st.vol)
<1>0. ViewOK /\ FilesOK /\ LoopOK
  BY DEF WholeInv
<1>1. HeldOK(st) /\ st.vol # NoVolume
  BY <1>0, RayFound
<1>2. PICK vol, n : vol = st.vol /\ n = Len(vol)
  OBVIOUS
<1>3. Len(W) = n
  BY <1>2, SameFile
<1>4. W = Rewritten(st, st.nrays)
  BY <1>0, SweepWritten
<1>5. vol \in Seq(AnyRay) /\ n \in Nat /\ DOMAIN vol = 1 .. n
  BY <1>1, <1>2, LenProperties DEF HeldOK, Holds, Volumes
<1>6. st.start = 1 /\ st.nrays = n
  <2>1. NSweeps(vol) = 1
    BY <1>1, <1>2, EditorSees DEF Sees
  <2>2. /\ st.swp_index \in 0 .. NSweeps(vol) - 1
        /\ st.start = SweepStart(vol, st.swp_index)
        /\ st.nrays = SweepEnd(vol, st.swp_index) - st.start + 1
    BY <1>1, <1>2 DEF HeldOK
  <2>3. st.swp_index = 0
    BY <2>1, <2>2
  <2>4. SweepStart(vol, 0) = 1 /\ SweepEnd(vol, 0) = n
    BY <1>2, <1>5, <2>1, OneSweep
  <2>5. QED
    BY <1>5, <2>2, <2>3, <2>4
<1>7. W = [i \in 1 .. n |-> [vol[1 + i - 1] EXCEPT !.gen = @ + 1]]
  BY <1>2, <1>4, <1>6 DEF Rewritten
<1>8. \A i \in 1 .. n : 1 + i - 1 = i
  BY <1>5
<1>9. W = [i \in 1 .. n |-> [vol[i] EXCEPT !.gen = @ + 1]]
  BY <1>7, <1>8
<1>10. QED
  BY <1>2, <1>5, <1>9 DEF AsPromised!Edited

----------------------------------------------------------------------------
(* What holds from the snapshot of a Do It to its end.                     *)

(* From its snapshot to the end of a Do It: the snapshot is of the one     *)
(* file the Do It is about, and what that file holds meanwhile.            *)
InDoIt ==
  LET p   == sweep[se.frame].file
      top == undo[Len(undo)]
  IN  /\ se.snapshot = TRUE /\ undo # << >> /\ top.path = p
      /\ se.list = <<p>> /\ se.command \in {"edit", "survey"} /\ se.swp_count \in {0, 1}
      /\ se.pc = "loop" /\ ~Opens => se.swp_count = 1 /\ io[SE_FRAME].path = p
      /\ se.wrote = {} => disk[p] = top.image
      /\ se.wrote # {} => /\ se.wrote = {p} /\ disk[p] = AsPromised!Edited(top.image)
                          /\ se.swp_count = 1 /\ Opens
      /\ se.modified => \/ wio.last_path \in {NoPath, p}
                        \/ se.pc = "loop" /\ ~halt /\ ~Opens

DoItInStep == se.pc \in {"loop", "post"} => InDoIt

(* All frames show the same sweep, and it is that of the file they name.   *)
ShownTogether ==
  \A g \in Frames : /\ screen[g] # NoVolume /\ PathOf(screen[g]) = sweep[g].file
                    /\ \A h \in Frames : sweep[h].file = sweep[g].file

(* What is read is a file of one sweep.                                    *)
LEMMA OneSweepHeldStep ==
  Shape /\ WriteInv /\ WholeInv /\ StackInv /\ OneSweepHeld /\ [Next]_vars => OneSweepHeld'
<1> SUFFICES ASSUME Shape, WriteInv, WholeInv, StackInv, OneSweepHeld, [Next]_vars
             PROVE  OneSweepHeld'
  OBVIOUS
<1>0. WholeInv' /\ StackInv' /\ SE_FRAME \in Windows
  BY WholeStep, StackStep DEF Windows
<1>1. ASSUME \A w \in Windows : io'[w].vol = NoVolume \/ io'[w].vol = io[w].vol
      PROVE  OneSweepHeld'
  BY <1>1 DEF OneSweepHeld, Windows, NoVolume
<1>2. ASSUME Reads, disk' = disk
      PROVE  OneSweepHeld'
  <2>1. ASSUME NEW w \in Windows, io'[w].vol # NoVolume
        PROVE  NSweeps(io'[w].vol) = 1
    <3>1. PICK t : t = io'[w]
      OBVIOUS
    <3>2. HeldOK(t)
      BY <1>0, <3>1 DEF WholeInv, ViewOK, HeldOK, Windows
    <3>3. t.path \in Paths /\ t.vol # NoVolume
      BY <2>1, <3>1, <3>2 DEF HeldOK
    <3>4. t.vol = io[w].vol \/ t.vol = disk[t.path]
      BY <1>2, <3>1, <3>3 DEF Reads, ReadFrom
    <3>5. NSweeps(t.vol) = 1
      BY <3>3, <3>4 DEF OneSweepHeld, StackInv, OneSweepEach
    <3>6. QED
      BY <3>1, <3>5
  <2>2. QED
    BY <2>1 DEF OneSweepHeld, Windows, NoVolume
<1>3. CASE Untouched \/ LoopEnds
  BY <1>1, <1>3 DEF Untouched, LoopEnds
<1>4. CASE Looks \/ ReplotReads
  BY <1>2, <1>4 DEF Looks, ReplotReads
<1>5. CASE EndDoIt
  <2>1. IF se.modified THEN DropReadCaches(se.frame) ELSE io' = io
    BY <1>5, DoItEnds
  <2>2. CASE se.modified
    <3>1. \A w \in Windows : io'[w].vol = NoVolume \/ io'[w] = io[w]
      BY <2>1, <2>2, CachesDropped
    <3>2. QED
      BY <1>1, <3>1
  <2>3. QED
    BY <1>1, <2>1, <2>2
<1>6. ASSUME NEW ok \in WriteResults, EditRay(ok)
      PROVE  OneSweepHeld'
  <2>1. PICK t : t = RayRead(StNow)
    OBVIOUS
  <2>2. io' = [w \in Windows |-> IF w = SE_FRAME THEN t ELSE io[w]]
    BY <1>6, <2>1, EditRayReads
  <2>3. io'[SE_FRAME] = t
    BY <1>0, <2>2
  <2>4. t.vol # NoVolume => NSweeps(t.vol) = 1
    BY <1>0, <2>3 DEF StackInv, Sees, NoVolume
  <2>5. QED
    BY <2>2, <2>4 DEF OneSweepHeld, Windows, NoVolume
<1>7. ASSUME NEW f \in Frames, NEW command \in Commands, NEW auto \in BOOLEAN,
             DoIt(f, command, auto)
      PROVE  OneSweepHeld'
  <2>1. io' = io
    BY <1>7, DoItStarts
  <2>2. QED
    BY <1>1, <2>1
<1>8. ASSUME NEW f \in Frames, Undo(f)
      PROVE  OneSweepHeld'
  <2>1. DropReadCaches(f)
    BY <1>8, UndoDone
  <2>2. \A w \in Windows : io'[w].vol = NoVolume \/ io'[w] = io[w]
    BY <2>1, CachesDropped
  <2>3. QED
    BY <1>1, <2>2
<1>9. QED
  BY <1>3, <1>4, <1>5, <1>6, <1>7, <1>8, Steps

(* The steps, by what they do to what the frames plot.                     *)
Plots == \E f \in Frames : \E command, rescan : Plot(f, command, rescan)

LEMMA FrameSteps ==
  ASSUME Shape, EditsAsPlotted, [Next]_vars
  PROVE  \/ UNCHANGED <<sweep, span, name, cat, screen>>
         \/ Plots \/ (\E f \in Frames : Click(f)) \/ (\E f \in Frames : ResetTimes(f)) \/ EndDoIt
<1>1. CASE UNCHANGED vars
  BY <1>1 DEF vars
<1>2. CASE Processing
  BY <1>2 DEF Processing, EndOfRays, EditRay, frameVars
<1>3. CASE Replot
  <2>1. se.frame \in Frames
    BY <1>3, SessionAssumption DEF Replot, Shape, Idle
  <2>2. QED
    BY <1>3, <2>1 DEF Replot, Plots
<1>4. CASE Gesture
  <2>1. CASE Escape
    BY <2>1 DEF Escape, frameVars
  <2>2. ASSUME NEW f \in Frames, NEW command \in PlotCommands, PlotFrames(f, command)
        PROVE  Plots
    BY <2>2 DEF PlotFrames, Plots
  <2>3. ASSUME NEW f \in Frames, (\E k \in DOMAIN dir : SelectFile(f, k)) \/ FirstSweep(f)
                                   \/ LastSweep(f)
        PROVE  FALSE
    BY <2>3 DEF SelectFile, FirstSweep, LastSweep, EditsAsPlotted
  <2>4. ASSUME NEW f \in Frames,
               Undo(f) \/ \E command \in Commands, auto \in BOOLEAN : DoIt(f, command, auto)
        PROVE  UNCHANGED <<sweep, span, name, cat, screen>>
    BY <2>4 DEF Undo, DoIt, frameVars
  <2>5. QED
    BY <1>4, <2>1, <2>2, <2>3, <2>4 DEF Gesture
<1>5. QED
  BY <1>1, <1>2, <1>3, <1>4 DEF Next

(* The end of a Do It leaves its frame where it is: it wrote the file the  *)
(* frame plots.                                                            *)
LEMMA EndStays ==
  ASSUME Shape, EndDoIt, DoItInStep
  PROVE  /\ UNCHANGED <<sweep, cat, name, screen>>
         /\ span' = [span EXCEPT ![se.frame] = [start |-> sweep[se.frame].stamp,
                                               stop |-> sweep[se.frame].stamp]]
<1>1. /\ se.pc = "post" /\ UNCHANGED <<name, screen>>
      /\ span' = [span EXCEPT ![se.frame] = [start |-> sweep[se.frame].stamp,
                                            stop |-> sweep[se.frame].stamp]]
  BY DEF EndDoIt
<1>2. CASE se.modified
  <2>1. wio.last_path = NoPath \/ wio.last_path = sweep[se.frame].file
    BY <1>1, <1>2 DEF DoItInStep, InDoIt
  <2>2. PointFrameAtWritten(se.frame)
    BY <1>2 DEF EndDoIt
  <2>3. UNCHANGED <<sweep, cat>>
    BY <2>1, <2>2 DEF PointFrameAtWritten
  <2>4. QED
    BY <1>1, <2>3
<1>3. CASE ~se.modified
  BY <1>1, <1>3 DEF EndDoIt
<1>4. QED
  BY <1>2, <1>3

LEMMA FramesInStepStep ==
  ASSUME RecordedWhole, OneSweepFiles, EditsAsPlotted
  PROVE  Shape /\ WholeInv /\ FilesRemain /\ OneSweepHeld /\ DoItInStep /\ FramesInStep
           /\ [Next]_vars => FramesInStep'
<1> SUFFICES ASSUME Shape, WholeInv, FilesRemain, OneSweepHeld, DoItInStep, FramesInStep,
                    [Next]_vars
             PROVE  FramesInStep'
  OBVIOUS
<1>0. ViewOK /\ NamesOK /\ FilesOK /\ dir = InitDir
  BY DEF WholeInv, FilesRemain
<1>1. CASE UNCHANGED <<sweep, span, name, cat>>
  BY <1>1 DEF FramesInStep, FrameInStep
<1>2. CASE Plots
  <2>1. PICK f \in Frames : \E command, rescan : Plot(f, command, rescan)
    BY <1>2 DEF Plots
  <2>2. PICK command, rescan : Plot(f, command, rescan)
    BY <2>1
  <2>3. QED
    BY <1>0, <2>2, PlotInStep
<1>3. ASSUME NEW f \in Frames, Click(f)
      PROVE  FramesInStep'
  BY <1>0, <1>3, ClickInStep
<1>4. ASSUME NEW f, UNCHANGED <<sweep, cat, name>>,
             span' = [span EXCEPT ![f] = [start |-> sweep[f].stamp, stop |-> sweep[f].stamp]]
      PROVE  FramesInStep'
  <2>1. PICK t : t = [start |-> sweep[f].stamp, stop |-> sweep[f].stamp]
    OBVIOUS
  <2>2. span' = [span EXCEPT ![f] = t] /\ span = [g \in Frames |-> span[g]]
    BY <1>4, <2>1 DEF FramesInStep
  <2>3. /\ span' = [g \in Frames |-> span'[g]]
        /\ \A g \in Frames : span'[g] = IF g = f THEN t ELSE span[g]
    BY <2>2
  <2>4. t.start = sweep[f].stamp /\ t.stop = sweep[f].stamp
    BY <2>1
  <2>5. QED
    BY <1>4, <2>3, <2>4 DEF FramesInStep, FrameInStep
<1>5. ASSUME NEW f \in Frames, ResetTimes(f)
      PROVE  FramesInStep'
  <2>1. /\ UNCHANGED <<sweep, cat, name>>
        /\ span' = [span EXCEPT ![f] = [start |-> sweep[f].stamp, stop |-> sweep[f].stamp]]
    BY <1>5 DEF ResetTimes
  <2>2. QED
    BY <1>4, <2>1
<1>6. CASE EndDoIt
  BY <1>4, <1>6, EndStays
<1>7. QED
  BY <1>1, <1>2, <1>3, <1>5, <1>6, FrameSteps

(* A Do It starts with a snapshot of the file its frame plots, and that    *)
(* file in its list.                                                       *)
LEMMA DoItBegins ==
  ASSUME RecordedWhole, OneSweepFiles, EditsAsPlotted, WholeInv, FilesRemain, FramesInStep,
         NEW f \in Frames, NEW command \in Commands, NEW auto, DoIt(f, command, auto)
  PROVE  /\ sweep[f].file \in Paths
         /\ undo' = Pushed(sweep[f].file) /\ se'.list = <<sweep[f].file>>
         /\ se'.pc = "loop" /\ se'.snapshot = TRUE /\ se'.modified = FALSE
<1>1. PICK todo : todo = SweepsToEdit(Listing(dir), span[f].start, span[f].stop)
  OBVIOUS
<1>2. /\ f \in EditFrames
      /\ undo' = IF name[f] = NoPath THEN undo ELSE Pushed(name[f])
      /\ se'.pc = IF command # "empty" /\ todo # << >> THEN "loop" ELSE "post"
      /\ se'.list = IF command # "empty" /\ todo # << >> THEN todo ELSE << >>
      /\ se'.modified = IF command # "empty" /\ todo # << >> THEN FALSE ELSE se.modified
      /\ se'.snapshot = (name[f] # NoPath)
  BY <1>1, DoItStarts
<1>3. PICK p : p = sweep[f].file
  OBVIOUS
<1>4. /\ OfRecord(p) /\ name[f] = p
      /\ span[f].start = p[1] /\ span[f].stop = p[1]
  BY <1>2, <1>3 DEF FramesInStep, FrameInStep, EditsAsPlotted
<1>5. p \in Paths /\ p # NoPath
  BY <1>4, RadarIOAssumption DEF OfRecord, Paths, Times, NoPath
<1>6. todo = <<p>>
  <2>1. PICK t : t = p[1]
    OBVIOUS
  <2>2. todo = SweepsToEdit(Listing(InitDir), t, t)
    BY <1>1, <1>4, <2>1 DEF FilesRemain
  <2>3. SweepsToEdit(Listing(InitDir), t, t) = <<p>>
    BY <1>4, <2>1, OneToEdit
  <2>4. QED
    BY <2>2, <2>3
<1>7. command # "empty" /\ todo # << >>
  BY <1>6 DEF EditsAsPlotted
<1>8. QED
  BY <1>2, <1>3, <1>4, <1>5, <1>6, <1>7

(* An iteration of the loop rewrites that file, once.                      *)
LEMMA DoItGoesOn ==
  ASSUME Shape, WriteInv, WholeInv, StackInv, DoItInStep, NEW ok \in WriteResults, EditRay(ok),
         NEW p, p = sweep[se.frame].file, NEW st, st = StNow
  PROVE  /\ st.path = p /\ SwpNow = 1 /\ se.wrote = {} /\ st.vol = disk[p] /\ p \in Paths
<1>0. InDoIt /\ se.pc = "loop" /\ HasRay(st) /\ (Opens => SwpNow <= Len(se.list))
  BY EditRayReads DEF DoItInStep
<1>1. se.list = <<p>> /\ Len(se.list) = 1 /\ se.swp_count \in {0, 1}
  BY <1>0 DEF InDoIt
<1>2. ~(Opens /\ se.swp_count = 1)
  BY <1>0, <1>1 DEF SwpNow
<1>3. se.wrote = {}
  BY <1>0, <1>2 DEF InDoIt
<1>4. st.path = p /\ SwpNow = 1
  <2>1. CASE Opens
    <3>1. SwpNow = 1 /\ FileNow = p
      BY <1>1, <1>2, <2>1 DEF SwpNow, FileNow
    <3>2. PICK now : now = io[SE_FRAME] /\ IsState(now)
      BY DEF Shape, Windows
    <3>3. st = HeaderRead(now, p, req[SE_FRAME], disk)
      BY <2>1, <3>1, <3>2 DEF StNow
    <3>4. st.vol # NoVolume
      BY <1>0 DEF HasRay
    <3>5. st.path = p
      BY <3>2, <3>3, <3>4, HeaderReadVolume
    <3>6. QED
      BY <3>1, <3>5
  <2>2. CASE ~Opens
    BY <1>0, <2>2 DEF InDoIt, StNow, SwpNow
  <2>3. QED
    BY <2>1, <2>2
<1>5. Sees(st) /\ st.path \in Paths
  BY EditorSees
<1>6. st.vol = disk[p]
  BY <1>0, <1>3, <1>4, <1>5 DEF Sees, HasRay
<1>7. QED
  BY <1>3, <1>4, <1>5, <1>6

(* So the invariant of the Do It under way holds through its loop.         *)
LEMMA LoopInStep ==
  ASSUME EditsAsPlotted, Shape, WriteInv, WholeInv, StackInv, DoItInStep,
         NEW ok \in WriteResults, EditRay(ok)
  PROVE  DoItInStep'
<1>1. PICK p, st, W, top : /\ p = sweep[se.frame].file /\ st = StNow
                           /\ W = WsNow.wvol /\ top = undo[Len(undo)]
  OBVIOUS
<1>2. /\ st.path = p /\ SwpNow = 1 /\ se.wrote = {} /\ st.vol = disk[p] /\ p \in Paths
  BY <1>1, DoItGoesOn
<1>3. /\ InDoIt /\ se.pc = "loop" /\ ~halt /\ halt' = halt /\ UNCHANGED <<sweep, undo>>
      /\ io' = [w \in Windows |-> IF w = SE_FRAME THEN RayRead(StNow) ELSE io[w]]
      /\ IsState(st)
  BY <1>1, EditRayReads DEF DoItInStep
<1>4. /\ wio' = IF EndsNow THEN SweepEnded(WsNow, ok) ELSE WsNow
      /\ se'.pc = IF PuntNow THEN "post" ELSE "loop"
      /\ se'.modified = (se.modified \/ Modifies(se.command))
      /\ se'.swp_count = SwpNow /\ se'.ray_num = RayNow /\ se'.num_rays = TotalNow
      /\ se'.frame = se.frame /\ se'.command = se.command
      /\ se'.snapshot = se.snapshot /\ se'.list = se.list
  BY EditRayWrites
<1>5. /\ se.snapshot = TRUE /\ undo # << >> /\ top.path = p /\ se.list = <<p>>
      /\ se.command \in {"edit", "survey"} /\ disk[p] = top.image
  BY <1>1, <1>2, <1>3 DEF InDoIt
<1>6. SE_FRAME \in Windows /\ io'[SE_FRAME].path = p
  <2>1. PICK c, t : c = st.cursor + 1 /\ t = [st EXCEPT !.cursor = c]
    OBVIOUS
  <2>2. t = RayRead(StNow) /\ t.path = st.path
    BY <1>1, <1>3, <2>1, CursorSet DEF RayRead
  <2>3. QED
    BY <1>2, <1>3, <2>2 DEF Windows
<1>7. RayNow \in Nat /\ TotalNow \in Nat /\ TotalNow = st.nrays
  BY <1>1, RayFound DEF WholeInv
<1>8. se'.wrote = {} => disk'[p] = top.image
  <2>1. disk' = disk \/ se'.wrote = se.wrote \cup {OutNow}
    BY WrittenNoted
  <2>2. QED
    BY <1>5, <2>1
<1>9. se'.wrote # {} => /\ se'.wrote = {p} /\ disk'[p] = AsPromised!Edited(top.image)
                        /\ RayNow >= TotalNow
  <2>1. SUFFICES ASSUME se'.wrote # {}
                 PROVE  /\ se'.wrote = {p} /\ disk'[p] = AsPromised!Edited(top.image)
                        /\ RayNow >= TotalNow
    OBVIOUS
  <2>2. /\ EndsNow /\ se'.wrote = {OutNow}
        /\ disk' = DiskAfterSweepEnd(WsNow, TRUE, disk)
    BY <1>2, <2>1, WrittenNoted
  <2>3. OutNow = p /\ W = AsPromised!Edited(top.image)
    <3>1. OutNow = st.path
      BY <1>1, <2>2, SameFile
    <3>2. W = AsPromised!Edited(st.vol)
      BY <1>1, <2>2, EditedFile
    <3>3. QED
      BY <1>2, <1>5, <3>1, <3>2
  <2>4. disk' = [disk EXCEPT ![p] = W]
    <3>1. W # NoVolume
      BY <1>1, <2>2, SweepWritten DEF WholeInv
    <3>2. QED
      BY <1>1, <2>2, <2>3, <3>1 DEF DiskAfterSweepEnd, OutNow
  <2>5. disk'[p] = W
    BY <1>2, <2>4 DEF WholeInv, FilesOK
  <2>6. QED
    BY <2>2, <2>3, <2>5 DEF EndsNow
<1>10. se'.modified => \/ wio'.last_path \in {NoPath, p}
                       \/ se'.pc = "loop" /\ ~(RayNow >= TotalNow)
  <2>1. CASE se.command = "survey"
    BY <1>3, <1>4, <2>1 DEF WriteInv, LooksOnly, Modifies
  <2>2. CASE se.command = "edit"
    <3>1. ~PuntNow /\ (EndsNow <=> RayNow >= TotalNow)
      BY <2>2 DEF PuntNow, Punts, EndsNow, DumpsNow, Modifies
    <3>2. CASE EndsNow
      <4>1. OutNow = p /\ W # NoVolume
        BY <1>1, <1>2, <3>2, SameFile, SweepWritten DEF WholeInv
      <4>2. wio' = SweepEnded(WsNow, ok)
        BY <1>4, <3>2
      <4>3. wio'.last_path = IF ok THEN p ELSE NoPath
        BY <1>1, <4>1, <4>2 DEF SweepEnded, OutNow
      <4>4. QED
        BY <4>3
    <3>3. CASE ~EndsNow
      BY <1>4, <3>1, <3>3
    <3>4. QED
      BY <3>2, <3>3
  <2>3. QED
    BY <1>5, <2>1, <2>2
<1>11. InDoIt'
  <2>1. PICK d : d = disk'
    OBVIOUS
  <2>2. /\ se'.wrote = {} => d[p] = top.image
        /\ se'.wrote # {} => /\ se'.wrote = {p} /\ d[p] = AsPromised!Edited(top.image)
                             /\ RayNow >= TotalNow
    BY <1>8, <1>9, <2>1
  <2>3. QED
    BY <1>1, <1>2, <1>3, <1>4, <1>5, <1>6, <1>10, <2>1, <2>2 DEF InDoIt, Opens
<1>12. QED
  BY <1>11 DEF DoItInStep

(* Nothing else happens while the loop runs.                               *)
LEMMA OnlyTheLoop ==
  ASSUME Shape, [Next]_vars, ~Idle
  PROVE  \/ UNCHANGED vars \/ ReplotReads \/ LoopEnds \/ EndDoIt
         \/ \E ok \in WriteResults : EditRay(ok)
<1>1. ~Gesture
  <2>1. ~Escape /\ \A f \in Frames : ~Click(f) /\ ~Undo(f)
    BY DEF Escape, Click, Undo
  <2>2. \A f \in Frames : ~ResetTimes(f) /\ ~FirstSweep(f) /\ ~LastSweep(f)
    BY DEF ResetTimes, FirstSweep, LastSweep
  <2>3. \A f \in Frames : /\ \A command \in PlotCommands : ~PlotFrames(f, command)
                         /\ \A k \in DOMAIN dir : ~SelectFile(f, k)
    BY DEF PlotFrames, SelectFile
  <2>4. \A f \in Frames, command \in Commands, auto \in BOOLEAN : ~DoIt(f, command, auto)
    BY DEF DoIt
  <2>5. QED
    BY <2>1, <2>2, <2>3, <2>4 DEF Gesture
<1>2. QED
  BY <1>1, RaysEnd, ReplotOnlyReads DEF Next, Processing

LEMMA DoItInStepStep ==
  ASSUME RecordedWhole, OneSweepFiles, EditsAsPlotted
  PROVE  Shape /\ WriteInv /\ WholeInv /\ StackInv /\ FilesRemain /\ FramesInStep
           /\ UndoBounded /\ DoItInStep /\ [Next]_vars => DoItInStep'
<1> SUFFICES ASSUME Shape, WriteInv, WholeInv, StackInv, FilesRemain, FramesInStep,
                    UndoBounded, DoItInStep, [Next]_vars
             PROVE  DoItInStep'
  OBVIOUS
<1>1. ASSUME se'.pc \notin {"loop", "post"}
      PROVE  DoItInStep'
  BY <1>1 DEF DoItInStep
<1>2. ASSUME NEW ok \in WriteResults, EditRay(ok)
      PROVE  DoItInStep'
  BY <1>2, LoopInStep
<1>3. CASE EndDoIt
  BY <1>1, <1>3, DoItEnds
<1>4. CASE ReplotReads
  BY <1>1, <1>4 DEF ReplotReads
<1>5. CASE LoopEnds
  <2>1. /\ se.pc = "loop" /\ (halt \/ Opens) /\ UNCHANGED <<disk, io, wio, undo, halt, sweep>>
        /\ se'.pc = "post" /\ se' = [se EXCEPT !.pc = "post"] /\ InDoIt
    BY <1>5 DEF LoopEnds, DoItInStep
  <2>2. /\ se'.frame = se.frame /\ se'.snapshot = se.snapshot /\ se'.list = se.list
        /\ se'.command = se.command /\ se'.swp_count = se.swp_count
        /\ se'.ray_num = se.ray_num /\ se'.num_rays = se.num_rays
        /\ se'.wrote = se.wrote /\ se'.modified = se.modified
    BY <2>1 DEF Shape, IsEditor
  <2>3. PICK d : d = disk'
    OBVIOUS
  <2>4. InDoIt'
    BY <2>1, <2>2, <2>3 DEF InDoIt, Opens
  <2>5. QED
    BY <2>4 DEF DoItInStep
<1>6. CASE ~Idle /\ UNCHANGED vars
  BY <1>6 DEF vars, DoItInStep, InDoIt, Opens
<1>7. CASE Idle
  <2>1. CASE Untouched \/ Looks
    BY <1>1, <1>7, <2>1 DEF Untouched, Looks, Idle
  <2>2. ASSUME NEW f \in Frames, NEW command \in Commands, NEW auto \in BOOLEAN,
               DoIt(f, command, auto)
        PROVE  DoItInStep'
    <3>1. PICK p, v, e : p = sweep[f].file /\ v = undo' /\ e = [path |-> p, image |-> disk[p]]
      OBVIOUS
    <3>2. /\ p \in Paths /\ v = Pushed(p) /\ se'.list = <<p>>
          /\ se'.pc = "loop" /\ se'.snapshot = TRUE /\ se'.modified = FALSE
      BY <2>2, <3>1, DoItBegins
    <3>3. /\ UNCHANGED <<disk, sweep>> /\ se'.frame = f /\ se'.command = command
          /\ se'.swp_count = 0 /\ se'.ray_num = 0 /\ se'.num_rays = 0 /\ se'.wrote = {}
      BY <2>2, DoItStarts
    <3>4. v # << >> /\ v[Len(v)] = e
      BY <3>1, <3>2, PushedTop DEF WholeInv, UndoBounded
    <3>5. v[Len(v)].path = p /\ v[Len(v)].image = disk[p]
      BY <3>1, <3>4
    <3>6. Opens' /\ command \in {"edit", "survey"}
      BY <3>3 DEF Opens, EditsAsPlotted
    <3>7. PICK d : d = disk'
      OBVIOUS
    <3>8. InDoIt'
      BY <3>1, <3>2, <3>3, <3>4, <3>5, <3>6, <3>7 DEF InDoIt
    <3>9. QED
      BY <3>8 DEF DoItInStep
  <2>3. ASSUME NEW f \in Frames, Undo(f)
        PROVE  DoItInStep'
    BY <1>1, <2>3, UndoDone
  <2>4. QED
    BY <1>2, <1>3, <1>4, <1>5, <2>1, <2>2, <2>3, Steps
<1>8. QED
  BY <1>2, <1>3, <1>4, <1>5, <1>6, <1>7, OnlyTheLoop

----------------------------------------------------------------------------
(* All of it is inductive, and it starts.                                  *)

(* The files, the windows, the frames, the stack and the Do It under way   *)
(* are in step with one another.                                           *)
InStep == FilesRemain /\ OneSweepHeld /\ FramesInStep /\ UndoBounded /\ DoItInStep

(* The first plot finds a file that was recorded, and every frame shows    *)
(* it.                                                                     *)
StartsAt(p, st) ==
  /\ OfRecord(p) /\ HeldOK(st) /\ st.vol = InitFiles[p] /\ st.path = p
  /\ \A w \in Windows : io[w].vol = st.vol \/ io[w].vol = NoVolume
  /\ \E t : t = [st EXCEPT !.cursor = st.nrays] /\ \A f \in Frames : io[Lead(f)] = t
  /\ sweep = [f \in Frames |-> [file |-> p, stamp |-> p[1], version |-> LATEST_VERSION,
                                changed |-> Lead(f) # f]]
  /\ span = [f \in Frames |-> [start |-> p[1], stop |-> p[1]]]
  /\ name = [f \in Frames |-> IF Lead(f) = f THEN p ELSE NoPath]
  /\ cat = [f \in Frames |-> IF Lead(f) = f THEN Listing(InitDir) ELSE << >>]
  /\ screen = [f \in Frames |-> SelectedRays(st)]
  /\ undo = << >> /\ se.pc = "idle"

LEMMA FirstPlot == ASSUME RecordedWhole PROVE Init => \E p, st : StartsAt(p, st)
<1> SUFFICES ASSUME Init PROVE \E p, st : StartsAt(p, st)
  OBVIOUS
<1> DEFINE found == Search(Listing(InitDir), 0, TIME_NEAREST, LatestVersion)
<1>1. PICK c : c = Listing(InitDir)
  OBVIOUS
<1>2. InitDir \in Seq(Paths) /\ InitDir # << >>
  BY SessionAssumption
<1>3. c \in Seq(Entry) /\ DOMAIN c = DOMAIN InitDir
  BY <1>1, <1>2, ListingOK
<1>4. PICK first : first = c[CHOOSE i \in DOMAIN c : i \in found]
  OBVIOUS
<1>5. OfRecord(first.file) /\ first.stamp = first.file[1]
  <2>1. DOMAIN c # {}
    BY <1>2, <1>3, LenProperties, EmptySeq
  <2>2. TIME_NEAREST = 0 /\ LatestVersion \in Int
    BY DEF TIME_NEAREST, LatestVersion
  <2>3. found \subseteq DOMAIN c /\ found # {}
    BY <1>1, <1>3, <2>1, <2>2, SearchFinds
  <2> HIDE DEF found
  <2>4. PICK i \in DOMAIN c : first = c[i]
    BY <1>4, <2>3
  <2>5. QED
    BY <1>1, <2>4, ListedOfRecord
<1>6. PICK p, s : p = first.file /\ s = first.stamp
  OBVIOUS
<1>7. PICK st : st = HeaderRead(ClosedState, p, 0, InitFiles)
  OBVIOUS
<1>8. PICK t : t = [st EXCEPT !.cursor = st.nrays]
  OBVIOUS
<1>9. /\ io = [w \in Windows |-> IF w \in {Lead(f) : f \in Frames} THEN t ELSE ClosedState]
      /\ name = [f \in Frames |-> IF Lead(f) = f THEN p ELSE NoPath]
      /\ cat = [f \in Frames |-> IF Lead(f) = f THEN c ELSE << >>]
      /\ sweep = [f \in Frames |-> [file |-> p, stamp |-> s, version |-> LATEST_VERSION,
                                    changed |-> Lead(f) # f]]
      /\ span = [f \in Frames |-> [start |-> s, stop |-> s]]
      /\ screen = [f \in Frames |-> SelectedRays(st)]
      /\ undo = << >> /\ se.pc = "idle"
  BY <1>1, <1>4, <1>6, <1>7, <1>8 DEF Init, EditorIdle
<1>10. OfRecord(p) /\ p \in Paths /\ s = p[1]
  BY <1>5, <1>6 DEF OfRecord
<1>11. HeldOK(st) /\ st.vol = InitFiles[p] /\ st.path = p
  <2>1. PICK closed : closed = ClosedState
    OBVIOUS
  <2>2. IsState(closed) /\ closed.vol = NoVolume
    BY <2>1 DEF IsState, ClosedState
  <2>3. HeldOK(closed)
    BY <2>2, NoVolumeHeld
  <2>4. Holds(p, InitFiles[p])
    BY <1>10, RecordedHeld
  <2>5. st = HeaderRead(closed, p, 0, InitFiles) /\ 0 \in Int
    BY <1>7, <2>1
  <2>6. HeldOK(st)
    BY <1>10, <2>3, <2>4, <2>5, HeaderHeld
  <2>7. st.vol = VolumeRead(closed, p, InitFiles) /\ (st.vol # NoVolume => st.path = p)
    BY <2>2, <2>5, HeaderReadVolume
  <2>8. QED
    BY <1>10, <2>2, <2>6, <2>7 DEF VolumeRead, OfRecord
<1>12. t.vol = st.vol
  <2>1. PICK n : n = st.nrays
    OBVIOUS
  <2>2. t = [st EXCEPT !.cursor = n] /\ IsState(st)
    BY <1>8, <1>11, <2>1 DEF HeldOK
  <2>3. QED
    BY <2>2, CursorSet
<1>13. \A w \in Windows : io[w].vol = st.vol \/ io[w].vol = NoVolume
  BY <1>9, <1>12 DEF ClosedState
<1>14. \A f \in Frames : io[Lead(f)] = t
  BY <1>9, LeadIsFrame DEF Windows
<1>15. StartsAt(p, st)
  BY <1>1, <1>8, <1>9, <1>10, <1>11, <1>13, <1>14 DEF StartsAt
<1>16. QED
  BY <1>15

LEMMA StartInStep ==
  ASSUME RecordedWhole, OneSweepFiles
  PROVE  Init => InStep
<1> SUFFICES ASSUME Init PROVE InStep
  OBVIOUS
<1>1. PICK p, st : StartsAt(p, st)
  BY FirstPlot
<1>2. OneSweepHeld
  BY <1>1 DEF StartsAt, OneSweepHeld, OneSweepFiles, OfRecord
<1>3. FramesInStep
  BY <1>1 DEF StartsAt, FramesInStep, FrameInStep
<1>4. UndoBounded
  BY <1>1, SessionAssumption DEF StartsAt, UndoBounded
<1>5. DoItInStep
  BY <1>1 DEF StartsAt, DoItInStep
<1>6. QED
  BY <1>2, <1>3, <1>4, <1>5, FilesRemainStart DEF InStep

LEMMA SessionInStep ==
  ASSUME RecordedWhole, OneSweepFiles, EditsAsPlotted
  PROVE  Spec => [](Shape /\ WriteInv /\ WholeInv /\ StackInv /\ InStep)
<1>1. FieldsKept
  BY DEF FieldsKept, EditsAsPlotted
<1>2. Shape /\ WriteInv /\ WholeInv /\ StackInv /\ InStep /\ [Next]_vars => InStep'
  <2> SUFFICES ASSUME Shape, WriteInv, WholeInv, StackInv, InStep, [Next]_vars
               PROVE  InStep'
    OBVIOUS
  <2>1. FilesRemain /\ OneSweepHeld /\ FramesInStep /\ UndoBounded /\ DoItInStep
    BY DEF InStep
  <2>2. FilesRemain' /\ OneSweepHeld'
    BY <2>1, FilesRemainStep, OneSweepHeldStep
  <2>3. FramesInStep'
    BY <2>1, FramesInStepStep
  <2>4. UndoBounded' /\ DoItInStep'
    BY <2>1, UndoBoundedStep, DoItInStepStep
  <2>5. QED
    BY <2>2, <2>3, <2>4 DEF InStep
<1>3. Init => InStep
  BY StartInStep
<1>4. Spec => []StackInv /\ [](Shape /\ WriteInv /\ WholeInv)
  BY <1>1, SessionStacks, SessionWhole, PTL
<1>5. QED
  BY <1>2, <1>3, <1>4, PTL DEF Spec

----------------------------------------------------------------------------
(* A Do It as one step.                                                    *)

(* The files and the stack as the user is to see them.                     *)
FilesSeen == IF Underway THEN [disk EXCEPT ![Last(undo).path] = Last(undo).image] ELSE disk
SavedSeen == IF Underway THEN Front(undo) ELSE undo

(* A step of AtomicEdits, or none, from files F and stack S to G and T.    *)
AsAtomic(F, S, G, T) ==
  \/ G = F /\ T = S
  \/ \E p \in Paths : /\ Len(S) < SE_UNDO_DEPTH /\ T = Append(S, [path |-> p, image |-> F[p]])
                      /\ G = F \/ G = [F EXCEPT ![p] = AsPromised!Edited(@)]
  \/ Len(S) = SE_UNDO_DEPTH /\ T = Tail(S) /\ G = F
  \/ S # << >> /\ G = [F EXCEPT ![S[Len(S)].path] = S[Len(S)].image]
               /\ T = SubSeq(S, 1, Len(S) - 1)

(* Between Do Its the user sees what there is.                             *)
LEMMA SeenBetween ==
  ASSUME se.pc \notin {"loop", "post"}
  PROVE  FilesSeen = disk /\ SavedSeen = undo
BY DEF FilesSeen, SavedSeen, Underway

(* While a Do It is under way its own snapshot covers what it has written. *)
LEMMA SeenUnderway ==
  ASSUME se.pc \in {"loop", "post"}, DoItInStep, FilesOK,
         NEW p, p = sweep[se.frame].file, NEW image, image = undo[Len(undo)].image
  PROVE  /\ FilesSeen = [q \in Paths |-> IF q = p THEN image ELSE disk[q]]
         /\ SavedSeen = SubSeq(undo, 1, Len(undo) - 1)
         /\ se.wrote = {} => FilesSeen = disk
<1>1. /\ InDoIt /\ se.snapshot = TRUE /\ undo[Len(undo)].path = p
      /\ se.wrote = {} => disk[p] = image
  BY DEF DoItInStep, InDoIt
<1>2. Underway
  BY <1>1 DEF Underway
<1>3. FilesSeen = [disk EXCEPT ![p] = image] /\ SavedSeen = SubSeq(undo, 1, Len(undo) - 1)
  BY <1>1, <1>2 DEF FilesSeen, SavedSeen, Last, Front
<1>4. disk = [q \in Paths |-> disk[q]]
  BY DEF FilesOK
<1>5. FilesSeen = [q \in Paths |-> IF q = p THEN image ELSE disk[q]]
  BY <1>3, <1>4
<1>6. QED
  BY <1>1, <1>3, <1>4, <1>5

(* The stack is what is below its last entry, and that entry.              *)
LEMMA TopOfStack ==
  ASSUME FilesOK, undo # << >>, NEW top, top = undo[Len(undo)]
  PROVE  /\ top = [path |-> top.path, image |-> top.image] /\ top.path \in Paths
         /\ undo = Append(SubSeq(undo, 1, Len(undo) - 1), top)
<1>1. PICK E : E = [path : Paths, image : Volumes] /\ undo \in Seq(E)
  BY DEF FilesOK
<1>2. PICK n \in Nat : n = Len(undo) /\ n >= 1 /\ n \in 1 .. n /\ n \in DOMAIN undo
  BY <1>1, LenProperties, EmptySeq
<1>3. top \in E
  BY <1>1, <1>2, ElementOfSeq
<1>4. undo = Append(SubSeq(undo, 1, n - 1), undo[n])
  <2>1. PICK s : s = SubSeq(undo, 1, n - 1)
    OBVIOUS
  <2>2. s \in Seq(E) /\ Len(s) = n - 1 /\ \A i \in 1 .. n - 1 : s[i] = undo[i]
    <3>1. \A i \in 1 .. n - 1 : undo[i] \in E
      <4>1. \A i \in 1 .. n - 1 : i \in 1 .. Len(undo)
        BY <1>2
      <4>2. QED
        BY <1>1, <4>1, ElementOfSeq
    <3>2. /\ s \in Seq(E) /\ Len(s) = IF 1 <= n - 1 THEN n - 1 - 1 + 1 ELSE 0
          /\ \A i \in 1 .. n - 1 - 1 + 1 : s[i] = undo[1 + i - 1]
      BY <1>2, <2>1, <3>1, SubSeqProperties
    <3>3. \A i \in 1 .. n - 1 : i \in 1 .. n - 1 - 1 + 1 /\ 1 + i - 1 = i
      BY <1>2
    <3>4. QED
      BY <1>2, <3>2, <3>3
  <2>3. PICK a : a = Append(s, undo[n])
    OBVIOUS
  <2>4. /\ a \in Seq(E) /\ Len(a) = n /\ a[n] = undo[n]
        /\ \A i \in 1 .. n - 1 : a[i] = undo[i]
    <3>1. undo[n] \in E
      BY <1>2, <1>3
    <3>2. /\ a \in Seq(E) /\ Len(a) = Len(s) + 1 /\ a[Len(s) + 1] = undo[n]
          /\ \A i \in 1 .. Len(s) : a[i] = s[i]
      BY <2>2, <2>3, <3>1, AppendProperties
    <3>3. QED
      BY <1>2, <2>2, <3>2
  <2>5. a = undo
    BY <1>1, <1>2, <2>4, SeqEqual
  <2>6. QED
    BY <2>1, <2>3, <2>5
<1>5. QED
  BY <1>1, <1>2, <1>3, <1>4

(* The end of a Do It is where the user sees it happen.                    *)
LEMMA DoItSeen ==
  ASSUME Shape, WholeInv, StackInv, UndoBounded, DoItInStep, EndDoIt,
         NEW F, F = FilesSeen, NEW S, S = SavedSeen
  PROVE  AsAtomic(F, S, disk', undo')
<1>1. PICK top, p : top = undo[Len(undo)] /\ p = sweep[se.frame].file
  OBVIOUS
<1>2. /\ se.pc = "post" /\ disk' = disk /\ InDoIt /\ se.snapshot = TRUE
      /\ undo' = IF se.snapshot /\ ~se.modified THEN SubSeq(undo, 1, Len(undo) - 1) ELSE undo
  BY DoItEnds DEF DoItInStep, InDoIt
<1>3. /\ undo # << >> /\ top.path = p
      /\ se.wrote # {} => disk[p] = AsPromised!Edited(top.image)
  BY <1>1, <1>2 DEF InDoIt
<1>4. FilesOK /\ WroteNow
  BY DEF WholeInv, StackInv
<1>5. PICK image : image = top.image
  OBVIOUS
<1>6. /\ F = [q \in Paths |-> IF q = p THEN image ELSE disk[q]]
      /\ S = SubSeq(undo, 1, Len(undo) - 1) /\ (se.wrote = {} => F = disk)
  BY <1>1, <1>2, <1>4, <1>5, SeenUnderway
<1>7. CASE ~se.modified
  <2>1. se.wrote = {} /\ undo' = S
    BY <1>2, <1>4, <1>6, <1>7 DEF WroteNow
  <2>2. QED
    BY <1>2, <1>6, <2>1 DEF AsAtomic
<1>8. CASE se.modified
  <2>1. undo' = undo
    BY <1>2, <1>8
  <2>2. top = [path |-> p, image |-> image] /\ p \in Paths /\ undo = Append(S, top)
    BY <1>1, <1>3, <1>4, <1>5, <1>6, TopOfStack
  <2>3. Len(S) < SE_UNDO_DEPTH
    BY <1>3, <1>4, <1>6, PoppedLength
  <2>4. F[p] = image
    BY <1>6, <2>2
  <2>5. CASE se.wrote = {}
    BY <1>2, <1>6, <2>1, <2>2, <2>3, <2>4, <2>5 DEF AsAtomic
  <2>6. CASE se.wrote # {}
    <3>1. PICK W : W = AsPromised!Edited(image)
      OBVIOUS
    <3>2. disk[p] = W /\ disk = [q \in Paths |-> disk[q]]
      BY <1>3, <1>4, <1>5, <2>6, <3>1 DEF FilesOK
    <3>3. disk = [F EXCEPT ![p] = W]
      BY <1>6, <2>2, <3>2
    <3>4. disk = [F EXCEPT ![p] = AsPromised!Edited(@)]
      BY <2>4, <3>1, <3>3
    <3>5. QED
      BY <1>2, <2>1, <2>2, <2>3, <2>4, <3>4 DEF AsAtomic
  <2>7. QED
    BY <2>5, <2>6
<1>9. QED
  BY <1>7, <1>8

(* Every step of a session is a step of AtomicEdits to the user, or none.  *)
LEMMA SessionStepsSeen ==
  ASSUME RecordedWhole, OneSweepFiles, EditsAsPlotted
  PROVE  Shape /\ WriteInv /\ WholeInv /\ StackInv /\ InStep /\ [Next]_vars
           => AsAtomic(FilesSeen, SavedSeen, FilesSeen', SavedSeen')
<1> SUFFICES ASSUME Shape, WriteInv, WholeInv, StackInv, InStep, [Next]_vars
             PROVE  AsAtomic(FilesSeen, SavedSeen, FilesSeen', SavedSeen')
  OBVIOUS
<1>0. FilesRemain /\ UndoBounded /\ DoItInStep /\ FramesInStep /\ FilesOK
  BY DEF InStep, WholeInv
<1>1. PICK F, S, G, T : F = FilesSeen /\ S = SavedSeen /\ G = FilesSeen' /\ T = SavedSeen'
  OBVIOUS
<1>2. SUFFICES AsAtomic(F, S, G, T)
  BY <1>1
<1>3. DoItInStep' /\ FilesOK'
  BY <1>0, DoItInStepStep, WholeStep DEF WholeInv
<1>4. ASSUME se'.pc \notin {"loop", "post"}
      PROVE  G = disk' /\ T = undo'
  BY <1>1, <1>4 DEF FilesSeen, SavedSeen, Underway
<1>5. ASSUME se.pc \notin {"loop", "post"}
      PROVE  F = disk /\ S = undo
  BY <1>1, <1>5, SeenBetween
<1>6. ASSUME se.pc \in {"loop", "post"},
             NEW p, p = sweep[se.frame].file, NEW image, image = undo[Len(undo)].image
      PROVE  /\ F = [q \in Paths |-> IF q = p THEN image ELSE disk[q]]
             /\ S = SubSeq(undo, 1, Len(undo) - 1) /\ (se.wrote = {} => F = disk)
  BY <1>0, <1>1, <1>6, SeenUnderway
<1>7. ASSUME se'.pc \in {"loop", "post"},
             NEW p, p = sweep'[se'.frame].file, NEW image, image = undo'[Len(undo')].image
      PROVE  /\ G = [q \in Paths |-> IF q = p THEN image ELSE disk'[q]]
             /\ T = SubSeq(undo', 1, Len(undo') - 1) /\ (se'.wrote = {} => G = disk')
  <2>1. /\ InDoIt' /\ se'.snapshot = TRUE /\ undo'[Len(undo')].path = p
        /\ se'.wrote = {} => disk'[p] = image
    BY <1>3, <1>7 DEF DoItInStep, InDoIt
  <2>2. Underway'
    BY <1>7, <2>1 DEF Underway
  <2>3. PICK d, u : d = disk' /\ u = undo'
    OBVIOUS
  <2>4. G = [d EXCEPT ![p] = image] /\ T = SubSeq(u, 1, Len(u) - 1)
    BY <1>1, <1>7, <2>1, <2>2, <2>3 DEF FilesSeen, SavedSeen, Last, Front
  <2>5. d = [q \in Paths |-> d[q]] /\ (se'.wrote = {} => d[p] = image)
    BY <1>3, <2>1, <2>3 DEF FilesOK
  <2>6. G = [q \in Paths |-> IF q = p THEN image ELSE d[q]]
    BY <2>4, <2>5
  <2>7. QED
    BY <2>3, <2>4, <2>5, <2>6
<1>8. CASE UNCHANGED <<disk, undo>> /\ se.pc \notin {"loop", "post"}
                                  /\ se'.pc \notin {"loop", "post"}
  BY <1>4, <1>5, <1>8 DEF AsAtomic
<1>9. CASE UNCHANGED vars
  BY <1>1, <1>9 DEF vars, FilesSeen, SavedSeen, Underway, AsAtomic
<1>10. CASE LoopEnds
  <2>1. PICK p, image : p = sweep[se.frame].file /\ image = undo[Len(undo)].image
    OBVIOUS
  <2>2. /\ se.pc = "loop" /\ se'.pc = "post" /\ UNCHANGED <<disk, undo, sweep>>
        /\ se'.frame = se.frame
    BY <1>10 DEF LoopEnds
  <2>3. F = [q \in Paths |-> IF q = p THEN image ELSE disk[q]] /\ S = SubSeq(undo, 1, Len(undo) - 1)
    BY <1>6, <2>1, <2>2
  <2>4. PICK d, u : d = disk' /\ u = undo'
    OBVIOUS
  <2>5. G = [q \in Paths |-> IF q = p THEN image ELSE d[q]] /\ T = SubSeq(u, 1, Len(u) - 1)
    <3>1. p = sweep'[se'.frame].file /\ image = undo'[Len(undo')].image
      BY <2>1, <2>2
    <3>2. QED
      BY <1>7, <2>2, <2>4, <3>1
  <2>6. QED
    BY <2>2, <2>3, <2>4, <2>5 DEF AsAtomic
<1>11. CASE EndDoIt
  <2>1. se'.pc \notin {"loop", "post"}
    BY <1>11, DoItEnds
  <2>2. PICK d, u : d = disk' /\ u = undo'
    OBVIOUS
  <2>3. AsAtomic(F, S, d, u)
    BY <1>0, <1>1, <1>11, <2>2, DoItSeen
  <2>4. QED
    BY <1>4, <2>1, <2>2, <2>3
<1>12. ASSUME NEW ok \in WriteResults, EditRay(ok)
       PROVE  AsAtomic(F, S, G, T)
  <2>1. PICK p, image, st : /\ p = sweep[se.frame].file /\ image = undo[Len(undo)].image
                            /\ st = StNow
    OBVIOUS
  <2>2. se.pc = "loop" /\ UNCHANGED <<undo, sweep>>
    BY <1>12, EditRayReads
  <2>3. se'.pc \in {"loop", "post"} /\ se'.frame = se.frame
    BY <1>12, EditRayWrites
  <2>4. F = [q \in Paths |-> IF q = p THEN image ELSE disk[q]] /\ S = SubSeq(undo, 1, Len(undo) - 1)
    BY <1>6, <2>1, <2>2
  <2>5. PICK d, u : d = disk' /\ u = undo'
    OBVIOUS
  <2>6. G = [q \in Paths |-> IF q = p THEN image ELSE d[q]] /\ T = SubSeq(u, 1, Len(u) - 1)
    <3>1. p = sweep'[se'.frame].file /\ image = undo'[Len(undo')].image
      BY <2>1, <2>2, <2>3
    <3>2. QED
      BY <1>7, <2>3, <2>5, <3>1
  <2>7. \A q \in Paths : q # p => d[q] = disk[q]
    <3>1. st.path = p
      BY <1>0, <1>12, <2>1, DoItGoesOn
    <3>2. EndsNow => OutNow = p
      <4>1. PICK W : W = WsNow.wvol
        OBVIOUS
      <4>2. EndsNow => OutNow = st.path
        BY <1>12, <2>1, <4>1, SameFile
      <4>3. QED
        BY <3>1, <4>2
    <3>3. d = disk \/ (EndsNow /\ d = [q \in Paths |-> IF q = OutNow THEN WsNow.wvol ELSE disk[q]])
      BY <1>12, <2>5, DiskWritten DEF WholeInv
    <3>4. QED
      BY <3>2, <3>3
  <2>8. G = F
    BY <2>4, <2>6, <2>7
  <2>9. QED
    BY <2>2, <2>4, <2>5, <2>6, <2>8 DEF AsAtomic
<1>13. ASSUME NEW f \in Frames, NEW command \in Commands, NEW auto \in BOOLEAN,
              DoIt(f, command, auto)
       PROVE  AsAtomic(F, S, G, T)
  <2>1. PICK p, v : p = sweep[f].file /\ v = undo'
    OBVIOUS
  <2>2. p \in Paths /\ v = Pushed(p) /\ se'.pc = "loop"
    BY <1>0, <1>13, <2>1, DoItBegins
  <2>3. Idle /\ UNCHANGED <<disk, sweep>> /\ se'.frame = f /\ se'.wrote = {}
    BY <1>13, DoItStarts
  <2>4. F = disk /\ S = undo
    BY <1>5, <2>3 DEF Idle
  <2>5. PICK image : image = undo'[Len(undo')].image
    OBVIOUS
  <2>6. G = disk /\ T = SubSeq(v, 1, Len(v) - 1)
    <3>1. p = sweep'[se'.frame].file
      BY <2>1, <2>3
    <3>2. T = SubSeq(undo', 1, Len(undo') - 1) /\ (se'.wrote = {} => G = disk')
      BY <1>7, <2>2, <2>5, <3>1
    <3>3. QED
      BY <2>1, <2>3, <3>2
  <2>7. SubSeq(v, 1, Len(v) - 1) = IF Len(undo) = SE_UNDO_DEPTH THEN Tail(undo) ELSE undo
    BY <1>0, <2>2, PushedTop DEF UndoBounded
  <2>8. QED
    BY <2>4, <2>6, <2>7 DEF AsAtomic
<1>14. ASSUME NEW f \in Frames, Undo(f)
       PROVE  AsAtomic(F, S, G, T)
  <2>1. /\ Idle /\ undo # << >> /\ se'.pc = "replot"
        /\ disk' = [disk EXCEPT ![undo[Len(undo)].path] = undo[Len(undo)].image]
        /\ undo' = SubSeq(undo, 1, Len(undo) - 1)
    BY <1>14, UndoDone
  <2>2. F = disk /\ S = undo /\ G = disk' /\ T = undo'
    BY <1>4, <1>5, <2>1 DEF Idle
  <2>3. QED
    BY <2>1, <2>2 DEF AsAtomic
<1>15. CASE Idle
  <2>1. CASE Untouched \/ Looks
    <3>1. UNCHANGED <<disk, undo>> /\ se' = se
      BY <2>1 DEF Untouched, Looks
    <3>2. QED
      BY <1>8, <1>15, <3>1 DEF Idle
  <2>2. CASE ReplotReads
    BY <1>15, <2>2 DEF ReplotReads, Idle
  <2>3. QED
    BY <1>10, <1>11, <1>12, <1>13, <1>14, <2>1, <2>2, Steps
<1>16. CASE ~Idle
  <2>1. CASE ReplotReads
    <3>1. se.pc = "replot" /\ se'.pc = "idle" /\ UNCHANGED <<disk, undo>>
      BY <2>1 DEF ReplotReads
    <3>2. QED
      BY <1>8, <3>1
  <2>2. QED
    BY <1>9, <1>10, <1>11, <1>12, <1>16, <2>1, OnlyTheLoop
<1>17. QED
  BY <1>15, <1>16

(* To its user a Do It over one sweep is a single step, from the file as   *)
(* the snapshot taken before it has it, and an Undo takes back all of the  *)
(* last one and nothing else (EDIT_DO_IT, dd_edd, se_undo_push,            *)
(* se_undo_pop_restore).                                                   *)
THEOREM DoItsAtomic ==
  ASSUME RecordedWhole, OneSweepFiles, EditsAsPlotted
  PROVE  Spec => DoItsAreAtomic
<1> DEFINE All == Shape /\ WriteInv /\ WholeInv /\ StackInv /\ InStep
           seen == <<FilesSeen, SavedSeen>>
<1>1. Init => AsPromised!Init
  <2> SUFFICES ASSUME Init PROVE AsPromised!Init
    OBVIOUS
  <2>1. se.pc \notin {"loop", "post"} /\ disk = InitFiles /\ undo = << >>
    BY DEF Init, EditorIdle
  <2>2. FilesSeen = InitFiles /\ SavedSeen = << >>
    BY <2>1, SeenBetween
  <2>3. QED
    BY <2>2 DEF AsPromised!Init, FilesSeen, SavedSeen
<1>2. All /\ [Next]_vars => [AsPromised!Next]_seen
  <2> SUFFICES ASSUME All, [Next]_vars, UNCHANGED seen => FALSE
               PROVE  AsPromised!Next
    OBVIOUS
  <2>1. AsAtomic(FilesSeen, SavedSeen, FilesSeen', SavedSeen')
    BY SessionStepsSeen
  <2>2. DOMAIN FilesSeen = Paths
    BY DEF FilesSeen, WholeInv, FilesOK
  <2>3. QED
    BY <2>1, <2>2 DEF AsAtomic, AsPromised!Next, AsPromised!Edit, AsPromised!FailedEdit,
       AsPromised!Forget, AsPromised!TakeBack, AsPromised!Remembered, FilesSeen, SavedSeen
<1>3. Spec => []All
  BY SessionInStep
<1>4. DoItsAreAtomic <=> AsPromised!Init /\ [][AsPromised!Next]_seen
  BY DEF DoItsAreAtomic, AsPromised!Spec, FilesSeen, SavedSeen
<1> HIDE DEF All, seen
<1>5. QED
  BY <1>1, <1>2, <1>3, <1>4, PTL DEF Spec

----------------------------------------------------------------------------
(* What is plotted is what is edited.                                      *)

(* Frames that share their sweep with the editing window's are led by one  *)
(* frame and plotted together.                                             *)
LEMMA OneLead ==
  ASSUME SweepShared, EditFrames # {}
  PROVE  \E m \in Frames : /\ \A g \in Frames : Lead(g) = m
                           /\ \A g \in Frames : Lock[g] = Frames
<1>1. PICK e \in EditFrames : Link[e] = Frames
  BY DEF SweepShared
<1>2. e \in Frames
  BY SessionAssumption
<1>3. \A g \in Frames : Link[g] = Frames
  BY <1>1, <1>2, SessionAssumption
<1>4. \A g \in Frames : Lead(g) = Lead(e)
  BY <1>1, <1>3 DEF Lead
<1>5. \A g \in Frames : Lock[g] = Frames
  <2> TAKE g \in Frames
  <2>1. Lock[g] \in SUBSET Frames /\ Link[g] \subseteq Lock[g]
    BY SessionAssumption
  <2>2. QED
    BY <1>3, <2>1
<1>6. Lead(e) \in Frames
  BY <1>2, LeadIsFrame
<1>7. QED
  BY <1>4, <1>5, <1>6

(* A plot that is drawn shows all of the file it says it plots.            *)
LEMMA DrawnFile ==
  ASSUME ViewOK, OneSweepEach, OneSweepHeld, FilesRemain, NEW f \in Frames,
         NEW nab, ReadsFile(f, nab), HeldOK(nab.io), OfRecord(nab.sweep.file)
  PROVE  /\ SelectedRays(nab.io) # NoVolume
         /\ PathOf(SelectedRays(nab.io)) = nab.sweep.file
<1>1. PICK p, t, now : p = nab.sweep.file /\ t = nab.io /\ now = io[f]
  OBVIOUS
<1>2. PICK r : t = RayRead(HeaderRead(now, p, r, disk))
  BY <1>1 DEF ReadsFile
<1>3. PICK h : h = HeaderRead(now, p, r, disk)
  OBVIOUS
<1>4. p \in Paths /\ disk[p] # NoVolume /\ IsState(now) /\ f \in Windows
  BY <1>1 DEF OfRecord, FilesRemain, ViewOK, HeldOK, Windows
<1>5. IsState(h) /\ h.vol = VolumeRead(now, p, disk)
  BY <1>3, <1>4, HeaderReadVolume
<1>6. h.vol # NoVolume /\ NSweeps(h.vol) = 1
  <2>1. CASE now.vol # NoVolume /\ now.path = p
    BY <1>1, <1>4, <1>5, <2>1 DEF VolumeRead, OneSweepHeld
  <2>2. CASE ~(now.vol # NoVolume /\ now.path = p)
    BY <1>4, <1>5, <2>2 DEF VolumeRead, OneSweepEach
  <2>3. QED
    BY <2>1, <2>2
<1>7. h.path = p
  BY <1>3, <1>4, <1>6, HeaderReadVolume
<1>8. t.vol = h.vol /\ t.path = h.path
  <2>1. PICK c : t = [h EXCEPT !.cursor = c]
    BY <1>2, <1>3 DEF RayRead
  <2>2. QED
    BY <1>5, <2>1, CursorSet
<1>9. HeldOK(t) /\ t.vol # NoVolume /\ NSweeps(t.vol) = 1 /\ t.path = p
  BY <1>1, <1>6, <1>7, <1>8
<1>10. SelectedRays(t) = t.vol
  BY <1>9, WholeVolumeSelected
<1>11. Holds(p, t.vol)
  BY <1>9 DEF HeldOK
<1>12. PathOf(t.vol) = p
  BY <1>4, <1>9, <1>11, VolumeNamed
<1>13. QED
  BY <1>1, <1>9, <1>10, <1>12

(* So whatever is plotted, all frames name the sweep they show.            *)
LEMMA PlotTogether ==
  ASSUME RecordedWhole, OneSweepFiles, SweepShared, EditFrames # {}, WholeInv, OneSweepEach,
         OneSweepHeld, FilesRemain, FramesInStep, ShownTogether,
         NEW f \in Frames, NEW command, NEW rescan, Plot(f, command, rescan)
  PROVE  ShownTogether'
<1>0. ViewOK /\ NamesOK /\ FilesOK /\ dir = InitDir
  BY DEF WholeInv, FilesRemain
<1>1. CASE halt
  BY <1>1 DEF Plot, frameVars, ShownTogether
<1>2. CASE ~halt
  <2> DEFINE replot  == command \in {REPLOT_LOCK_STEP, REPLOT_THIS_FRAME}
             action  == CASE replot -> TIME_NEAREST
                          [] command = FORWARD_ONCE -> TIME_AFTER
                          [] command = BACKWARDS_ONCE -> TIME_BEFORE
             version == IF replot THEN sweep[f].version ELSE LATEST_VERSION
             info    == [sweep EXCEPT ![f].version = version]
             plotted == IF command = REPLOT_THIS_FRAME THEN {f} ELSE Lock[f]
             leads   == {Lead(g) : g \in plotted}
             Nab(l)  == NabNextFile(l, info[l], action, version, replot, l \in rescan)
             nab     == [l \in leads |-> Nab(l)]
             drawn   == \A l \in leads : nab[l].ok
  <2>1. /\ sweep' = [g \in Frames |->
                       IF g \in leads THEN nab[g].sweep
                       ELSE IF g \in plotted
                            THEN [nab[Lead(g)].sweep EXCEPT !.changed = TRUE]
                            ELSE info[g]]
        /\ screen' = [g \in Frames |->
                        IF g \in plotted /\ drawn
                        THEN SelectedRays(nab[Lead(g)].io) ELSE screen[g]]
    BY <1>2 DEF Plot
  <2>2. PICK m \in Frames : /\ \A g \in Frames : Lead(g) = m
                            /\ \A g \in Frames : Lock[g] = Frames
    BY OneLead
  <2>3. plotted \subseteq Frames /\ leads = {m}
    <3>1. plotted = {f} \/ plotted = Frames
      BY <2>2
    <3>2. QED
      BY <2>2, <3>1
  <2>4. /\ command = REPLOT_THIS_FRAME => action = TIME_NEAREST
        /\ command # REPLOT_THIS_FRAME => plotted = Frames
    <3>1. ASSUME command = REPLOT_THIS_FRAME
          PROVE  action = TIME_NEAREST
      <4>1. replot /\ ~(command = FORWARD_ONCE) /\ ~(command = BACKWARDS_ONCE)
        BY <3>1 DEF REPLOT_THIS_FRAME, FORWARD_ONCE, BACKWARDS_ONCE
      <4> HIDE DEF replot
      <4>2. QED
        BY <4>1, Zenon
    <3> HIDE DEF action
    <3>2. QED
      BY <2>2, <3>1
  <2>5. version \in Int
    BY <1>0 DEF ViewOK, SweepInfo, LATEST_VERSION
  <2>6. ASSUME NEW g \in Frames
        PROVE  info[g] \in SweepInfo /\ info[g].file = sweep[g].file
               /\ info[g].stamp = sweep[g].stamp
    <3>1. PICK v : v = version
      OBVIOUS
    <3>2. info[g] = IF g = f THEN [sweep[g] EXCEPT !.version = v] ELSE sweep[g]
      <4> HIDE DEF version
      <4>1. QED
        BY <1>0, <3>1 DEF ViewOK
    <3>3. sweep[g] \in SweepInfo /\ v \in Int
      BY <1>0, <2>5, <3>1 DEF ViewOK
    <3>4. PICK s : s = [sweep[g] EXCEPT !.version = v]
      OBVIOUS
    <3>5. s \in SweepInfo /\ s.file = sweep[g].file /\ s.stamp = sweep[g].stamp
      BY <3>3, <3>4 DEF SweepInfo
    <3> HIDE DEF info
    <3>6. QED
      BY <3>2, <3>3, <3>4, <3>5
  <2> HIDE DEF info, version, action
  <2>7. PICK n : n = nab[m]
    OBVIOUS
  <2>8. /\ n.sweep \in SweepInfo /\ HeldOK(n.io) /\ OfRecord(n.sweep.file)
        /\ action = TIME_NEAREST => n.sweep.file = sweep[m].file
        /\ \/ n.ok = TRUE /\ ReadsFile(m, n)
           \/ n.ok = FALSE /\ n.sweep.file = sweep[m].file
    <3>1. PICK s0, b : s0 = info[m] /\ b = (m \in rescan)
      OBVIOUS
    <3>2. /\ s0 \in SweepInfo /\ s0.file = sweep[m].file /\ s0.stamp = sweep[m].stamp
          /\ Lead(m) = m
      BY <2>2, <2>6, <3>1
    <3>3. n = NabNextFile(m, s0, action, version, replot, b)
      <4> HIDE DEF replot
      <4>1. m \in leads
        BY <2>3
      <4> HIDE DEF leads
      <4>2. QED
        BY <2>7, <3>1, <4>1
    <3> HIDE DEF replot, nab, leads, plotted
    <3>4. FrameInStep(m)
      BY DEF FramesInStep
    <3>5. NabbedInStep(m, s0, action, n)
      BY <1>0, <2>5, <3>2, <3>3, <3>4, NabInStep
    <3>6. n.sweep \in SweepInfo /\ HeldOK(n.io)
      BY <1>0, <2>5, <3>2, <3>3, NabOK
    <3>7. QED
      BY <3>2, <3>5, <3>6 DEF NabbedInStep
  <2>9. drawn <=> n.ok
    <3> HIDE DEF nab, leads
    <3>1. QED
      BY <2>3, <2>7
  <2> HIDE DEF nab, replot, leads, plotted, drawn
  <2>10. \A g \in Frames : sweep[g].file = sweep[m].file
    BY DEF ShownTogether
  <2>11. PICK sw, sc : sw = sweep' /\ sc = screen'
    OBVIOUS
  <2>12. ASSUME NEW g \in Frames
         PROVE  sw[g].file = n.sweep.file
    <3>1. CASE g \in leads
      BY <2>1, <2>3, <2>7, <2>11, <3>1
    <3>2. CASE g \notin leads /\ g \in plotted
      <4>1. sw[g] = [n.sweep EXCEPT !.changed = TRUE]
        BY <2>1, <2>2, <2>7, <2>11, <3>2
      <4>2. QED
        BY <2>8, <4>1 DEF SweepInfo
    <3>3. CASE g \notin leads /\ g \notin plotted
      <4>1. sw[g] = info[g] /\ n.sweep.file = sweep[m].file
        BY <2>1, <2>4, <2>8, <2>11, <3>3
      <4>2. QED
        BY <2>6, <2>10, <4>1
    <3>4. QED
      BY <3>1, <3>2, <3>3
  <2>13. ASSUME NEW g \in Frames
         PROVE  sc[g] # NoVolume /\ PathOf(sc[g]) = n.sweep.file
    <3>1. CASE g \in plotted /\ drawn
      <4>1. sc[g] = SelectedRays(n.io) /\ ReadsFile(m, n)
        BY <2>1, <2>2, <2>7, <2>8, <2>9, <2>11, <3>1
      <4>2. QED
        BY <1>0, <2>8, <4>1, DrawnFile
    <3>2. CASE ~(g \in plotted /\ drawn)
      <4>1. sc[g] = screen[g]
        BY <2>1, <2>11, <3>2
      <4>2. n.sweep.file = sweep[m].file
        BY <2>4, <2>8, <2>9, <3>2
      <4>3. QED
        BY <2>10, <4>1, <4>2 DEF ShownTogether
    <3>3. QED
      BY <3>1, <3>2
  <2>14. QED
    BY <2>11, <2>12, <2>13 DEF ShownTogether
<1>3. QED
  BY <1>1, <1>2

LEMMA ShownTogetherStep ==
  ASSUME RecordedWhole, OneSweepFiles, SweepShared, EditsAsPlotted, EditFrames # {}
  PROVE  Shape /\ WholeInv /\ StackInv /\ InStep /\ ShownTogether /\ [Next]_vars
           => ShownTogether'
<1> SUFFICES ASSUME Shape, WholeInv, StackInv, InStep, ShownTogether, [Next]_vars
             PROVE  ShownTogether'
  OBVIOUS
<1>0. /\ FilesRemain /\ OneSweepHeld /\ FramesInStep /\ DoItInStep /\ OneSweepEach
      /\ ViewOK /\ NamesOK /\ FilesOK /\ dir = InitDir
  BY DEF InStep, StackInv, WholeInv, FilesRemain
<1>1. ASSUME UNCHANGED <<sweep, screen>>
      PROVE  ShownTogether'
  BY <1>1 DEF ShownTogether
<1>2. CASE Plots
  <2>1. PICK f \in Frames : \E command, rescan : Plot(f, command, rescan)
    BY <1>2 DEF Plots
  <2>2. PICK command, rescan : Plot(f, command, rescan)
    BY <2>1
  <2>3. QED
    BY <1>0, <2>2, PlotTogether
<1>3. ASSUME NEW f \in Frames, Click(f)
      PROVE  ShownTogether'
  <2>1. PICK l \in Frames : l = Lead(f) /\ Lead(l) = l
    BY LeadsLed
  <2>2. PICK nab : nab = NabNextFile(l, sweep[l], TIME_NEAREST, LATEST_VERSION, TRUE, FALSE)
    OBVIOUS
  <2>3. screen' = screen
    BY <1>3 DEF Click
  <2>4. CASE file_modified[l]
    <3>1. sweep' = [sweep EXCEPT ![l] = nab.sweep]
      BY <1>3, <2>1, <2>2, <2>4 DEF Click
    <3>2. FrameInStep(l) /\ sweep[l] \in SweepInfo /\ LATEST_VERSION \in Int
      BY <1>0 DEF FramesInStep, ViewOK, LATEST_VERSION
    <3>3. nab.sweep.file = sweep[l].file
      <4>1. NabbedInStep(l, sweep[l], TIME_NEAREST, nab)
        BY <1>0, <2>1, <2>2, <3>2, NabInStep
      <4>2. QED
        BY <4>1 DEF NabbedInStep
    <3>4. PICK sw : sw = sweep'
      OBVIOUS
    <3>5. \A g \in Frames : sw[g].file = sweep[g].file
      BY <1>0, <3>1, <3>3, <3>4 DEF ViewOK
    <3>6. QED
      BY <2>3, <3>4, <3>5 DEF ShownTogether
  <2>5. CASE ~file_modified[l]
    BY <1>1, <1>3, <2>1, <2>3, <2>5 DEF Click
  <2>6. QED
    BY <2>4, <2>5
<1>4. ASSUME NEW f \in Frames, ResetTimes(f)
      PROVE  ShownTogether'
  BY <1>1, <1>4 DEF ResetTimes
<1>5. CASE EndDoIt
  BY <1>0, <1>1, <1>5, EndStays
<1>6. QED
  BY <1>1, <1>2, <1>3, <1>4, <1>5, FrameSteps

LEMMA ShownTogetherStart ==
  ASSUME RecordedWhole, OneSweepFiles
  PROVE  Init => ShownTogether
<1> SUFFICES ASSUME Init PROVE ShownTogether
  OBVIOUS
<1>1. PICK p, st : StartsAt(p, st)
  BY FirstPlot
<1>2. OfRecord(p) /\ HeldOK(st) /\ st.vol = InitFiles[p]
  BY <1>1 DEF StartsAt
<1>3. st.vol # NoVolume /\ NSweeps(st.vol) = 1 /\ p \in Paths
  BY <1>2 DEF OfRecord, OneSweepFiles
<1>4. SelectedRays(st) = st.vol
  BY <1>2, <1>3, WholeVolumeSelected
<1>5. PathOf(st.vol) = p
  <2>1. Holds(p, st.vol)
    BY <1>2, <1>3, RecordedHeld
  <2>2. QED
    BY <1>3, <2>1, VolumeNamed
<1>6. /\ sweep = [f \in Frames |-> [file |-> p, stamp |-> p[1], version |-> LATEST_VERSION,
                                    changed |-> Lead(f) # f]]
      /\ screen = [f \in Frames |-> st.vol]
  BY <1>1, <1>4 DEF StartsAt
<1>7. QED
  BY <1>3, <1>5, <1>6 DEF ShownTogether

(* "The editor will operate on the sweep plotted in this frame"            *)
(* (se_set_sfic_from_frame): what a Do It writes are the times of the      *)
(* sweep its frame shows.                                                  *)
THEOREM EditsWhatIsPlotted ==
  ASSUME RecordedWhole, OneSweepFiles, EditsAsPlotted, SweepShared
  PROVE  Spec => []EditsPlottedSweep
<1> DEFINE All      == Shape /\ WriteInv /\ WholeInv /\ StackInv /\ InStep
           Together == EditFrames # {} => ShownTogether
<1>1. Init => Together
  BY ShownTogetherStart
<1>2. All /\ Together /\ [Next]_vars => Together'
  BY ShownTogetherStep
<1>3. All /\ Together => EditsPlottedSweep
  <2> SUFFICES ASSUME All, Together, se.pc = "post", NEW p \in se.wrote
               PROVE  p = PathOf(screen[se.frame])
    BY DEF EditsPlottedSweep
  <2>1. se.frame \in EditFrames /\ se.frame \in Frames
    BY SessionAssumption DEF Shape, Idle
  <2>2. InDoIt
    BY DEF InStep, DoItInStep
  <2>3. p = sweep[se.frame].file
    BY <2>2 DEF InDoIt
  <2>4. QED
    BY <2>1, <2>3 DEF ShownTogether
<1>4. Spec => []All
  BY SessionInStep
<1> HIDE DEF All, Together
<1>5. QED
  BY <1>1, <1>2, <1>3, <1>4, PTL DEF Spec

----------------------------------------------------------------------------
(* A frame shown after a Do It is of the last file it wrote.               *)

(* The exhaustive list leaves no entry out.                                *)
LEMMA EntireCovers ==
  ASSUME NEW c \in Seq(Entry), NEW i \in DOMAIN c
  PROVE  \E k \in DOMAIN c : EntireList(c)[k] = i
<1>1. PICK n \in Nat : DOMAIN c = 1 .. n
  BY LenProperties
<1>2. IsFiniteSet(DOMAIN c)
  BY <1>1, FS_Interval
<1>3. PICK f : f = [k \in DOMAIN c |-> EntireList(c)[k]]
  OBVIOUS
<1>4. f \in [DOMAIN c -> DOMAIN c]
  BY <1>3, EntireListed
<1>5. ASSUME NEW k \in DOMAIN c, NEW l \in DOMAIN c, f[k] = f[l]
      PROVE  k = l
  <2>1. PICK x : x = f[k]
    OBVIOUS
  <2>2. x = EntireList(c)[k] /\ x = EntireList(c)[l]
    BY <1>3, <1>5, <2>1
  <2>3. PICK r : r = Cardinality({j \in DOMAIN c : Precedes(c, j, x)})
    OBVIOUS
  <2>4. r = k - 1
    BY <2>2, <2>3, EntireListed
  <2>5. r = l - 1
    BY <2>2, <2>3, EntireListed
  <2>6. k \in Int /\ l \in Int
    BY <1>1
  <2>7. QED
    BY <2>4, <2>5, <2>6
<1>6. \A t \in DOMAIN c : \E k \in DOMAIN c : f[k] = t
  <2>1. PICK S, T : S = DOMAIN c /\ T = DOMAIN c
    OBVIOUS
  <2>2. f \in [S -> T] /\ IsFiniteSet(T) /\ Cardinality(S) = Cardinality(T)
    BY <1>2, <1>4, <2>1
  <2>3. \A k, l \in S : f[k] = f[l] => k = l
    BY <1>5, <2>1
  <2>4. \A t \in T : \E k \in S : f[k] = t
    BY <2>2, <2>3, EveryValueTaken
  <2>5. QED
    BY <2>1, <2>4
<1>7. QED
  BY <1>3, <1>6

(* Where no two entries are of one time, the sweep list is as long as the  *)
(* exhaustive one, and the search for the written file misses none.        *)
LEMMA AllLookedAt ==
  ASSUME NEW c \in Seq(Entry), \A i, j \in DOMAIN c : c[i].stamp = c[j].stamp => i = j
  PROVE  DOMAIN c \subseteq LookedAt(c)
<1> DEFINE firsts == {i \in DOMAIN c : \A j \in 1 .. i - 1 : c[j].stamp # c[i].stamp}
<1>1. PICK n \in Nat : DOMAIN c = 1 .. n
  BY LenProperties
<1>2. firsts = DOMAIN c
  <2>1. ASSUME NEW i \in DOMAIN c, NEW j \in 1 .. i - 1
        PROVE  c[j].stamp # c[i].stamp
    <3>1. j \in DOMAIN c /\ j # i
      BY <1>1
    <3>2. QED
      BY <3>1
  <2>2. QED
    BY <2>1
<1> HIDE DEF firsts
<1>3. Cardinality(firsts) = n
  BY <1>1, <1>2, FS_Interval
<1>4. SweepList(c) = [k \in 1 .. n |->
                        CHOOSE x \in firsts :
                          Cardinality({y \in firsts : c[y].stamp < c[x].stamp}) = k - 1]
  BY <1>3 DEF SweepList, Ordered, firsts
<1>5. Len(SweepList(c)) = n
  <2>1. PICK l : l = SweepList(c)
    OBVIOUS
  <2>2. l = [k \in 1 .. n |-> l[k]]
    BY <1>4, <2>1
  <2>3. Len(l) = n
    BY <2>2
  <2>4. QED
    BY <2>1, <2>3
<1>6. ASSUME NEW i \in DOMAIN c
      PROVE  i \in LookedAt(c)
  <2>1. PICK k \in DOMAIN c : EntireList(c)[k] = i
    BY EntireCovers
  <2>2. k \in 1 .. Len(SweepList(c))
    BY <1>1, <1>5
  <2>3. QED
    BY <2>1, <2>2 DEF LookedAt
<1>7. QED
  BY <1>6

(* So every file that was recorded is found.                               *)
LEMMA RecordFound ==
  ASSUME RecordedWhole, OneSweepFiles, NEW p, OfRecord(p), NEW c, c = Listing(InitDir)
  PROVE  \E i \in LookedAt(c) : c[i].file = p
<1>1. /\ c \in Seq(Entry) /\ DOMAIN c = DOMAIN InitDir
      /\ \A i \in DOMAIN c : c[i].file = InitDir[i] /\ c[i].stamp = InitDir[i][1]
  BY SessionAssumption, ListingOK
<1>2. \A i \in DOMAIN c : OfRecord(c[i].file) /\ c[i].stamp = c[i].file[1]
  BY ListedOfRecord
<1>3. ASSUME NEW i \in DOMAIN c, NEW j \in DOMAIN c, c[i].stamp = c[j].stamp
      PROVE  i = j
  <2>1. PICK a, b : a = c[i].file /\ b = c[j].file
    OBVIOUS
  <2>2. OfRecord(a) /\ OfRecord(b) /\ a[1] = b[1]
    BY <1>2, <1>3, <2>1
  <2>3. a = b
    BY <2>2, StampNamesFile
  <2>4. InitDir[i] = InitDir[j] /\ i \in DOMAIN InitDir /\ j \in DOMAIN InitDir
    BY <1>1, <2>1, <2>3
  <2>5. QED
    BY <2>4, DirectoryAssumption
<1>4. PICK i \in DOMAIN InitDir : InitDir[i] = p
  BY SessionAssumption DEF OfRecord
<1>5. i \in DOMAIN c /\ c[i].file = p
  BY <1>1, <1>4
<1>6. i \in LookedAt(c)
  BY <1>1, <1>3, <1>5, AllLookedAt
<1>7. QED
  BY <1>5, <1>6

(* A Do It over one sweep writes at most once, and the name it leaves in   *)
(* the write state is that of the file it wrote.                           *)
WroteLast ==
  /\ se.swp_count \in Nat
  /\ se.pc \in {"loop", "post"} /\ Len(se.list) = 1 =>
       /\ se.pc = "loop" => Opens \/ se.swp_count >= 1
       /\ se.wrote # {} =>
            /\ wio.last_path \in se.wrote
            /\ se.pc = "loop" => Opens /\ se.swp_count >= 1

LEMMA WroteLastStep ==
  Shape /\ WriteInv /\ WholeInv /\ WroteLast /\ [Next]_vars => WroteLast'
<1> SUFFICES ASSUME Shape, WriteInv, WholeInv, WroteLast, [Next]_vars PROVE WroteLast'
  OBVIOUS
<1>1. CASE Untouched \/ Looks
  BY <1>1 DEF Untouched, Looks, WroteLast, Opens
<1>2. CASE ReplotReads
  BY <1>2 DEF ReplotReads, WroteLast, Shape, IsEditor
<1>3. CASE LoopEnds
  <2>1. UNCHANGED <<wio, se.swp_count, se.list, se.wrote>> /\ se'.pc = "post" /\ se.pc = "loop"
    BY <1>3 DEF LoopEnds, Shape, IsEditor
  <2>2. QED
    BY <2>1 DEF WroteLast
<1>4. CASE EndDoIt
  <2>1. se'.pc \in {"replot", "idle"}
    BY <1>4, DoItEnds
  <2>2. se'.swp_count = 0
    BY <1>4 DEF EndDoIt, EditorIdle
  <2>3. QED
    BY <2>1, <2>2 DEF WroteLast
<1>5. ASSUME NEW ok \in WriteResults, EditRay(ok)
      PROVE  WroteLast'
  <2>1. /\ se.pc = "loop" /\ (Opens => SwpNow <= Len(se.list))
    BY <1>5, EditRayReads
  <2>2. /\ wio' = IF EndsNow THEN SweepEnded(WsNow, ok) ELSE WsNow
        /\ se'.swp_count = SwpNow /\ se'.ray_num = RayNow /\ se'.num_rays = TotalNow
        /\ se'.wrote = IF EndsNow /\ ok THEN se.wrote \cup {OutNow} ELSE se.wrote
        /\ se'.list = se.list
    <3>1. EditRay(ok)
      BY <1>5
    <3>2. wio' = IF EndsNow THEN SweepEnded(WsNow, ok) ELSE WsNow
      BY <3>1, EditRayWrites, Zenon
    <3>3. se'.swp_count = SwpNow /\ se'.ray_num = RayNow /\ se'.num_rays = TotalNow
      BY <3>1, EditRayWrites, Zenon
    <3>4. se'.wrote = IF EndsNow /\ ok THEN se.wrote \cup {OutNow} ELSE se.wrote
      <4>1. CASE ok = TRUE
        <5>1. EditRay(TRUE)
          BY <3>1, <4>1
        <5>2. se'.wrote = IF EndsNow /\ TRUE THEN se.wrote \cup {OutNow} ELSE se.wrote
          BY <5>1, EditRayWrites, Zenon
        <5>3. QED
          BY <4>1, <5>2
      <4>2. CASE ok = FALSE
        <5>1. EditRay(FALSE)
          BY <3>1, <4>2
        <5>2. se'.wrote = IF EndsNow /\ FALSE THEN se.wrote \cup {OutNow} ELSE se.wrote
          BY <5>1, EditRayWrites, Zenon
        <5>3. QED
          BY <4>2, <5>2
      <4>3. QED
        BY <4>1, <4>2, SessionAssumption
    <3>5. se'.list = se.list
      BY <3>1, EditRayWrites, Zenon
    <3>6. QED
      BY <3>2, <3>3, <3>4, <3>5
  <2>3. SwpNow \in Nat /\ (Opens => SwpNow = se.swp_count + 1) /\ (~Opens => SwpNow = se.swp_count)
    BY DEF WroteLast, SwpNow
  <2>4. ASSUME Len(se.list) = 1
        PROVE  /\ SwpNow >= 1 /\ se.wrote = {}
    BY <2>1, <2>3, <2>4 DEF WroteLast
  <2>5. ASSUME EndsNow, ok
        PROVE  wio'.last_path = OutNow /\ Opens'
    <3>1. PICK w, x, v : w = WsNow /\ v = wio.wvol /\ x = [NextRay(StNow) EXCEPT !.gen = @ + 1]
      OBVIOUS
    <3>2. w = [wio EXCEPT !.wvol = Append(v, x)]
      BY <2>5, <3>1 DEF EndsNow, WsNow, RayWritten
    <3>3. w.wvol = Append(v, x)
      BY <3>2 DEF Shape
    <3>4. w.wvol # NoVolume
      BY <3>3 DEF NoVolume
    <3>5. wio' = [wvol |-> NoVolume, last_path |-> PathOf(w.wvol)]
      BY <2>2, <2>5, <3>1, <3>4 DEF SweepEnded
    <3>6. RayNow >= TotalNow
      BY <2>5 DEF EndsNow
    <3>7. QED
      BY <2>2, <3>1, <3>5, <3>6 DEF OutNow, Opens
  <2>6. ASSUME Len(se.list) = 1, se'.wrote # {}
        PROVE  wio'.last_path \in se'.wrote /\ Opens' /\ SwpNow >= 1
    BY <2>2, <2>4, <2>5, <2>6
  <2>7. QED
    BY <2>2, <2>3, <2>4, <2>6 DEF WroteLast
<1>6. ASSUME NEW f \in Frames, NEW command \in Commands, NEW auto \in BOOLEAN,
             DoIt(f, command, auto)
      PROVE  WroteLast'
  <2>1. se'.wrote = {} /\ se'.swp_count = 0 /\ se'.ray_num = 0 /\ se'.num_rays = 0
    BY <1>6, DoItStarts
  <2>2. QED
    BY <2>1 DEF WroteLast, Opens
<1>7. ASSUME NEW f \in Frames, Undo(f)
      PROVE  WroteLast'
  <2>1. se'.pc = "replot" /\ se' = [se EXCEPT !.pc = "replot", !.frame = f]
    BY <1>7, UndoDone
  <2>2. se'.swp_count = se.swp_count
    BY <2>1 DEF Shape, IsEditor
  <2>3. QED
    BY <2>1, <2>2 DEF WroteLast
<1>8. QED
  BY <1>1, <1>2, <1>3, <1>4, <1>5, <1>6, <1>7, Steps

(* The frame "has to be looking at the file the edit actually wrote" when  *)
(* a Do It over one sweep is over, if it wrote any                         *)
(* (se_point_frame_at_written).                                            *)
THEOREM FramesFollowEdits ==
  ASSUME FieldsKept, RecordedWhole, OneSweepFiles
  PROVE  Spec => FrameFollowsEdit
<1> DEFINE Follows == se.pc = "post" /\ se.wrote # {} /\ Len(se.list) = 1 =>
                        sweep'[se.frame].file \in se.wrote
<1>1. Shape /\ WholeInv /\ StackInv /\ FilesRemain /\ WroteLast /\ [Next]_vars
        => [Follows]_vars
  <2> SUFFICES ASSUME Shape, WholeInv, StackInv, FilesRemain, WroteLast, Next,
                      se.pc = "post", se.wrote # {}, Len(se.list) = 1, ~(UNCHANGED vars)
               PROVE  sweep'[se.frame].file \in se.wrote
    OBVIOUS
  <2>1. EndDoIt
    <3>1. \A ok \in WriteResults : ~EditRay(ok)
      BY EditRayReads
    <3>2. QED
      BY <3>1, OnlyTheLoop DEF Idle, ReplotReads, LoopEnds
  <2>2. se.modified
    BY DEF StackInv, WroteNow
  <2>3. PICK f, p : f = se.frame /\ p = wio.last_path
    OBVIOUS
  <2>4. f \in Frames
    BY <2>3, SessionAssumption DEF Shape, Idle
  <2>5. p \in se.wrote /\ OfRecord(p)
    BY <2>3 DEF WroteLast, FilesRemain
  <2>6. p # NoPath
    BY <2>5, RadarIOAssumption DEF OfRecord, Paths, NoPath, Times
  <2>7. PICK c : c = Listing(dir)
    OBVIOUS
  <2>8. \E i \in LookedAt(c) : c[i].file = p
    BY <2>5, <2>7, RecordFound DEF FilesRemain
  <2>9. PICK s : s = [file |-> p, stamp |-> p[1], version |-> ListedVersion(1),
                      changed |-> TRUE]
    OBVIOUS
  <2>10. PointFrameAtWritten(f)
    BY <2>1, <2>2, <2>3 DEF EndDoIt
  <2>11. sweep' = IF p # sweep[f].file THEN [sweep EXCEPT ![f] = s] ELSE sweep
    BY <2>3, <2>6, <2>7, <2>8, <2>9, <2>10 DEF PointFrameAtWritten
  <2>12. sweep = [g \in Frames |-> sweep[g]]
    BY DEF WholeInv, ViewOK
  <2>13. sweep'[f].file = p
    BY <2>4, <2>9, <2>11, <2>12
  <2>14. QED
    BY <2>3, <2>5, <2>13
<1>2. FrameFollowsEdit <=> [][Follows]_vars
  BY DEF FrameFollowsEdit
<1> HIDE DEF Follows
<1>3. Init => WroteLast /\ FilesRemain
  <2>1. Init => WroteLast
    BY DEF Init, EditorIdle, WroteLast
  <2>2. QED
    BY <2>1, FilesRemainStart
<1>4. Shape /\ WriteInv /\ WholeInv /\ StackInv /\ FilesRemain /\ [Next]_vars => FilesRemain'
  BY FilesRemainStep
<1>5. QED
  BY <1>1, <1>2, <1>3, <1>4, WroteLastStep, SessionWhole, SessionStacks, PTL DEF Spec

----------------------------------------------------------------------------
(* Moving between files, of one sweep or of many.                          *)

OnDisk(p) == disk[p] # NoVolume

(* Every file that a directory, a snapshot or a frame names is there.      *)
ListedOnDisk ==
  /\ \A i \in DOMAIN dir : OnDisk(dir[i])
  /\ \A i \in DOMAIN undo : undo[i].image # NoVolume

FrameOnDisk(f) ==
  /\ OnDisk(sweep[f].file) /\ (name[f] # NoPath => OnDisk(name[f]))
  /\ \A i \in DOMAIN cat[f] : OnDisk(cat[f][i].file)

(* A lead frame that holds a volume has the file its sweep info names.     *)
CachedIsNamed == \A l \in Frames : Lead(l) = l /\ io[l].vol # NoVolume =>
                                     name[l] = sweep[l].file

FramesOnDisk == \A f \in Frames : FrameOnDisk(f)

NamingInv == ListedOnDisk /\ FramesOnDisk /\ CachedIsNamed

(* The request finds another time than the one it starts from, unless it   *)
(* is for the nearest.                                                     *)
LEMMA SearchMoves ==
  ASSUME NEW c \in Seq(Entry), NEW target \in Int, NEW v \in Int,
         NEW request \in {TIME_AFTER, TIME_BEFORE}, NEW i \in Search(c, target, request, v)
  PROVE  c[i].stamp # target
<1> DEFINE before == {t \in Stamps(c) : t < target}
           after  == {t \in Stamps(c) : t > target}
<1>1. TimeRequested(c, target, request) \in {Highest(before), Lowest(after)}
  BY DEF TimeRequested, TIME_AFTER, TIME_BEFORE
<1>2. \A t \in TimeRequested(c, target, request) : t \in Stamps(c) /\ t # target
  BY <1>1, StampsOK DEF Highest, Lowest
<1>3. PICK t \in TimeRequested(c, target, request) : i = VersionRequested(c, t, v)
  BY DEF Search
<1>4. QED
  BY <1>2, <1>3, VersionFound

(* What solo_nab_next_file comes back with: files that are there; the file *)
(* of the sweep info, unless it holds nothing; and, when that is another   *)
(* one, its first sweep.                                                   *)
NabNamed(f, nab) ==
  /\ OnDisk(nab.sweep.file) /\ (nab.name # NoPath => OnDisk(nab.name))
  /\ \A i \in DOMAIN nab.cat : OnDisk(nab.cat[i].file)
  /\ nab.io.vol # NoVolume => nab.name = nab.sweep.file
  /\ nab.name # name[f] => nab.io.swp_index = 0

LEMMA NabNames ==
  ASSUME ViewOK, NamesOK, FilesOK, NamingInv, NEW f \in Frames, Lead(f) = f,
         NEW s0 \in SweepInfo, s0.file = sweep[f].file,
         NEW action, NEW version \in Int, NEW replot, NEW rescan,
         replot \/ action \in {TIME_AFTER, TIME_BEFORE},
         NEW nab, nab = NabNextFile(f, s0, action, version, replot, rescan)
  PROVE  NabNamed(f, nab)
<1> DEFINE reread == \/ rescan \/ urgent[f] \/ s0.changed
                     \/ replot /\ version = LATEST_VERSION /\ file_modified[f]
           c      == IF reread THEN Listing(dir) ELSE cat[f]
           nsw    == NSweeps(io[f].vol)
           cur    == io[f].swp_index
           stepTo == IF nsw > 1 THEN StepWithin(action, cur, nsw) ELSE {}
           within == stepTo # {}
           found  == Search(c, s0.stamp, action, SearchVersion(version))
           s1     == IF within \/ found = {} THEN [s0 EXCEPT !.changed = FALSE]
                     ELSE LET e == c[CHOOSE i \in found : TRUE]
                          IN  [s0 EXCEPT !.file = e.file, !.stamp = e.stamp,
                                         !.changed = FALSE]
           same   == ~within /\ ~replot /\ s1.stamp = s0.stamp
           r      == Request(f, stepTo)
           read   == HeaderRead(io[f], s1.file, r, disk)
<1>1. nab = IF same
            THEN [ok |-> FALSE, cat |-> c, sweep |-> s1,
                  name |-> name[f], req |-> req[f], io |-> io[f]]
            ELSE [ok |-> TRUE, cat |-> c, sweep |-> s1, name |-> s1.file, req |-> r,
                  io |-> RayRead(read)]
  BY DEF NabNextFile
<1>2. c \in Seq(Entry) /\ \A i \in DOMAIN c : OnDisk(c[i].file)
  <2>1. PICK l : l = Listing(dir)
    OBVIOUS
  <2>2. /\ l \in Seq(Entry) /\ DOMAIN l = DOMAIN dir
        /\ \A i \in DOMAIN dir : l[i].file = dir[i]
    BY <2>1, ListingOK DEF NamesOK
  <2>3. \A i \in DOMAIN l : OnDisk(l[i].file)
    BY <2>2 DEF NamingInv, ListedOnDisk
  <2>4. cat[f] \in Seq(Entry) /\ \A i \in DOMAIN cat[f] : OnDisk(cat[f][i].file)
    BY DEF ViewOK, NamingInv, FramesOnDisk, FrameOnDisk
  <2>5. QED
    BY <2>1, <2>2, <2>3, <2>4
<1>3. s0.stamp \in Int /\ SearchVersion(version) \in Int
  BY RadarIOAssumption DEF SweepInfo, Times, SearchVersion, LatestVersion
<1>4. found \subseteq DOMAIN c
  <2> HIDE DEF c
  <2>1. QED
    BY <1>2, <1>3, SearchFinds
<1>5. \/ s1.file = s0.file /\ (within \/ found = {})
      \/ ~within /\ \E i \in found : s1.file = c[i].file /\ s1.stamp = c[i].stamp
  <2>1. PICK t : t = [s0 EXCEPT !.changed = FALSE]
    OBVIOUS
  <2>2. t.file = s0.file
    BY <2>1 DEF SweepInfo
  <2>3. ASSUME ~within, found # {}
        PROVE  \E i \in found : s1.file = c[i].file /\ s1.stamp = c[i].stamp
    <3>1. PICK i \in found : i = CHOOSE j \in found : TRUE
      BY <2>3
    <3>2. PICK a, b : a = c[i].file /\ b = c[i].stamp
      OBVIOUS
    <3> HIDE DEF c, found, within
    <3>3. s1 = [s0 EXCEPT !.file = a, !.stamp = b, !.changed = FALSE]
      BY <2>3, <3>1, <3>2
    <3>4. s1.file = a /\ s1.stamp = b
      <4> HIDE DEF s1
      <4>1. QED
        BY <3>3 DEF SweepInfo
    <3>5. QED
      BY <3>2, <3>4
  <2> HIDE DEF c, found, within
  <2>4. QED
    BY <2>1, <2>2, <2>3
<1>6. same => s1.file = s0.file
  <2>1. ASSUME same, NEW i \in found, s1.stamp = c[i].stamp
        PROVE  FALSE
    <3> HIDE DEF c, s1, within
    <3>1. action \in {TIME_AFTER, TIME_BEFORE} /\ s1.stamp = s0.stamp
      BY <2>1
    <3>2. QED
      BY <1>2, <1>3, <2>1, <3>1, SearchMoves
  <2> HIDE DEF c, s1, found, within
  <2>2. QED
    BY <1>5, <2>1
<1>7. OnDisk(s1.file) /\ s1.file \in Paths
  <2>1. OnDisk(s0.file) /\ s0.file \in Paths
    BY DEF NamingInv, FramesOnDisk, FrameOnDisk, SweepInfo
  <2>2. \A i \in found : OnDisk(c[i].file) /\ c[i].file \in Paths
    <3> HIDE DEF c, found
    <3>1. QED
      BY <1>2, <1>4, StampsOK DEF Entry
  <2> HIDE DEF c, s1, found, within
  <2>3. QED
    BY <1>5, <2>1, <2>2
<1>8. HeldOK(io[f]) /\ f \in Windows
  BY DEF ViewOK, Windows
<1>9. within => name[f] = s0.file
  <2>1. ASSUME within
        PROVE  io[f].vol # NoVolume
    <3>1. nsw > 1
      BY <2>1
    <3>2. QED
      BY <3>1, CountedSweeps
  <2> HIDE DEF within
  <2>2. QED
    BY <2>1 DEF NamingInv, CachedIsNamed
<1>10. CASE same
  <2>1. PICK n : n = name[f]
    OBVIOUS
  <2>2. n # NoPath => OnDisk(n)
    BY <2>1 DEF NamingInv, FramesOnDisk, FrameOnDisk
  <2>3. io[f].vol # NoVolume => n = s0.file
    BY <2>1 DEF NamingInv, CachedIsNamed
  <2>4. nab.cat = c /\ nab.sweep = s1 /\ nab.name = n /\ nab.io = io[f]
    <3> HIDE DEF c, s1, same, r, read
    <3>1. QED
      BY <1>1, <1>10, <2>1
  <2> HIDE DEF c, s1, same
  <2>5. QED
    BY <1>2, <1>6, <1>7, <1>10, <2>1, <2>2, <2>3, <2>4 DEF NabNamed
<1>11. CASE ~same
  <2>1. PICK p, h, q : p = s1.file /\ h = read /\ q = r
    OBVIOUS
  <2>2. nab.cat = c /\ nab.sweep = s1 /\ nab.name = p /\ nab.io = RayRead(h)
    <3> HIDE DEF c, s1, same, r, read
    <3>1. QED
      BY <1>1, <1>11, <2>1
  <2>3. p \in Paths /\ OnDisk(p)
    BY <1>7, <2>1
  <2>4. h = HeaderRead(io[f], p, q, disk)
    BY <2>1
  <2>5. /\ IsState(h) /\ h.vol = VolumeRead(io[f], p, disk)
        /\ h.vol # NoVolume => h.swp_index = Clamp(q, h.vol)
    BY <1>8, <2>4, HeaderReadVolume DEF HeldOK
  <2>6. h.vol # NoVolume /\ h.vol \in Volumes
    BY <1>8, <2>3, <2>5 DEF VolumeRead, OnDisk, HeldOK, Holds, FilesOK
  <2>7. RayRead(h).swp_index = h.swp_index
    <3>1. PICK k : k = h.cursor + 1
      OBVIOUS
    <3>2. RayRead(h) = [h EXCEPT !.cursor = k]
      BY <3>1 DEF RayRead
    <3>3. QED
      BY <2>5, <3>2, CursorSet
  <2>8. ASSUME p # name[f]
        PROVE  h.swp_index = 0
    <3>1. ~within
      <4> HIDE DEF c, found, s1, within
      <4>1. QED
        BY <1>5, <1>9, <2>1, <2>8
    <3>2. q = 0
      BY <2>1, <3>1 DEF Request
    <3>3. NSweeps(h.vol) \in Nat
      BY <2>6, StartsOfVolume DEF Volumes
    <3>4. Clamp(0, h.vol) = 0
      BY <3>3 DEF Clamp
    <3>5. QED
      BY <2>5, <2>6, <3>2, <3>4
  <2> HIDE DEF c, s1
  <2>9. QED
    BY <1>2, <2>1, <2>2, <2>3, <2>7, <2>8 DEF NabNamed
<1>12. QED
  BY <1>10, <1>11
(* A step that takes a frame to another file takes it to its first sweep.  *)
FromTheStart == \A f \in Frames : name'[f] # name[f] => io'[f].swp_index = 0

LEMMA PlotNames ==
  ASSUME Shape, ViewOK, NamesOK, FilesOK, NamingInv, disk' = disk,
         NEW f \in Frames,
         NEW command \in {REPLOT_LOCK_STEP, REPLOT_THIS_FRAME, FORWARD_ONCE, BACKWARDS_ONCE},
         NEW rescan, Plot(f, command, rescan)
  PROVE  FramesOnDisk' /\ CachedIsNamed' /\ FromTheStart
<1>1. CASE halt
  <2>1. UNCHANGED <<io, name, cat, sweep>>
    BY <1>1 DEF Plot, frameVars
  <2>2. QED
    BY <2>1 DEF NamingInv, FramesOnDisk, FrameOnDisk, OnDisk, CachedIsNamed, FromTheStart
<1>2. CASE ~halt
  <2> DEFINE replot  == command \in {REPLOT_LOCK_STEP, REPLOT_THIS_FRAME}
             action  == CASE replot -> TIME_NEAREST
                          [] command = FORWARD_ONCE -> TIME_AFTER
                          [] command = BACKWARDS_ONCE -> TIME_BEFORE
             version == IF replot THEN sweep[f].version ELSE LATEST_VERSION
             info    == [sweep EXCEPT ![f].version = version]
             plotted == IF command = REPLOT_THIS_FRAME THEN {f} ELSE Lock[f]
             leads   == {Lead(g) : g \in plotted}
             Nab(l)  == NabNextFile(l, info[l], action, version, replot, l \in rescan)
             nab     == [l \in leads |-> Nab(l)]
             drawn   == \A l \in leads : nab[l].ok
  <2>1. /\ io' = [w \in Windows |->
                    IF w \in leads
                    THEN IF drawn THEN [nab[w].io EXCEPT !.cursor = nab[w].io.nrays]
                         ELSE nab[w].io
                    ELSE io[w]]
        /\ name' = [g \in Frames |-> IF g \in leads THEN nab[g].name ELSE name[g]]
        /\ cat' = [g \in Frames |-> IF g \in leads THEN nab[g].cat ELSE cat[g]]
        /\ sweep' = [g \in Frames |->
                       IF g \in leads THEN nab[g].sweep
                       ELSE IF g \in plotted
                            THEN [nab[Lead(g)].sweep EXCEPT !.changed = TRUE]
                            ELSE info[g]]
    BY <1>2 DEF Plot
  <2>2. \A g \in plotted : g \in Frames /\ Lead(g) \in leads
    BY LeadsLed
  <2>3. \A l \in leads : l \in Frames /\ Lead(l) = l
    BY LeadsLed
  <2>4. replot \/ action \in {TIME_AFTER, TIME_BEFORE}
    <3>1. ASSUME ~replot
          PROVE  action \in {TIME_AFTER, TIME_BEFORE}
      <4>1. command = FORWARD_ONCE \/ command = BACKWARDS_ONCE
        BY <3>1
      <4>2. FORWARD_ONCE # BACKWARDS_ONCE
        BY DEF FORWARD_ONCE, BACKWARDS_ONCE
      <4> HIDE DEF replot
      <4>3. action = TIME_AFTER \/ action = TIME_BEFORE
        BY <3>1, <4>1, <4>2, Zenon
      <4> HIDE DEF action
      <4>4. QED
        BY <4>3
    <3> HIDE DEF action, replot
    <3>2. QED
      BY <3>1
  <2>5. version \in Int
    BY DEF ViewOK, SweepInfo, LATEST_VERSION
  <2>6. ASSUME NEW g \in Frames
        PROVE  info[g] \in SweepInfo /\ info[g].file = sweep[g].file
    <3>1. PICK v : v = version
      OBVIOUS
    <3>2. info[g] = IF g = f THEN [sweep[g] EXCEPT !.version = v] ELSE sweep[g]
      <4> HIDE DEF version
      <4>1. QED
        BY <3>1 DEF ViewOK
    <3>3. sweep[g] \in SweepInfo /\ v \in Int
      BY <2>5, <3>1 DEF ViewOK
    <3>4. PICK s : s = [sweep[g] EXCEPT !.version = v]
      OBVIOUS
    <3>5. s \in SweepInfo /\ s.file = sweep[g].file
      BY <3>3, <3>4 DEF SweepInfo
    <3> HIDE DEF info
    <3>6. QED
      BY <3>2, <3>3, <3>4, <3>5
  <2> HIDE DEF info, version, action, replot
  <2>7. ASSUME NEW l \in leads
        PROVE  NabNamed(l, nab[l]) /\ IsState(nab[l].io) /\ nab[l].sweep \in SweepInfo
    <3>1. PICK n, s0, b : n = Nab(l) /\ s0 = info[l] /\ b = (l \in rescan)
      OBVIOUS
    <3>2. l \in Frames /\ Lead(l) = l
      BY <2>3
    <3>3. s0 \in SweepInfo /\ s0.file = sweep[l].file
      BY <2>6, <3>1, <3>2
    <3>4. n = NabNextFile(l, s0, action, version, replot, b)
      BY <3>1
    <3>5. NabNamed(l, n)
      BY <2>4, <2>5, <3>2, <3>3, <3>4, NabNames
    <3>6. HeldOK(n.io) /\ n.sweep \in SweepInfo
      BY <2>5, <3>2, <3>3, <3>4, NabOK
    <3>7. nab[l] = n
      BY <3>1
    <3> HIDE DEF nab, leads
    <3>8. QED
      BY <3>5, <3>6, <3>7 DEF HeldOK
  <2> HIDE DEF nab, leads, plotted, drawn
  <2>8. PICK sw, nm, ct, rd : sw = sweep' /\ nm = name' /\ ct = cat' /\ rd = io'
    OBVIOUS
  <2>9. ASSUME NEW g \in leads
        PROVE  /\ sw[g] = nab[g].sweep /\ nm[g] = nab[g].name /\ ct[g] = nab[g].cat
               /\ rd[g].vol = nab[g].io.vol /\ rd[g].swp_index = nab[g].io.swp_index
    <3>1. g \in Frames /\ g \in Windows
      BY <2>3 DEF Windows
    <3>2. sw[g] = nab[g].sweep /\ nm[g] = nab[g].name /\ ct[g] = nab[g].cat
      BY <2>1, <2>8, <3>1
    <3>3. PICK t, c : t = nab[g].io /\ c = nab[g].io.nrays
      OBVIOUS
    <3>4. rd[g] = t \/ rd[g] = [t EXCEPT !.cursor = c]
      BY <2>1, <2>8, <3>1, <3>3
    <3>5. IsState(t)
      BY <2>7, <3>3
    <3>6. QED
      BY <3>2, <3>3, <3>4, <3>5, CursorSet
  <2>10. ASSUME NEW g \in Frames, g \notin leads
         PROVE  nm[g] = name[g] /\ ct[g] = cat[g] /\ rd[g] = io[g]
    BY <2>1, <2>8, <2>10 DEF Windows
  <2>11. ASSUME NEW g \in Frames, g \notin leads
         PROVE  /\ OnDisk(sw[g].file) /\ (Lead(g) = g => sw[g].file = sweep[g].file)
    <3>1. CASE g \in plotted
      <4>1. PICK l, s : l = Lead(g) /\ s = nab[l].sweep
        OBVIOUS
      <4>2. l \in leads /\ l # g
        BY <2>2, <2>11, <3>1, <4>1
      <4>3. s \in SweepInfo /\ OnDisk(s.file)
        BY <2>7, <4>1, <4>2 DEF NabNamed
      <4>4. sw[g] = [s EXCEPT !.changed = TRUE]
        BY <2>1, <2>8, <2>11, <3>1, <4>1
      <4>5. sw[g].file = s.file
        BY <4>3, <4>4 DEF SweepInfo
      <4>6. QED
        BY <4>1, <4>2, <4>3, <4>5
    <3>2. CASE g \notin plotted
      <4>1. sw[g] = info[g]
        BY <2>1, <2>8, <2>11, <3>2
      <4>2. QED
        BY <2>6, <4>1 DEF NamingInv, FramesOnDisk, FrameOnDisk
    <3>3. QED
      BY <3>1, <3>2
  <2>12. ASSUME NEW g \in Frames
         PROVE  /\ OnDisk(sw[g].file) /\ (nm[g] # NoPath => OnDisk(nm[g]))
                /\ \A i \in DOMAIN ct[g] : OnDisk(ct[g][i].file)
                /\ Lead(g) = g /\ rd[g].vol # NoVolume => nm[g] = sw[g].file
                /\ nm[g] # name[g] => rd[g].swp_index = 0
    <3>1. CASE g \in leads
      BY <2>7, <2>9, <3>1 DEF NabNamed
    <3>2. CASE g \notin leads
      BY <2>10, <2>11, <3>2 DEF NamingInv, FramesOnDisk, FrameOnDisk, CachedIsNamed
    <3>3. QED
      BY <3>1, <3>2
  <2>13. QED
    BY <2>8, <2>12 DEF FramesOnDisk, FrameOnDisk, OnDisk, CachedIsNamed, FromTheStart
<1>3. QED
  BY <1>1, <1>2

LEMMA ClickNames ==
  ASSUME Shape, ViewOK, NamesOK, FilesOK, NamingInv, disk' = disk,
         NEW f \in Frames, Click(f)
  PROVE  FramesOnDisk' /\ CachedIsNamed' /\ FromTheStart
<1>1. PICK l \in Frames : l = Lead(f) /\ Lead(l) = l
  BY LeadsLed
<1>2. l \in Windows
  BY DEF Windows
<1>3. PICK nab : nab = NabNextFile(l, sweep[l], TIME_NEAREST, LATEST_VERSION, TRUE, FALSE)
  OBVIOUS
<1>4. NabNamed(l, nab) /\ HeldOK(nab.io)
  <2>1. PICK s0 \in SweepInfo : s0 = sweep[l]
    BY DEF ViewOK
  <2>2. LATEST_VERSION \in Int
    BY DEF LATEST_VERSION
  <2>3. PICK v, b : v = LATEST_VERSION /\ b = TRUE
    OBVIOUS
  <2>4. nab = NabNextFile(l, s0, TIME_NEAREST, v, b, FALSE) /\ v \in Int /\ b
    BY <1>3, <2>1, <2>2, <2>3
  <2>5. NabNamed(l, nab)
    BY <1>1, <2>1, <2>4, NabNames
  <2>6. HeldOK(nab.io)
    BY <2>1, <2>4, NabOK
  <2>7. QED
    BY <2>5, <2>6
<1>5. PICK st : st = IF file_modified[l] THEN nab.io ELSE io[l]
  OBVIOUS
<1>6. PICK at : at = SeekRay(st, st.nrays - 1)
  OBVIOUS
<1>7. PICK t : t = IF HasRay(at) THEN RayRead(at) ELSE at
  OBVIOUS
<1>8. t.vol = st.vol /\ t.swp_index = st.swp_index
  <2>1. IsState(st)
    BY <1>2, <1>4, <1>5 DEF ViewOK, HeldOK
  <2>2. PICK c : at = [st EXCEPT !.cursor = c]
    BY <1>6 DEF SeekRay
  <2>3. IsState(at) /\ at.vol = st.vol /\ at.swp_index = st.swp_index
    BY <2>1, <2>2, CursorSet
  <2>4. t = at \/ \E e : t = [at EXCEPT !.cursor = e]
    BY <1>7 DEF RayRead
  <2>5. QED
    BY <2>3, <2>4, CursorSet
<1>9. /\ io' = [io EXCEPT ![l] = t]
      /\ IF file_modified[l]
         THEN /\ name' = [name EXCEPT ![l] = nab.name]
              /\ cat' = [cat EXCEPT ![l] = nab.cat]
              /\ sweep' = [sweep EXCEPT ![l] = nab.sweep]
         ELSE UNCHANGED <<name, cat, sweep>>
  BY <1>1, <1>3, <1>5, <1>6, <1>7 DEF Click
<1>10. PICK sw, nm, ct, rd : sw = sweep' /\ nm = name' /\ ct = cat' /\ rd = io'
  OBVIOUS
<1>11. \A g \in Frames : rd[g] = IF g = l THEN t ELSE io[g]
  BY <1>9, <1>10 DEF Shape, Windows
<1>12. CASE file_modified[l]
  <2>1. PICK a, b, c : a = nab.name /\ b = nab.cat /\ c = nab.sweep
    OBVIOUS
  <2>2. /\ nm = [name EXCEPT ![l] = a] /\ ct = [cat EXCEPT ![l] = b]
        /\ sw = [sweep EXCEPT ![l] = c]
    BY <1>9, <1>10, <1>12, <2>1
  <2>3. /\ nm[l] = a /\ ct[l] = b /\ sw[l] = c /\ rd[l] = t
        /\ \A g \in Frames : g # l =>
             nm[g] = name[g] /\ ct[g] = cat[g] /\ sw[g] = sweep[g] /\ rd[g] = io[g]
    <3>1. nm[l] = a /\ \A g \in Frames : g # l => nm[g] = name[g]
      BY <2>2 DEF ViewOK
    <3>2. ct[l] = b /\ \A g \in Frames : g # l => ct[g] = cat[g]
      BY <2>2 DEF ViewOK
    <3>3. sw[l] = c /\ \A g \in Frames : g # l => sw[g] = sweep[g]
      BY <2>2 DEF ViewOK
    <3>4. QED
      BY <1>11, <3>1, <3>2, <3>3
  <2>4. st = nab.io
    BY <1>5, <1>12
  <2>5. ASSUME NEW g \in Frames
        PROVE  /\ OnDisk(sw[g].file) /\ (nm[g] # NoPath => OnDisk(nm[g]))
               /\ \A i \in DOMAIN ct[g] : OnDisk(ct[g][i].file)
               /\ Lead(g) = g /\ rd[g].vol # NoVolume => nm[g] = sw[g].file
               /\ nm[g] # name[g] => rd[g].swp_index = 0
    <3>1. CASE g = l
      <4>1. /\ OnDisk(c.file) /\ (a # NoPath => OnDisk(a))
            /\ \A i \in DOMAIN b : OnDisk(b[i].file)
            /\ t.vol # NoVolume => a = c.file
            /\ a # name[l] => t.swp_index = 0
        BY <1>4, <1>8, <2>1, <2>4 DEF NabNamed
      <4>2. QED
        BY <2>3, <3>1, <4>1
    <3>2. CASE g # l
      BY <2>3, <3>2 DEF NamingInv, FramesOnDisk, FrameOnDisk, CachedIsNamed
    <3>3. QED
      BY <3>1, <3>2
  <2>6. QED
    BY <1>10, <2>5 DEF FramesOnDisk, FrameOnDisk, OnDisk, CachedIsNamed, FromTheStart
<1>13. CASE ~file_modified[l]
  <2>1. UNCHANGED <<name, cat, sweep>> /\ st = io[l]
    BY <1>5, <1>9, <1>13
  <2>2. \A g \in Frames : rd[g].vol = io[g].vol
    BY <1>8, <1>11, <2>1
  <2>3. QED
    BY <1>10, <2>1, <2>2 DEF NamingInv, FramesOnDisk, FrameOnDisk, OnDisk, CachedIsNamed,
                             FromTheStart
<1>14. QED
  BY <1>12, <1>13
(* A file that is there stays: a sweep written has rays, and so has what an *)
(* undo brings back.                                                       *)
LEMMA FilesStay ==
  ASSUME Shape, WriteInv, WholeInv, NamingInv, [Next]_vars
  PROVE  \A p \in Paths : OnDisk(p) => OnDisk(p)'
<1>0. FilesOK /\ ViewOK /\ LoopOK
  BY DEF WholeInv
<1>1. CASE Untouched \/ Looks \/ ReplotReads \/ LoopEnds
  BY <1>1 DEF Untouched, Looks, ReplotReads, LoopEnds, OnDisk
<1>2. CASE EndDoIt
  BY <1>2, DoItEnds DEF OnDisk
<1>3. ASSUME NEW ok \in WriteResults, EditRay(ok)
      PROVE  \A p \in Paths : OnDisk(p) => OnDisk(p)'
  <2>1. PICK d, out, W : d = disk' /\ out = OutNow /\ W = WsNow.wvol
    OBVIOUS
  <2>2. d = disk \/ (EndsNow /\ d = [q \in Paths |-> IF q = out THEN W ELSE disk[q]])
    BY <1>0, <1>3, <2>1, DiskWritten
  <2>3. EndsNow => W # NoVolume
    BY <1>0, <1>3, <2>1, SweepWritten
  <2>4. QED
    BY <2>1, <2>2, <2>3 DEF OnDisk
<1>4. ASSUME NEW f \in Frames, NEW command \in Commands, NEW auto \in BOOLEAN,
             DoIt(f, command, auto)
      PROVE  \A p \in Paths : OnDisk(p) => OnDisk(p)'
  BY <1>4, DoItStarts DEF OnDisk
<1>5. ASSUME NEW f \in Frames, Undo(f)
      PROVE  \A p \in Paths : OnDisk(p) => OnDisk(p)'
  <2>1. PICK top, d : top = Len(undo) /\ d = disk'
    OBVIOUS
  <2>2. undo # << >> /\ d = [disk EXCEPT ![undo[top].path] = undo[top].image]
    BY <1>5, <2>1, UndoDone
  <2>3. PICK q, image : q = undo[top].path /\ image = undo[top].image
    OBVIOUS
  <2>4. \A p \in Paths : d[p] = IF p = q THEN image ELSE disk[p]
    BY <1>0, <2>2, <2>3 DEF FilesOK
  <2>5. top \in DOMAIN undo
    BY <1>0, <2>1, <2>2, LenProperties, EmptySeq DEF FilesOK
  <2>6. image # NoVolume
    BY <2>3, <2>5 DEF NamingInv, ListedOnDisk
  <2>7. QED
    BY <2>1, <2>4, <2>6 DEF OnDisk
<1>6. QED
  BY <1>1, <1>2, <1>3, <1>4, <1>5, Steps

(* The directory lists files that are there: one joins it as it is         *)
(* written.                                                                *)
LEMMA DirectoryStays ==
  ASSUME Shape, WriteInv, WholeInv, NamingInv, [Next]_vars
  PROVE  ListedOnDisk'
<1>0. FilesOK /\ ViewOK /\ NamesOK /\ LoopOK
  BY DEF WholeInv
<1>1. PICK here, d, v : /\ here = {p \in Paths : OnDisk(p)'}
                        /\ d = dir' /\ v = undo'
  OBVIOUS
<1>2. dir \in Seq(here)
  <2>1. /\ dir \in Seq(Paths) /\ Len(dir) \in Nat /\ DOMAIN dir = 1 .. Len(dir)
        /\ dir = [i \in 1 .. Len(dir) |-> dir[i]]
    BY <1>0, LenProperties DEF NamesOK
  <2>2. \A i \in 1 .. Len(dir) : dir[i] \in Paths /\ OnDisk(dir[i])
    BY <2>1, ElementOfSeq DEF NamingInv, ListedOnDisk
  <2>3. \A i \in 1 .. Len(dir) : dir[i] \in here
    BY <1>1, <2>2, FilesStay
  <2>4. QED
    BY <2>1, <2>3, FunctionInSeq
<1>3. d \in Seq(here)
  <2>1. CASE d = dir
    BY <1>2, <2>1
  <2>2. ASSUME NEW ok \in WriteResults, EditRay(ok), d # dir
        PROVE  d \in Seq(here)
    <3>1. PICK W, e : W = WsNow.wvol /\ e = OutNow
      OBVIOUS
    <3>2. /\ EndsNow /\ ok
          /\ \E at \in 1 .. Len(dir) + 1 :
               d = SubSeq(dir, 1, at - 1) \o <<e>> \o SubSeq(dir, at, Len(dir))
      <4>1. dir' # dir
        BY <1>1, <2>2
      <4>2. EndsNow /\ ok
        <5>1. ok = TRUE \/ ok = FALSE
          BY SessionAssumption
        <5>2. EditRay(TRUE) => EndsNow
          BY <4>1, EditRayWrites, Zenon
        <5>3. ~EditRay(FALSE)
          BY <4>1, EditRayWrites, Zenon
        <5>4. EditRay(ok)
          BY <2>2
        <5>5. ok = TRUE
          BY <5>1, <5>3, <5>4, Zenon
        <5>6. QED
          BY <5>2, <5>4, <5>5, Zenon
      <4>3. PICK at \in 1 .. Len(dir) + 1 :
              dir' = SubSeq(dir, 1, at - 1) \o <<e>> \o SubSeq(dir, at, Len(dir))
        BY <2>2, <3>1, <4>1, EditRayWrites
      <4>4. QED
        BY <1>1, <4>2, <4>3
    <3>3. W # NoVolume /\ e \in Paths
      BY <1>0, <2>2, <3>1, <3>2, SweepWritten
    <3>4. PICK disk2 : disk2 = disk'
      OBVIOUS
    <3>5. disk2 = [disk EXCEPT ![e] = W]
      <4>1. disk2 = IF EndsNow THEN DiskAfterSweepEnd(WsNow, ok, disk) ELSE disk
        BY <2>2, <3>4, EditRayWrites
      <4>2. disk2 = DiskAfterSweepEnd(WsNow, ok, disk)
        BY <3>2, <4>1
      <4>3. QED
        BY <3>1, <3>2, <3>3, <4>2 DEF DiskAfterSweepEnd, OutNow
    <3>6. disk2[e] = W
      BY <1>0, <3>3, <3>5 DEF FilesOK
    <3>7. e \in here
      BY <1>1, <3>3, <3>4, <3>6 DEF OnDisk
    <3>8. PICK at \in 1 .. Len(dir) + 1 :
            d = SubSeq(dir, 1, at - 1) \o <<e>> \o SubSeq(dir, at, Len(dir))
      BY <3>2
    <3>9. Len(dir) \in Nat
      BY <1>2, LenProperties
    <3>10. SubSeq(dir, 1, at - 1) \in Seq(here) /\ SubSeq(dir, at, Len(dir)) \in Seq(here)
      BY <1>2, <3>9, SubSeqProperties
    <3>11. <<e>> \in Seq(here)
      BY <3>7
    <3>12. QED
      BY <3>8, <3>10, <3>11, ConcatProperties
  <2>3. \/ d = dir \/ \E ok \in WriteResults : EditRay(ok)
    <3>1. \A f \in Frames, command \in Commands, auto \in BOOLEAN :
            DoIt(f, command, auto) => dir' = dir
      BY DoItStarts
    <3>2. (\A f \in Frames : Undo(f) => dir' = dir) /\ (EndDoIt => dir' = dir)
      BY UndoDone, DoItEnds
    <3>3. QED
      BY <1>1, <3>1, <3>2, Steps DEF Untouched, Looks, ReplotReads, LoopEnds
  <2>4. QED
    BY <2>1, <2>2, <2>3
<1>4. \A i \in DOMAIN d : d[i] \in here
  BY <1>3, LenProperties, ElementOfSeq
<1>5. \A i \in DOMAIN v : v[i].image # NoVolume
  <2>1. EntriesFrom(v)
    BY <1>1, UndoEntries
  <2>2. ASSUME NEW i \in DOMAIN v, NEW p \in Paths, NEW f \in Frames, name[f] = p,
               v[i] = [path |-> p, image |-> disk[p]]
        PROVE  v[i].image # NoVolume
    <3>1. p # NoPath
      BY <2>2, RadarIOAssumption DEF Paths, NoPath, Times
    <3>2. OnDisk(p)
      BY <2>2, <3>1 DEF NamingInv, FramesOnDisk, FrameOnDisk
    <3>3. v[i].image = disk[p]
      BY <2>2
    <3>4. QED
      BY <3>2, <3>3 DEF OnDisk
  <2>3. \A j \in DOMAIN undo : undo[j].image # NoVolume
    BY DEF NamingInv, ListedOnDisk
  <2>4. QED
    BY <2>1, <2>2, <2>3 DEF EntriesFrom
<1>6. QED
  BY <1>1, <1>4, <1>5 DEF ListedOnDisk, OnDisk

(* The search for the written file looks at entries of the directory.      *)
LEMMA LookedAtListed ==
  ASSUME NEW c \in Seq(Entry)
  PROVE  LookedAt(c) \subseteq DOMAIN c
<1> DEFINE firsts == {i \in DOMAIN c : \A j \in 1 .. i - 1 : c[j].stamp # c[i].stamp}
<1>1. PICK n \in Nat : DOMAIN c = 1 .. n
  BY LenProperties
<1>2. IsFiniteSet(DOMAIN c) /\ Cardinality(DOMAIN c) = n
  BY <1>1, FS_Interval
<1>3. firsts \subseteq DOMAIN c
  OBVIOUS
<1> HIDE DEF firsts
<1>4. Cardinality(firsts) \in Nat /\ Cardinality(firsts) <= n
  BY <1>2, <1>3, FS_Subset, FS_CardinalityType
<1>5. SweepList(c) = [k \in 1 .. Cardinality(firsts) |->
                        CHOOSE x \in firsts :
                          Cardinality({y \in firsts : c[y].stamp < c[x].stamp}) = k - 1]
  BY DEF SweepList, Ordered, firsts
<1>6. Len(SweepList(c)) = Cardinality(firsts)
  <2>1. PICK l, m : l = SweepList(c) /\ m = Cardinality(firsts)
    OBVIOUS
  <2>2. l = [k \in 1 .. m |-> l[k]] /\ m \in Nat
    BY <1>4, <1>5, <2>1
  <2>3. Len(l) = m
    BY <2>2
  <2>4. QED
    BY <2>1, <2>3
<1>7. \A k \in 1 .. Len(SweepList(c)) : k \in DOMAIN c
  BY <1>1, <1>4, <1>6
<1>8. QED
  BY <1>7, EntireListed DEF LookedAt

(* The end of a Do It sends its frame to a file of the directory, without  *)
(* a volume.                                                               *)
LEMMA EndNames ==
  ASSUME Shape, WholeInv, NamingInv, EndDoIt
  PROVE  FramesOnDisk' /\ CachedIsNamed'
<1>0. ViewOK /\ NamesOK
  BY DEF WholeInv
<1>1. UNCHANGED <<name, disk>>
  BY DoItEnds
<1>2. CASE ~se.modified
  <2>1. UNCHANGED <<sweep, cat, io>>
    BY <1>2 DEF EndDoIt
  <2>2. QED
    BY <1>1, <2>1 DEF NamingInv, FramesOnDisk, FrameOnDisk, OnDisk, CachedIsNamed
<1>3. CASE se.modified
  <2>1. PICK f \in Frames : f = se.frame
    BY DoItEnds, SessionAssumption DEF Shape, Idle
  <2>2. DropReadCaches(f) /\ PointFrameAtWritten(f)
    BY <1>3, <2>1 DEF EndDoIt
  <2>3. PICK c, p : c = Listing(dir) /\ p = wio.last_path
    OBVIOUS
  <2>4. /\ c \in Seq(Entry) /\ DOMAIN c = DOMAIN dir
        /\ \A i \in DOMAIN dir : c[i].file = dir[i]
    BY <1>0, <2>3, ListingOK DEF NamesOK
  <2>5. \A i \in DOMAIN c : OnDisk(c[i].file)
    BY <2>4 DEF NamingInv, ListedOnDisk
  <2>6. PICK info : info = [file |-> p, stamp |-> p[1], version |-> ListedVersion(1),
                            changed |-> TRUE]
    OBVIOUS
  <2>7. /\ sweep' = sweep \/ (sweep' = [sweep EXCEPT ![f] = info] /\ OnDisk(p))
        /\ cat' = cat \/ cat' = [cat EXCEPT ![f] = c]
    <3>1. (\E i \in LookedAt(c) : c[i].file = p) => OnDisk(p)
      BY <2>4, <2>5, LookedAtListed
    <3>2. QED
      BY <2>2, <2>3, <2>6, <3>1 DEF PointFrameAtWritten
  <2>8. info.file = p
    BY <2>6
  <2>9. PICK sw, ct, rd : sw = sweep' /\ ct = cat' /\ rd = io'
    OBVIOUS
  <2>10. /\ \A g \in Frames : sw[g] = sweep[g] \/ (g = f /\ sw[g] = info /\ OnDisk(p))
         /\ \A g \in Frames : ct[g] = cat[g] \/ ct[g] = c
    BY <1>0, <2>7, <2>9 DEF ViewOK
  <2>11. /\ \A g \in Frames : rd[g].vol = NoVolume \/ rd[g] = io[g]
         /\ rd[f].vol = NoVolume
    <3>1. f \in Link[f]
      BY SessionAssumption
    <3>2. \A w \in Windows : rd[w].vol = NoVolume \/ rd[w] = io[w]
      BY <2>2, <2>9, CachesDropped
    <3>3. rd[f].vol = NoVolume
      BY <2>2, <2>9, <3>1, CachesDropped DEF Windows
    <3>4. QED
      BY <3>2, <3>3 DEF Windows
  <2>12. ASSUME NEW g \in Frames
         PROVE  /\ OnDisk(sw[g].file) /\ \A i \in DOMAIN ct[g] : OnDisk(ct[g][i].file)
                /\ name[g] # NoPath => OnDisk(name[g])
                /\ Lead(g) = g /\ rd[g].vol # NoVolume => name[g] = sw[g].file
    BY <2>5, <2>8, <2>10, <2>11 DEF NamingInv, FramesOnDisk, FrameOnDisk, CachedIsNamed
  <2>13. QED
    BY <1>1, <2>9, <2>12 DEF FramesOnDisk, FrameOnDisk, OnDisk, CachedIsNamed
<1>4. QED
  BY <1>2, <1>3

LEMMA NamingStep ==
  ASSUME "select" \notin Gestures
  PROVE  Shape /\ WriteInv /\ WholeInv /\ NamingInv /\ [Next]_vars => NamingInv' /\ FromTheStart
<1> SUFFICES ASSUME Shape, WriteInv, WholeInv, NamingInv, [Next]_vars
             PROVE  NamingInv' /\ FromTheStart
  OBVIOUS
<1>0. ViewOK /\ NamesOK /\ FilesOK /\ LoopOK
  BY DEF WholeInv
<1> SUFFICES FramesOnDisk' /\ CachedIsNamed' /\ FromTheStart
  BY DirectoryStays DEF NamingInv
<1>1. ASSUME UNCHANGED <<name, cat, sweep>>,
             \A l \in Frames : io'[l].vol = NoVolume \/ io'[l] = io[l]
      PROVE  FramesOnDisk' /\ CachedIsNamed' /\ FromTheStart
  <2>1. PICK d, rd : d = disk' /\ rd = io'
    OBVIOUS
  <2>2. \A p \in Paths : disk[p] # NoVolume => d[p] # NoVolume
    BY <2>1, FilesStay DEF OnDisk
  <2>3. ASSUME NEW f \in Frames
        PROVE  /\ d[sweep[f].file] # NoVolume /\ (name[f] # NoPath => d[name[f]] # NoVolume)
               /\ \A i \in DOMAIN cat[f] : d[cat[f][i].file] # NoVolume
    <3>1. sweep[f].file \in Paths /\ name[f] \in Paths \cup {NoPath}
      BY <1>0 DEF ViewOK, SweepInfo
    <3>2. \A i \in DOMAIN cat[f] : cat[f][i].file \in Paths
      BY <1>0, StampsOK DEF ViewOK, Entry
    <3>3. FrameOnDisk(f)
      BY DEF NamingInv, FramesOnDisk
    <3>4. QED
      BY <2>2, <3>1, <3>2, <3>3 DEF FrameOnDisk, OnDisk
  <2>4. FramesOnDisk'
    BY <1>1, <2>1, <2>3 DEF FramesOnDisk, FrameOnDisk, OnDisk
  <2>5. CachedIsNamed'
    BY <1>1 DEF NamingInv, CachedIsNamed
  <2>6. QED
    BY <1>1, <2>4, <2>5 DEF FromTheStart
<1>2. CASE UNCHANGED vars
  BY <1>1, <1>2 DEF vars
<1>3. CASE EndOfRays
  BY <1>1, <1>3 DEF EndOfRays, frameVars
<1>4. ASSUME NEW ok \in WriteResults, EditRay(ok)
      PROVE  FramesOnDisk' /\ CachedIsNamed' /\ FromTheStart
  <2>1. SE_FRAME \notin Frames
    BY SessionAssumption
  <2>2. /\ UNCHANGED <<name, cat, sweep>>
        /\ \A w \in Windows : w # SE_FRAME => io'[w] = io[w]
    BY <1>4, EditRayReads
  <2>3. QED
    BY <1>1, <2>1, <2>2 DEF Windows
<1>5. CASE EndDoIt
  <2>1. name' = name
    BY <1>5, DoItEnds
  <2>2. QED
    BY <1>5, <2>1, EndNames DEF FromTheStart
<1>6. CASE Replot
  <2>1. disk' = disk /\ se.frame \in Frames
    BY <1>6, SessionAssumption DEF Replot, Shape, Idle
  <2>2. QED
    BY <1>0, <1>6, <2>1, PlotNames DEF Replot
<1>7. CASE Escape
  BY <1>1, <1>7 DEF Escape, frameVars
<1>8. ASSUME NEW f \in Frames, NEW command \in PlotCommands, PlotFrames(f, command)
      PROVE  FramesOnDisk' /\ CachedIsNamed' /\ FromTheStart
  BY <1>0, <1>8, PlotAssumption, PlotNames DEF PlotFrames
<1>9. ASSUME NEW f \in Frames, Click(f)
      PROVE  FramesOnDisk' /\ CachedIsNamed' /\ FromTheStart
  <2>1. disk' = disk
    BY <1>9 DEF Click
  <2>2. QED
    BY <1>0, <1>9, <2>1, ClickNames
<1>10. ASSUME NEW f \in Frames, ResetTimes(f) \/ FirstSweep(f) \/ LastSweep(f)
       PROVE  FramesOnDisk' /\ CachedIsNamed' /\ FromTheStart
  BY <1>1, <1>10 DEF ResetTimes, FirstSweep, LastSweep
<1>11. ASSUME NEW f \in Frames, NEW command \in Commands, NEW auto \in BOOLEAN,
              DoIt(f, command, auto)
       PROVE  FramesOnDisk' /\ CachedIsNamed' /\ FromTheStart
  <2>1. UNCHANGED <<io, name, cat, sweep>>
    BY <1>11, DoItStarts
  <2>2. QED
    BY <1>1, <2>1
<1>12. ASSUME NEW f \in Frames, Undo(f)
       PROVE  FramesOnDisk' /\ CachedIsNamed' /\ FromTheStart
  <2>1. UNCHANGED <<name, cat, sweep>> /\ DropReadCaches(f)
    BY <1>12, UndoDone
  <2>2. \A w \in Windows : io'[w].vol = NoVolume \/ io'[w] = io[w]
    BY <2>1, CachesDropped
  <2>3. QED
    BY <1>1, <2>1, <2>2 DEF Windows
<1>13. \A f \in Frames : \A k \in DOMAIN dir : ~SelectFile(f, k)
  BY DEF SelectFile
<1>14. QED
  BY <1>2, <1>3, <1>4, <1>5, <1>6, <1>7, <1>8, <1>9, <1>10, <1>11, <1>12, <1>13
  DEF Next, Processing, Gesture

LEMMA NamingStart ==
  ASSUME RecordedWhole
  PROVE  Init => NamingInv
<1> SUFFICES ASSUME Init PROVE NamingInv
  OBVIOUS
<1>1. PICK p, st : StartsAt(p, st)
  BY FirstPlot
<1>2. disk = InitFiles /\ dir = InitDir /\ undo = << >>
  BY DEF Init
<1>3. \A i \in DOMAIN dir : OnDisk(dir[i])
  <2>1. \A i \in DOMAIN InitDir : InitDir[i] \in Paths
    BY SessionAssumption, LenProperties, ElementOfSeq
  <2>2. QED
    BY <1>2, <2>1, SessionAssumption DEF OnDisk
<1>4. \A i \in DOMAIN Listing(InitDir) : OnDisk(Listing(InitDir)[i].file)
  BY <1>2, ListedOfRecord DEF OfRecord, OnDisk
<1>5. OnDisk(p)
  BY <1>1, <1>2 DEF StartsAt, OfRecord, OnDisk
<1>6. ASSUME NEW f \in Frames
      PROVE  FrameOnDisk(f) /\ (Lead(f) = f => name[f] = sweep[f].file)
  <2>1. /\ sweep[f].file = p /\ name[f] = IF Lead(f) = f THEN p ELSE NoPath
        /\ cat[f] = IF Lead(f) = f THEN Listing(InitDir) ELSE << >>
    BY <1>1 DEF StartsAt
  <2>2. QED
    BY <1>4, <1>5, <2>1 DEF FrameOnDisk
<1>7. QED
  BY <1>2, <1>3, <1>6 DEF NamingInv, ListedOnDisk, FramesOnDisk, CachedIsNamed

(* "A move to a different file starts at that file's first sweep"          *)
(* (solo_nab_next_file), whether the files have one sweep or many, as long *)
(* as no sweep is picked from the list.                                    *)
THEOREM FilesEnteredAtStart ==
  ASSUME FieldsKept, RecordedWhole, "select" \notin Gestures
  PROVE  Spec => NewFileFromItsStart
<1>1. NewFileFromItsStart <=> [][FromTheStart]_vars
  BY DEF NewFileFromItsStart, FromTheStart
<1>2. Shape /\ WriteInv /\ WholeInv /\ NamingInv /\ [Next]_vars => NamingInv' /\ FromTheStart
  BY NamingStep
<1>3. Init => NamingInv
  BY NamingStart
<1>4. QED
  BY <1>1, <1>2, <1>3, SessionWhole, PTL DEF Spec

----------------------------------------------------------------------------
(* Stepping through sweeps in the order of their time.                     *)

(* Files that do not overlap in time.                                      *)
FilesApart ==
  \A p, q \in Paths : OfRecord(p) /\ OfRecord(q) /\ p # q => p[2] < q[1] \/ q[2] < p[1]

(* Frames in lockstep are replotted together.                              *)
ReplottedTogether == REPLOT_THIS_FRAME \in PlotCommands => \A f \in Frames : Lock[f] = {f}

(* The first sweep starts at the first ray.                                *)
LEMMA FirstStart ==
  ASSUME NEW R, NEW vol \in Seq(R), vol # NoVolume
  PROVE  SweepStart(vol, 0) = 1 /\ 0 < NSweeps(vol)
<1>1. NSweeps(vol) \in Nat /\ NSweeps(vol) >= 1 /\ SweepStarts(vol) \in SUBSET (1 .. Len(vol))
  BY StartsOfVolume
<1>2. 0 \in Nat /\ 0 < NSweeps(vol)
  BY <1>1
<1>3. SweepStart(vol, 0) \in SweepStarts(vol) /\ Rank(vol, SweepStart(vol, 0)) = 0
  BY <1>2, StartOfSweep
<1>4. PICK s : s = SweepStart(vol, 0)
  OBVIOUS
<1>5. s \in 1 .. Len(vol) /\ Len(vol) \in Nat
  BY <1>1, <1>3, <1>4, LenProperties
<1>6. 1 \in SweepStarts(vol)
  BY <1>5 DEF SweepStarts
<1>7. ~(1 < s)
  <2>1. SUFFICES ASSUME 1 < s PROVE FALSE
    OBVIOUS
  <2>2. Rank(vol, 1) \in Nat /\ Rank(vol, 1) < Rank(vol, s)
    BY <1>3, <1>4, <1>6, <2>1, RankIncreases
  <2>3. QED
    BY <1>3, <1>4, <2>2
<1>8. QED
  BY <1>2, <1>4, <1>5, <1>7

(* The times at which the sweeps of a recorded file start lie within its   *)
(* name.                                                                   *)
LEMMA StartTimes ==
  ASSUME RecordedWhole, NEW p, OfRecord(p), NEW vol, vol = InitFiles[p]
  PROVE  /\ vol \in Volumes /\ vol # NoVolume /\ Len(vol) \in Nat /\ Whole(p, vol)
         /\ p[1] \in Nat /\ p[2] \in Nat /\ p[2] = p[1] + Len(vol) - 1
         /\ \A i \in 1 .. Len(vol) : vol[i].time = p[1] + i - 1
         /\ SweepStarts(vol) \in SUBSET (1 .. Len(vol))
<1>1. p \in Paths /\ Holds(p, vol) /\ vol # NoVolume
  BY RecordedHeld DEF OfRecord
<1>2. vol \in Volumes /\ Whole(p, vol)
  BY <1>1 DEF Holds
<1>3. Len(vol) \in Nat /\ DOMAIN vol = 1 .. Len(vol)
  BY <1>2, VolumeFacts
<1>4. p[1] \in Nat /\ p[2] \in Nat
  BY <1>1, RadarIOAssumption DEF Paths, Times
<1>5. Len(vol) = p[2] - p[1] + 1
  BY <1>2 DEF Whole
<1>6. \A i \in 1 .. Len(vol) : vol[i].time = p[1] + i - 1
  BY <1>2, <1>3 DEF Whole
<1>7. SweepStarts(vol) \in SUBSET (1 .. Len(vol))
  BY <1>2, StartsOfVolume DEF Volumes
<1>8. PICK n : n = Len(vol)
  OBVIOUS
<1>9. p[2] = p[1] + n - 1
  BY <1>3, <1>4, <1>5, <1>8
<1>10. QED
  BY <1>1, <1>2, <1>3, <1>4, <1>6, <1>7, <1>8, <1>9

(* The sweeps later than sweep k of file p, and the next of them: in the   *)
(* file, or else the first sweep of the next file.                         *)
Later(t) == {u \in SweepTimes : u > t}

LEMMA NextInTime ==
  ASSUME NEW S \in SUBSET Nat, NEW x \in S, \A y \in S : x <= y
  PROVE  S # {} /\ x = Min(S)
<1>1. \A z \in S : (\A y \in S : z <= y) => z = x
  BY DEF Min
<1>2. QED
  BY <1>1 DEF Min

LEMMA NextWithin ==
  ASSUME RecordedWhole, FilesApart, disk = InitFiles, NEW p, OfRecord(p),
         NEW vol, vol = InitFiles[p], NEW k \in Nat, k + 1 < NSweeps(vol)
  PROVE  LET now  == vol[SweepStart(vol, k)].time
             then == vol[SweepStart(vol, k + 1)].time
         IN  Later(now) # {} /\ then = Min(Later(now))
<1>1. /\ vol \in Volumes /\ vol # NoVolume /\ Len(vol) \in Nat /\ p[1] \in Nat /\ p[2] \in Nat
      /\ p[2] = p[1] + Len(vol) - 1
      /\ \A i \in 1 .. Len(vol) : vol[i].time = p[1] + i - 1
      /\ SweepStarts(vol) \in SUBSET (1 .. Len(vol))
  BY StartTimes
<1>2. vol \in Seq(AnyRay) /\ NSweeps(vol) \in Nat
  BY <1>1, StartsOfVolume DEF Volumes
<1>3. k < NSweeps(vol) /\ k + 1 \in Nat
  BY <1>2
<1>4. PICK a, b, n : a = SweepStart(vol, k) /\ b = SweepStart(vol, k + 1) /\ n = Len(vol)
  OBVIOUS
<1>5. a \in 1 .. n /\ SweepEnd(vol, k) \in a .. n /\ b \in 1 .. n
  BY <1>2, <1>3, <1>4, SweepIsRun
<1>6. SweepEnd(vol, k) = b - 1
  BY <1>4 DEF SweepEnd
<1>7. n \in Nat /\ a < b
  BY <1>1, <1>4, <1>5, <1>6
<1>8. PICK now, then : now = vol[a].time /\ then = vol[b].time
  OBVIOUS
<1>9. now = p[1] + a - 1 /\ then = p[1] + b - 1
  BY <1>1, <1>4, <1>5, <1>8
<1>10. then \in Later(now)
  <2>1. b \in SweepStarts(vol)
    BY <1>2, <1>3, <1>4, StartOfSweep
  <2>2. p \in Paths
    BY DEF OfRecord
  <2>3. then \in SweepTimes
    BY <1>8, <2>1, <2>2 DEF SweepTimes
  <2>4. then > now
    BY <1>1, <1>5, <1>7, <1>9
  <2>5. QED
    BY <2>3, <2>4 DEF Later
<1>11. ASSUME NEW y \in Later(now)
       PROVE  y \in Nat /\ then <= y
  <2>1. PICK q \in Paths : \E i \in SweepStarts(InitFiles[q]) : y = InitFiles[q][i].time
    BY DEF Later, SweepTimes
  <2>2. PICK w : w = InitFiles[q]
    OBVIOUS
  <2>3. PICK i \in SweepStarts(w) : y = w[i].time
    BY <2>1, <2>2
  <2>4. OfRecord(q)
    <3>1. w # NoVolume
      BY <2>3 DEF SweepStarts, NoVolume
    <3>2. QED
      BY <2>2, <3>1 DEF OfRecord
  <2>5. /\ Len(w) \in Nat /\ q[1] \in Nat /\ q[2] \in Nat /\ q[2] = q[1] + Len(w) - 1
        /\ \A j \in 1 .. Len(w) : w[j].time = q[1] + j - 1
        /\ SweepStarts(w) \in SUBSET (1 .. Len(w))
    BY <2>2, <2>4, StartTimes
  <2>6. i \in 1 .. Len(w) /\ y = q[1] + i - 1 /\ y > now
    BY <2>3, <2>5 DEF Later
  <2>7. y \in Nat /\ q[1] <= y /\ y <= q[2]
    BY <2>5, <2>6
  <2>8. CASE q = p
    <3>1. w = vol /\ i > a
      <4>1. w = vol
        BY <2>2, <2>8
      <4>2. PICK c : c = p[1]
        OBVIOUS
      <4>3. c \in Nat /\ a \in Nat /\ i \in Nat
        BY <1>1, <1>5, <1>7, <2>5, <2>6, <4>2
      <4>4. now = c + a - 1 /\ y = c + i - 1 /\ y > now
        BY <1>9, <2>6, <2>8, <4>2
      <4>5. i > a
        BY <4>3, <4>4
      <4>6. QED
        BY <4>1, <4>5
    <3>2. SweepEnd(vol, k) < i
      BY <1>2, <1>3, <1>4, <2>3, <3>1, NoStartInside
    <3>3. b <= i
      BY <1>5, <1>6, <1>7, <2>5, <2>6, <3>2
    <3>4. y = p[1] + i - 1
      BY <2>6, <2>8
    <3>5. b \in Int /\ i \in Int /\ p[1] \in Nat
      BY <1>1, <1>5, <1>7, <2>5, <2>6
    <3>6. then <= y
      BY <1>9, <3>3, <3>4, <3>5
    <3>7. QED
      BY <2>7, <3>6
  <2>9. CASE q # p
    <3>1. p[2] < q[1] \/ q[2] < p[1]
      BY <2>4, <2>9 DEF FilesApart, OfRecord
    <3>2. PICK c, d, e, g : c = p[1] /\ d = p[2] /\ e = q[1] /\ g = q[2]
      OBVIOUS
    <3>3. /\ c \in Nat /\ d = c + n - 1 /\ now = c + a - 1 /\ then = c + b - 1
          /\ a \in 1 .. n /\ b \in 1 .. n
      BY <1>1, <1>4, <1>5, <1>9, <3>2
    <3>4. c <= now /\ then <= d /\ now \in Nat /\ then \in Nat /\ d \in Nat
      BY <1>7, <3>3
    <3>5. /\ e \in Nat /\ g \in Nat /\ y \in Nat /\ e <= y /\ y <= g /\ y > now
          /\ d < e \/ g < c
      BY <2>5, <2>6, <2>7, <3>1, <3>2
    <3>6. then <= y
      BY <3>3, <3>4, <3>5
    <3>7. QED
      BY <2>7, <3>6
  <2>10. QED
    BY <2>8, <2>9
<1>12. Later(now) \in SUBSET Nat
  BY <1>11
<1>13. Later(now) # {} /\ then = Min(Later(now))
  BY <1>10, <1>11, <1>12, NextInTime
<1>14. QED
  BY <1>4, <1>8, <1>13

LEMMA NextFile ==
  ASSUME RecordedWhole, FilesApart, disk = InitFiles, NEW p, OfRecord(p),
         NEW vol, vol = InitFiles[p], NEW k \in Nat, k < NSweeps(vol), ~(k + 1 < NSweeps(vol)),
         NEW q, OfRecord(q), q[1] > p[1], \A r : OfRecord(r) /\ r[1] > p[1] => q[1] <= r[1],
         NEW w, w = InitFiles[q]
  PROVE  LET now  == vol[SweepStart(vol, k)].time
             then == w[SweepStart(w, 0)].time
         IN  Later(now) # {} /\ then = Min(Later(now))
<1>1. /\ vol \in Volumes /\ vol # NoVolume /\ Len(vol) \in Nat /\ p[1] \in Nat /\ p[2] \in Nat
      /\ p[2] = p[1] + Len(vol) - 1
      /\ \A i \in 1 .. Len(vol) : vol[i].time = p[1] + i - 1
      /\ SweepStarts(vol) \in SUBSET (1 .. Len(vol))
  BY StartTimes
<1>2. /\ w \in Volumes /\ w # NoVolume /\ Len(w) \in Nat /\ q[1] \in Nat /\ q[2] \in Nat
      /\ q[2] = q[1] + Len(w) - 1
      /\ \A i \in 1 .. Len(w) : w[i].time = q[1] + i - 1
      /\ SweepStarts(w) \in SUBSET (1 .. Len(w))
  BY StartTimes
<1>3. vol \in Seq(AnyRay) /\ NSweeps(vol) \in Nat /\ w \in Seq(AnyRay)
  BY <1>1, <1>2, StartsOfVolume DEF Volumes
<1>4. PICK a, n : a = SweepStart(vol, k) /\ n = Len(vol)
  OBVIOUS
<1>5. a \in 1 .. n /\ n \in Nat /\ SweepEnd(vol, k) = n
  <2>1. a \in 1 .. n
    BY <1>3, <1>4, SweepIsRun
  <2>2. SweepEnd(vol, k) = n
    BY <1>4 DEF SweepEnd
  <2>3. QED
    BY <1>1, <1>4, <2>1, <2>2
<1>6. SweepStart(w, 0) = 1 /\ 1 \in SweepStarts(w) /\ 1 \in 1 .. Len(w)
  <2>1. SweepStart(w, 0) = 1 /\ 0 < NSweeps(w)
    BY <1>2, <1>3, FirstStart
  <2>2. 1 \in SweepStarts(w)
    BY <1>3, <2>1, StartOfSweep
  <2>3. QED
    BY <1>2, <2>1, <2>2
<1>7. PICK now, then : now = vol[a].time /\ then = w[1].time
  OBVIOUS
<1>8. now = p[1] + a - 1 /\ then = q[1]
  <2>1. then = q[1] + 1 - 1
    BY <1>2, <1>6, <1>7
  <2>2. now = p[1] + a - 1
    BY <1>1, <1>4, <1>5, <1>7
  <2>3. PICK e : e = q[1] /\ e \in Nat
    BY <1>2
  <2>4. then = e
    BY <2>1, <2>3
  <2>5. QED
    BY <2>2, <2>3, <2>4
<1>9. p[1] <= now /\ now <= p[2] /\ now \in Nat /\ p[2] < q[1]
  <2>1. p[1] <= now /\ now <= p[2] /\ now \in Nat
    BY <1>1, <1>4, <1>5, <1>8
  <2>2. p # q
    BY <1>1, <1>2
  <2>3. p[2] < q[1] \/ q[2] < p[1]
    BY <2>2 DEF FilesApart, OfRecord
  <2>4. q[1] <= q[2]
    BY <1>2, <1>6
  <2>5. QED
    BY <1>1, <1>2, <2>1, <2>3, <2>4
<1>10. then \in Later(now)
  <2>1. then \in SweepTimes
    BY <1>6, <1>7 DEF SweepTimes, OfRecord
  <2>2. then > now
    BY <1>1, <1>2, <1>8, <1>9
  <2>3. QED
    BY <2>1, <2>2 DEF Later
<1>11. ASSUME NEW y \in Later(now)
       PROVE  y \in Nat /\ then <= y
  <2>1. PICK r \in Paths : \E i \in SweepStarts(InitFiles[r]) : y = InitFiles[r][i].time
    BY DEF Later, SweepTimes
  <2>2. PICK x : x = InitFiles[r]
    OBVIOUS
  <2>3. PICK i \in SweepStarts(x) : y = x[i].time
    BY <2>1, <2>2
  <2>4. OfRecord(r)
    <3>1. x # NoVolume
      BY <2>3 DEF SweepStarts, NoVolume
    <3>2. QED
      BY <2>2, <3>1 DEF OfRecord
  <2>5. /\ Len(x) \in Nat /\ r[1] \in Nat /\ r[2] \in Nat /\ r[2] = r[1] + Len(x) - 1
        /\ \A j \in 1 .. Len(x) : x[j].time = r[1] + j - 1
        /\ SweepStarts(x) \in SUBSET (1 .. Len(x))
    BY <2>2, <2>4, StartTimes
  <2>6. i \in 1 .. Len(x) /\ y = r[1] + i - 1 /\ y > now
    BY <2>3, <2>5 DEF Later
  <2>7. y \in Nat /\ r[1] <= y /\ y <= r[2]
    BY <2>5, <2>6
  <2>8. r # p
    <3>1. SUFFICES ASSUME r = p PROVE FALSE
      OBVIOUS
    <3>2. x = vol /\ y = p[1] + i - 1 /\ i \in 1 .. n
      BY <1>4, <2>2, <2>6, <3>1
    <3>3. a < i
      <4>1. PICK c : c = p[1] /\ c \in Nat
        BY <1>1
      <4>2. y = c + i - 1 /\ now = c + a - 1 /\ y > now
        BY <1>8, <2>6, <3>2, <4>1
      <4>3. a \in Nat /\ i \in Nat
        BY <1>5, <3>2
      <4>4. QED
        BY <4>1, <4>2, <4>3
    <3>4. SweepEnd(vol, k) < i
      BY <1>3, <1>4, <2>3, <3>2, <3>3, NoStartInside
    <3>5. QED
      BY <1>5, <3>2, <3>4
  <2>9. p[2] < r[1] \/ r[2] < p[1]
    BY <2>4, <2>8 DEF FilesApart, OfRecord
  <2>10. r[1] > p[1]
    <3>1. PICK c, d, e, g : c = p[1] /\ d = p[2] /\ e = r[1] /\ g = r[2]
      OBVIOUS
    <3>2. /\ c \in Nat /\ d \in Nat /\ e \in Nat /\ g \in Nat /\ now \in Nat /\ y \in Nat
          /\ c <= now /\ now <= d /\ y > now /\ e <= y /\ y <= g /\ (d < e \/ g < c)
      BY <1>1, <1>9, <2>5, <2>6, <2>7, <2>9, <3>1
    <3>3. e > c
      BY <3>2
    <3>4. QED
      BY <3>1, <3>3
  <2>11. q[1] <= r[1]
    BY <2>4, <2>10
  <2>12. QED
    BY <1>2, <1>8, <2>5, <2>7, <2>11
<1>12. Later(now) \in SUBSET Nat
  BY <1>11
<1>13. Later(now) # {} /\ then = Min(Later(now))
  BY <1>10, <1>11, <1>12, NextInTime
<1>14. QED
  BY <1>4, <1>6, <1>7, <1>13

----------------------------------------------------------------------------
(* Before the first Do It, nothing is read but files as they were recorded. *)

(* The lead frame l has a recorded file, with the directory in its catalog.*)
LeadReads(l) ==
  /\ file_modified[l] = FALSE
  /\ OfRecord(name[l]) /\ sweep[l].file = name[l] /\ sweep[l].stamp = name[l][1]
  /\ cat[l] = Listing(InitDir)
  /\ io[l].path = name[l] /\ io[l].vol = InitFiles[name[l]]

(* A step ahead is to the next sweep of the file, or to the first sweep of *)
(* the file next in time.                                                  *)
StepsAhead(f, nab) ==
  LET p == name[f]
      k == io[f].swp_index
  IN  \/ /\ k + 1 < NSweeps(InitFiles[p])
         /\ nab.name = p /\ nab.io.swp_index = k + 1
      \/ /\ ~(k + 1 < NSweeps(InitFiles[p])) /\ nab.name[1] > p[1]
         /\ \A r : OfRecord(r) /\ r[1] > p[1] => nab.name[1] <= r[1]
         /\ nab.io.swp_index = 0

(* What solo_nab_next_file comes back with.                                *)
NabbedAhead(f, ahead, nab) ==
  /\ OfRecord(nab.name) /\ nab.sweep.file = nab.name /\ nab.sweep.stamp = nab.name[1]
  /\ nab.cat = Listing(InitDir)
  /\ nab.io.path = nab.name /\ nab.io.vol = InitFiles[nab.name]
  /\ \/ nab.ok = FALSE /\ nab.io = io[f]
     \/ nab.ok = TRUE /\ (ahead => StepsAhead(f, nab))

(* It depends on nothing but the sweep it starts from, k of file p: to     *)
(* which sweep of the volume it goes, to which file, and whether to any.   *)
Onward(p, k, action) ==
  IF NSweeps(InitFiles[p]) > 1 THEN StepWithin(action, k, NSweeps(InitFiles[p])) ELSE {}

FileReached(p, k, action, version) ==
  LET found == Search(Listing(InitDir), p[1], action, SearchVersion(version))
  IN  IF Onward(p, k, action) # {} \/ found = {} THEN p
      ELSE Listing(InitDir)[CHOOSE i \in found : TRUE].file

NabbedFrom(p, k, action, version, replot, nab) ==
  LET to    == FileReached(p, k, action, version)
      stays == Onward(p, k, action) = {} /\ ~replot /\ to[1] = p[1]
  IN  /\ nab.name = to /\ (nab.ok <=> ~stays)
      /\ nab.io.swp_index =
           IF stays THEN k
           ELSE Clamp(IF Onward(p, k, action) # {}
                      THEN CHOOSE j \in Onward(p, k, action) : TRUE ELSE 0, InitFiles[to])

(* The request for the time after finds the earliest of the later ones.    *)
LEMMA SearchAhead ==
  ASSUME NEW c \in Seq(Entry), NEW target \in Int, NEW v \in Int,
         NEW i \in Search(c, target, TIME_AFTER, v)
  PROVE  c[i].stamp > target /\ \A t \in Stamps(c) : t > target => c[i].stamp <= t
<1> DEFINE after == {t \in Stamps(c) : t > target}
<1>1. TimeRequested(c, target, TIME_AFTER) = Lowest(after)
  BY DEF TimeRequested
<1>2. PICK t \in Lowest(after) : i = VersionRequested(c, t, v)
  BY <1>1 DEF Search
<1>3. t \in Stamps(c) /\ t > target /\ \A u \in after : t <= u
  BY <1>2 DEF Lowest
<1>4. c[i].stamp = t
  BY <1>2, <1>3, VersionFound
<1>5. QED
  BY <1>3, <1>4

LEMMA NabReading ==
  ASSUME RecordedWhole, ViewOK, disk = InitFiles, dir = InitDir,
         NEW f \in Frames, LeadReads(f),
         NEW s0 \in SweepInfo, s0.file = sweep[f].file, s0.stamp = sweep[f].stamp,
         NEW action, NEW version \in Int, NEW replot, NEW rescan,
         replot \/ action \in {TIME_AFTER, TIME_BEFORE},
         NEW ahead, ahead <=> (~replot /\ action = TIME_AFTER),
         NEW nab, nab = NabNextFile(f, s0, action, version, replot, rescan)
  PROVE  /\ NabbedAhead(f, ahead, nab)
         /\ NabbedFrom(name[f], io[f].swp_index, action, version, replot, nab)
<1> DEFINE reread == \/ rescan \/ urgent[f] \/ s0.changed
                     \/ replot /\ version = LATEST_VERSION /\ file_modified[f]
           c0     == IF reread THEN Listing(dir) ELSE cat[f]
           nsw    == NSweeps(io[f].vol)
           cur    == io[f].swp_index
           stepTo == IF nsw > 1 THEN StepWithin(action, cur, nsw) ELSE {}
           within == stepTo # {}
           found  == Search(c0, s0.stamp, action, SearchVersion(version))
           s1     == IF within \/ found = {} THEN [s0 EXCEPT !.changed = FALSE]
                     ELSE LET e == c0[CHOOSE i \in found : TRUE]
                          IN  [s0 EXCEPT !.file = e.file, !.stamp = e.stamp,
                                         !.changed = FALSE]
           same   == ~within /\ ~replot /\ s1.stamp = s0.stamp
           r      == Request(f, stepTo)
           read   == HeaderRead(io[f], s1.file, r, disk)
<1>1. nab = IF same
            THEN [ok |-> FALSE, cat |-> c0, sweep |-> s1,
                  name |-> name[f], req |-> req[f], io |-> io[f]]
            ELSE [ok |-> TRUE, cat |-> c0, sweep |-> s1, name |-> s1.file, req |-> r,
                  io |-> RayRead(read)]
  BY DEF NabNextFile
<1>2. c0 = Listing(InitDir)
  BY DEF LeadReads
<1> HIDE DEF c0
<1>3. PICK c \in Seq(Entry) : c = Listing(InitDir)
  BY ListedOfRecord
<1>4. \A i \in DOMAIN c : OfRecord(c[i].file) /\ c[i].stamp = c[i].file[1]
  BY <1>3, ListedOfRecord
<1>5. s0.stamp \in Int /\ SearchVersion(version) \in Int
  BY RadarIOAssumption DEF SweepInfo, Times, SearchVersion, LatestVersion
<1>6. found \subseteq DOMAIN c /\ found = Search(c, s0.stamp, action, SearchVersion(version))
  BY <1>2, <1>3, <1>5, SearchFinds
<1>7. OfRecord(s0.file) /\ s0.stamp = s0.file[1] /\ s0.file = name[f]
  BY DEF LeadReads
<1>8. \/ s1.file = s0.file /\ s1.stamp = s0.stamp /\ (within \/ found = {})
      \/ /\ ~within /\ found # {} /\ s1.file = c[CHOOSE i \in found : TRUE].file
         /\ \E i \in found : s1.file = c[i].file /\ s1.stamp = c[i].stamp
  <2>1. PICK t : t = [s0 EXCEPT !.changed = FALSE]
    OBVIOUS
  <2>2. t.file = s0.file /\ t.stamp = s0.stamp
    BY <2>1 DEF SweepInfo
  <2>3. ASSUME ~within, found # {}
        PROVE  /\ s1.file = c[CHOOSE i \in found : TRUE].file
               /\ \E i \in found : s1.file = c[i].file /\ s1.stamp = c[i].stamp
    <3>1. PICK i \in found : i = CHOOSE j \in found : TRUE
      BY <2>3
    <3>2. PICK a, b : a = c[i].file /\ b = c[i].stamp
      OBVIOUS
    <3> HIDE DEF found, within
    <3>3. s1 = [s0 EXCEPT !.file = a, !.stamp = b, !.changed = FALSE]
      BY <1>2, <1>3, <2>3, <3>1, <3>2
    <3>4. s1.file = a /\ s1.stamp = b
      <4> HIDE DEF s1
      <4>1. QED
        BY <3>3 DEF SweepInfo
    <3>5. QED
      BY <3>1, <3>2, <3>4
  <2> HIDE DEF found, within
  <2>4. QED
    BY <2>1, <2>2, <2>3
<1>9. OfRecord(s1.file) /\ s1.stamp = s1.file[1]
  <2> HIDE DEF s1, found, within
  <2>1. QED
    BY <1>4, <1>6, <1>7, <1>8
<1>10. same => s1.file = s0.file
  <2>1. ASSUME same, NEW i \in found, s1.stamp = c[i].stamp
        PROVE  FALSE
    <3> HIDE DEF s1, within
    <3>1. action \in {TIME_AFTER, TIME_BEFORE} /\ s1.stamp = s0.stamp
      BY <2>1
    <3>2. QED
      BY <1>5, <1>6, <2>1, <3>1, SearchMoves
  <2> HIDE DEF s1, found, within
  <2>2. QED
    BY <1>8, <2>1
<1>11. HeldOK(io[f]) /\ f \in Windows
  BY DEF ViewOK, Windows
<1>12. PICK p0, k0, to : p0 = name[f] /\ k0 = cur /\ to = FileReached(p0, k0, action, version)
  OBVIOUS
<1>13. stepTo = Onward(p0, k0, action)
  BY <1>12 DEF Onward, LeadReads
<1>14. s1.file = to
  <2>1. found = Search(Listing(InitDir), p0[1], action, SearchVersion(version))
    <3> HIDE DEF found
    <3>1. QED
      BY <1>3, <1>6, <1>7, <1>12
  <2> HIDE DEF s1, found, stepTo
  <2>2. to = IF stepTo # {} \/ found = {} THEN p0 ELSE c[CHOOSE i \in found : TRUE].file
    BY <1>3, <1>12, <1>13, <2>1 DEF FileReached
  <2>3. QED
    BY <1>7, <1>8, <1>12, <2>2
<1>15. same <=> (Onward(p0, k0, action) = {} /\ ~replot /\ to[1] = p0[1])
  <2> HIDE DEF s1, stepTo
  <2>1. QED
    BY <1>7, <1>9, <1>12, <1>13, <1>14
<1>16. CASE same
  <2>1. /\ nab.ok = FALSE /\ nab.cat = c0 /\ nab.sweep = s1 /\ nab.name = name[f]
        /\ nab.io = io[f]
    <3>1. PICK n, m, h : n = name[f] /\ m = req[f] /\ h = io[f]
      OBVIOUS
    <3> HIDE DEF s1, same, r, read
    <3>2. nab = [ok |-> FALSE, cat |-> c0, sweep |-> s1, name |-> n, req |-> m, io |-> h]
      BY <1>1, <1>16, <3>1
    <3>3. QED
      BY <3>1, <3>2
  <2> HIDE DEF s1, same, stepTo, cur
  <2>2. NabbedAhead(f, ahead, nab)
    BY <1>2, <1>7, <1>9, <1>10, <1>16, <2>1 DEF NabbedAhead, LeadReads
  <2>3. nab.name = to /\ nab.io.swp_index = io[f].swp_index /\ ~nab.ok
    BY <1>7, <1>10, <1>16, <1>14, <2>1
  <2>4. NabbedFrom(p0, io[f].swp_index, action, version, replot, nab)
    BY <1>16, <1>12, <1>15, <2>3 DEF NabbedFrom, cur
  <2>5. QED
    BY <1>12, <2>2, <2>4
<1>17. CASE ~same
  <2>1. PICK p, h, q : p = s1.file /\ h = read /\ q = r
    OBVIOUS
  <2>2. /\ nab.ok = TRUE /\ nab.cat = c0 /\ nab.sweep = s1 /\ nab.name = p
        /\ nab.io = RayRead(h)
    <3> HIDE DEF s1, same, r, read
    <3>1. QED
      BY <1>1, <1>17, <2>1
  <2>3. OfRecord(p) /\ s1.stamp = p[1]
    <3> HIDE DEF s1
    <3>1. QED
      BY <1>9, <2>1
  <2>4. h = HeaderRead(io[f], p, q, InitFiles)
    <3> HIDE DEF s1, r
    <3>1. QED
      BY <2>1
  <2>5. /\ IsState(h) /\ h.vol = VolumeRead(io[f], p, InitFiles)
        /\ h.vol # NoVolume => h.swp_index = Clamp(q, h.vol) /\ h.path = p
    BY <1>11, <2>4, HeaderReadVolume DEF HeldOK
  <2>6. h.vol = InitFiles[p] /\ h.vol # NoVolume /\ h.path = p
    BY <2>3, <2>5 DEF VolumeRead, LeadReads, OfRecord
  <2>7. /\ RayRead(h).swp_index = h.swp_index /\ RayRead(h).vol = h.vol
        /\ RayRead(h).path = h.path
    <3>1. PICK k : k = h.cursor + 1
      OBVIOUS
    <3>2. RayRead(h) = [h EXCEPT !.cursor = k]
      BY <3>1 DEF RayRead
    <3>3. QED
      BY <2>5, <3>2, CursorSet
  <2>8. ASSUME ahead
        PROVE  StepsAhead(f, nab)
    <3>1. action = TIME_AFTER /\ ~replot
      BY <2>8
    <3>2. PICK n, k : n = nsw /\ k = cur
      OBVIOUS
    <3>3. n = NSweeps(InitFiles[name[f]]) /\ io[f].vol # NoVolume
      BY <3>2 DEF LeadReads, OfRecord
    <3>4. n \in Nat /\ k \in Nat /\ k < n
      <4>1. io[f].vol \in Seq(AnyRay) /\ k \in Nat /\ k < n
        BY <1>11, <3>2, <3>3, HeldSweep
      <4>2. QED
        BY <3>2, <4>1, StartsOfVolume
    <3>5. stepTo = IF k + 1 < n THEN {k + 1} ELSE {}
      <4>1. stepTo = IF n > 1 THEN StepWithin(action, k, n) ELSE {}
        BY <3>2
      <4>2. StepWithin(action, k, n) = IF k < n - 1 THEN {k + 1} ELSE {}
        <5>1. action = FORWARD /\ action # BACKWARD
          BY <3>1 DEF TIME_AFTER, FORWARD, BACKWARD
        <5>2. QED
          BY <5>1 DEF StepWithin
      <4> HIDE DEF stepTo
      <4>3. QED
        BY <3>4, <4>1, <4>2
    <3> HIDE DEF stepTo
    <3>6. CASE k + 1 < n
      <4>1. stepTo = {k + 1} /\ within
        BY <3>5, <3>6
      <4>2. q = k + 1
        <5>1. PICK x : x \in stepTo /\ x = CHOOSE y \in stepTo : TRUE
          BY <4>1
        <5>2. x = k + 1 /\ q = x
          BY <2>1, <4>1, <5>1 DEF Request
        <5>3. QED
          BY <5>2
      <4>3. p = name[f]
        <5> HIDE DEF s1, within, found
        <5>1. QED
          BY <1>7, <1>8, <2>1, <4>1
      <4>4. h.swp_index = k + 1
        <5>1. NSweeps(h.vol) = n
          BY <2>6, <3>3, <4>3
        <5>2. QED
          BY <2>5, <2>6, <3>4, <3>6, <4>2, <5>1 DEF Clamp
      <4>5. QED
        BY <2>2, <2>7, <3>2, <3>3, <3>6, <4>3, <4>4 DEF StepsAhead
    <3>7. CASE ~(k + 1 < n)
      <4>1. stepTo = {} /\ ~within
        BY <3>5, <3>7
      <4>2. s1.stamp # s0.stamp
        BY <1>17, <3>1, <4>1
      <4>3. PICK i \in found : s1.file = c[i].file /\ s1.stamp = c[i].stamp
        <5> HIDE DEF s1, within, found
        <5>1. QED
          BY <1>8, <4>1, <4>2
      <4>4. c[i].stamp > s0.stamp /\ \A t \in Stamps(c) : t > s0.stamp => c[i].stamp <= t
        BY <1>5, <1>6, <3>1, SearchAhead
      <4>5. p[1] = c[i].stamp /\ s0.stamp = name[f][1]
        <5> HIDE DEF s1
        <5>1. QED
          BY <1>7, <2>3, <4>3
      <4>6. \A x : OfRecord(x) => x[1] \in Stamps(c)
        BY <1>3, ListedOfRecord
      <4>7. q = 0 /\ h.swp_index = 0
        <5>1. q = 0
          BY <2>1, <4>1 DEF Request
        <5>2. InitFiles[p] \in Volumes /\ InitFiles[p] # NoVolume
          BY <2>3, StartTimes
        <5>3. NSweeps(h.vol) \in Nat
          BY <2>6, <5>2, StartsOfVolume DEF Volumes
        <5>4. Clamp(0, h.vol) = 0
          BY <5>3 DEF Clamp
        <5>5. QED
          BY <2>5, <2>6, <5>1, <5>4
      <4> HIDE DEF s1
      <4>8. \A x : OfRecord(x) /\ x[1] > name[f][1] => p[1] <= x[1]
        BY <4>4, <4>5, <4>6
      <4>9. QED
        BY <2>2, <2>7, <3>2, <3>3, <3>7, <4>4, <4>5, <4>7, <4>8 DEF StepsAhead
    <3>8. QED
      BY <3>6, <3>7
  <2>9. NabbedAhead(f, ahead, nab)
    <3> HIDE DEF s1
    <3>1. QED
      BY <1>2, <2>1, <2>2, <2>3, <2>6, <2>7, <2>8 DEF NabbedAhead
  <2>10. nab.name = to /\ nab.ok /\ nab.io.swp_index = Clamp(q, InitFiles[to])
    <3> HIDE DEF s1
    <3>1. QED
      BY <1>14, <2>1, <2>2, <2>5, <2>6, <2>7
  <2>11. q = IF Onward(p0, k0, action) # {} THEN CHOOSE j \in Onward(p0, k0, action) : TRUE ELSE 0
    <3> HIDE DEF stepTo
    <3>1. QED
      BY <1>13, <2>1 DEF Request
  <2>12. NabbedFrom(p0, k0, action, version, replot, nab)
    <3> HIDE DEF same
    <3>1. QED
      BY <1>17, <1>12, <1>15, <2>10, <2>11 DEF NabbedFrom
  <2>13. QED
    BY <1>12, <2>9, <2>12
<1>18. QED
  BY <1>16, <1>17

----------------------------------------------------------------------------
(* Every frame shows the sweep its lead has; the leads of frames in        *)
(* lockstep have the same.                                                 *)
FramesRead ==
  \A f \in Frames :
    /\ LeadReads(Lead(f)) /\ screen[f] = SelectedRays(io[Lead(f)])
    /\ \A g \in Lock[f] : /\ name[Lead(g)] = name[Lead(f)]
                         /\ io[Lead(g)].swp_index = io[Lead(f)].swp_index

(* Until the first Do It nothing has changed but what the frames show.     *)
AsRecorded ==
  /\ se.count \in Nat
  /\ se.count = 0 => /\ Idle /\ disk = InitFiles /\ dir = InitDir /\ undo = << >>
                     /\ ViewOK /\ NamesOK /\ FilesOK /\ FramesRead

LEMMA FirstSelected ==
  ASSUME NEW st, HeldOK(st), st.vol # NoVolume
  PROVE  SelectedRays(st)[1] = st.vol[SweepStart(st.vol, st.swp_index)]
<1>1. PICK v, a, n : v = st.vol /\ a = st.start /\ n = st.nrays
  OBVIOUS
<1>2. /\ v \in Seq(AnyRay) /\ a \in Nat \ {0} /\ n \in Nat \ {0} /\ a + n - 1 \in 1 .. Len(v)
      /\ a = SweepStart(v, st.swp_index)
  BY <1>1, HeldSweep DEF HeldOK
<1>3. SelectedRays(st) = SubSeq(v, a, a + n - 1)
  BY <1>1 DEF SelectedRays
<1>4. SubSeq(v, a, a + n - 1)[1] = v[a]
  <2>1. PICK b : b = a + n - 1
    OBVIOUS
  <2>2. b \in 1 .. Len(v) /\ a \in 1 .. Len(v) /\ a <= b /\ Len(v) \in Nat
    BY <1>2, <2>1, LenProperties
  <2>3. SubSeq(v, a, b)[1] = v[a]
    BY <1>2, <2>2, SMT
  <2>4. QED
    BY <2>1, <2>3
<1>5. QED
  BY <1>1, <1>2, <1>3, <1>4

(* A step ahead from what is shown is to the next sweep in time.           *)
LEMMA AheadIsNext ==
  ASSUME RecordedWhole, FilesApart, disk = InitFiles, ViewOK,
         NEW l \in Frames, LeadReads(l),
         NEW ahead, ahead, NEW nab, NabbedAhead(l, ahead, nab), nab.ok = TRUE, HeldOK(nab.io),
         NEW now, now = SelectedRays(io[l])[1].time,
         NEW then, then = SelectedRays(nab.io)[1].time
  PROVE  Later(now) # {} /\ then = Min(Later(now))
<1>1. PICK p, q, k, j : p = name[l] /\ q = nab.name /\ k = io[l].swp_index /\ j = nab.io.swp_index
  OBVIOUS
<1>2. PICK v, w : v = InitFiles[p] /\ w = InitFiles[q]
  OBVIOUS
<1>3. /\ OfRecord(p) /\ io[l].vol = v /\ OfRecord(q) /\ nab.io.vol = w
      /\ v # NoVolume /\ w # NoVolume
  BY <1>1, <1>2 DEF LeadReads, NabbedAhead, OfRecord
<1>4. HeldOK(io[l])
  BY DEF ViewOK, Windows
<1>5. now = v[SweepStart(v, k)].time /\ then = w[SweepStart(w, j)].time
  BY <1>1, <1>3, <1>4, FirstSelected
<1>6. k \in Nat /\ k < NSweeps(v)
  BY <1>1, <1>3, <1>4, HeldSweep
<1>7. StepsAhead(l, nab)
  BY DEF NabbedAhead
<1>8. CASE k + 1 < NSweeps(v)
  <2>1. q = p /\ j = k + 1
    BY <1>1, <1>2, <1>7, <1>8 DEF StepsAhead
  <2>2. w = v
    BY <1>2, <2>1
  <2>3. QED
    BY <1>2, <1>3, <1>5, <1>6, <1>8, <2>1, <2>2, NextWithin
<1>9. CASE ~(k + 1 < NSweeps(v))
  <2>1. q[1] > p[1] /\ (\A r : OfRecord(r) /\ r[1] > p[1] => q[1] <= r[1]) /\ j = 0
    BY <1>1, <1>2, <1>7, <1>9 DEF StepsAhead
  <2>2. QED
    BY <1>2, <1>3, <1>5, <1>6, <1>9, <2>1, NextFile
<1>10. QED
  BY <1>8, <1>9

LEMMA PlotAhead ==
  ASSUME RecordedWhole, FilesApart, ReplottedTogether, disk = InitFiles, dir = InitDir,
         ViewOK, NamesOK, FilesOK, FramesRead, NEW f \in Frames,
         NEW command \in {REPLOT_LOCK_STEP, REPLOT_THIS_FRAME, FORWARD_ONCE, BACKWARDS_ONCE},
         command \in PlotCommands \/ command # REPLOT_THIS_FRAME,
         NEW rescan, Plot(f, command, rescan),
         NEW now, now = screen[f][1].time
  PROVE  /\ FramesRead'
         /\ command = FORWARD_ONCE /\ screen'[f] # screen[f] =>
              Later(now) # {} /\ screen'[f][1].time = Min(Later(now))
<1>1. CASE halt
  BY <1>1 DEF Plot, frameVars, FramesRead, LeadReads
<1>2. CASE ~halt
  <2> DEFINE replot  == command \in {REPLOT_LOCK_STEP, REPLOT_THIS_FRAME}
             action  == CASE replot -> TIME_NEAREST
                          [] command = FORWARD_ONCE -> TIME_AFTER
                          [] command = BACKWARDS_ONCE -> TIME_BEFORE
             version == IF replot THEN sweep[f].version ELSE LATEST_VERSION
             info    == [sweep EXCEPT ![f].version = version]
             plotted == IF command = REPLOT_THIS_FRAME THEN {f} ELSE Lock[f]
             leads   == {Lead(g) : g \in plotted}
             Nab(l)  == NabNextFile(l, info[l], action, version, replot, l \in rescan)
             nab     == [l \in leads |-> Nab(l)]
             drawn   == \A l \in leads : nab[l].ok
  <2>1. /\ io' = [w \in Windows |->
                    IF w \in leads
                    THEN IF drawn THEN [nab[w].io EXCEPT !.cursor = nab[w].io.nrays]
                         ELSE nab[w].io
                    ELSE io[w]]
        /\ name' = [g \in Frames |-> IF g \in leads THEN nab[g].name ELSE name[g]]
        /\ cat' = [g \in Frames |-> IF g \in leads THEN nab[g].cat ELSE cat[g]]
        /\ sweep' = [g \in Frames |->
                       IF g \in leads THEN nab[g].sweep
                       ELSE IF g \in plotted
                            THEN [nab[Lead(g)].sweep EXCEPT !.changed = TRUE]
                            ELSE info[g]]
        /\ screen' = [g \in Frames |->
                        IF g \in plotted /\ drawn
                        THEN SelectedRays(nab[Lead(g)].io) ELSE screen[g]]
        /\ file_modified' = file_modified
    BY <1>2 DEF Plot
  <2>2. PICK l \in Frames : l = Lead(f)
    BY LeadsLed
  <2>3. plotted = Lock[f] /\ Lock[f] \subseteq Frames /\ f \in Lock[f]
    <3>1. Lock[f] \subseteq Frames /\ f \in Lock[f]
      BY SessionAssumption
    <3>2. command = REPLOT_THIS_FRAME => Lock[f] = {f}
      BY DEF ReplottedTogether
    <3>3. QED
      BY <3>1, <3>2
  <2>4. \A g \in Lock[f] : Lead(g) \in leads
    <3> HIDE DEF plotted
    <3>1. QED
      BY <2>3
  <2>5. \A m \in leads : m \in Frames /\ m \in Lock[f] /\ Lead(m) = m
    <3> HIDE DEF plotted
    <3>1. ASSUME NEW g \in Lock[f]
          PROVE  Lead(g) \in Frames /\ Lead(g) \in Lock[f] /\ Lead(Lead(g)) = Lead(g)
      BY LeadsLed
    <3>2. QED
      BY <2>3, <3>1
  <2>6. \A g \in Frames : g \notin Lock[f] => Lead(g) \notin Lock[f]
    <3>1. ASSUME NEW g \in Frames, Lead(g) \in Lock[f]
          PROVE  g \in Lock[f]
      <4>1. PICK m : m = Lead(g) /\ m \in Lock[f] /\ m \in Lock[g] /\ g \in Lock[g]
        BY <3>1, LeadIsFrame, SessionAssumption
      <4>2. Lock[m] = Lock[g] /\ Lock[m] = Lock[f]
        BY <4>1, SessionAssumption
      <4>3. QED
        BY <4>1, <4>2
    <3>2. QED
      BY <3>1
  <2>7. /\ replot \/ action \in {TIME_AFTER, TIME_BEFORE}
        /\ command = FORWARD_ONCE <=> (~replot /\ action = TIME_AFTER)
    <3>1. /\ FORWARD_ONCE # BACKWARDS_ONCE /\ TIME_AFTER # TIME_BEFORE
          /\ FORWARD_ONCE \notin {REPLOT_LOCK_STEP, REPLOT_THIS_FRAME}
      BY DEF FORWARD_ONCE, BACKWARDS_ONCE, REPLOT_LOCK_STEP, REPLOT_THIS_FRAME,
             TIME_AFTER, TIME_BEFORE
    <3>2. command = FORWARD_ONCE => ~replot
      BY <3>1
    <3>3. ~replot => command = FORWARD_ONCE \/ command = BACKWARDS_ONCE
      OBVIOUS
    <3> HIDE DEF replot
    <3>4. ~replot /\ command = FORWARD_ONCE => action = TIME_AFTER
      BY <3>1, Zenon
    <3>5. ~replot /\ command = BACKWARDS_ONCE => action = TIME_BEFORE
      BY <3>1, Zenon
    <3> HIDE DEF action
    <3>6. QED
      BY <3>1, <3>2, <3>3, <3>4, <3>5
  <2>8. version \in Int
    BY DEF ViewOK, SweepInfo, LATEST_VERSION
  <2>9. ASSUME NEW g \in Frames
        PROVE  /\ info[g] \in SweepInfo /\ info[g].file = sweep[g].file
               /\ info[g].stamp = sweep[g].stamp
    <3>1. PICK v : v = version
      OBVIOUS
    <3>2. info[g] = IF g = f THEN [sweep[g] EXCEPT !.version = v] ELSE sweep[g]
      <4> HIDE DEF version
      <4>1. QED
        BY <3>1 DEF ViewOK
    <3>3. sweep[g] \in SweepInfo /\ v \in Int
      BY <2>8, <3>1 DEF ViewOK
    <3>4. PICK s : s = [sweep[g] EXCEPT !.version = v]
      OBVIOUS
    <3>5. s \in SweepInfo /\ s.file = sweep[g].file /\ s.stamp = sweep[g].stamp
      BY <3>3, <3>4 DEF SweepInfo
    <3> HIDE DEF info
    <3>6. QED
      BY <3>2, <3>3, <3>4, <3>5
  <2>10. PICK ahead, p, k : /\ ahead = (command = FORWARD_ONCE)
                           /\ p = name[l] /\ k = io[l].swp_index
    OBVIOUS
  <2> HIDE DEF info, version, action, replot
  <2>11. PICK n : n = Nab(l)
    OBVIOUS
  <2>12. ASSUME NEW m \in leads
         PROVE  /\ LeadReads(m) /\ NabbedAhead(m, ahead, nab[m]) /\ HeldOK(nab[m].io)
                /\ NabbedFrom(p, k, action, version, replot, nab[m])
    <3>1. PICK s0, b, o : s0 = info[m] /\ b = (m \in rescan) /\ o = Nab(m)
      OBVIOUS
    <3>2. m \in Frames /\ m \in Lock[f] /\ Lead(m) = m
      BY <2>5
    <3>3. LeadReads(m) /\ name[m] = p /\ io[m].swp_index = k
      BY <2>2, <2>10, <3>2 DEF FramesRead
    <3>4. s0 \in SweepInfo /\ s0.file = sweep[m].file /\ s0.stamp = sweep[m].stamp
      BY <2>9, <3>1, <3>2
    <3>5. o = NabNextFile(m, s0, action, version, replot, b)
      BY <3>1
    <3>6. ahead <=> (~replot /\ action = TIME_AFTER)
      BY <2>7, <2>10
    <3>7. /\ NabbedAhead(m, ahead, o)
          /\ NabbedFrom(name[m], io[m].swp_index, action, version, replot, o)
      BY <2>7, <2>8, <3>2, <3>3, <3>4, <3>5, <3>6, NabReading
    <3>8. HeldOK(o.io)
      BY <2>8, <3>2, <3>4, <3>5, NabOK
    <3>9. nab[m] = o
      BY <3>1
    <3> HIDE DEF nab, leads
    <3>10. QED
      BY <3>3, <3>7, <3>8, <3>9
  <2>13. l \in leads /\ nab[l] = n
    <3>1. l \in leads
      <4> HIDE DEF leads
      <4>1. QED
        BY <2>2, <2>3, <2>4
    <3>2. QED
      BY <2>11, <3>1
  <2> HIDE DEF nab, leads, plotted
  <2>14. \A m \in leads : /\ nab[m].name = n.name /\ (nab[m].ok <=> n.ok)
                         /\ nab[m].io.swp_index = n.io.swp_index
    BY <2>12, <2>13 DEF NabbedFrom
  <2>15. drawn <=> n.ok
    BY <2>13, <2>14
  <2> HIDE DEF drawn
  <2>16. PICK sw, nm, ct, rd, sc :
           sw = sweep' /\ nm = name' /\ ct = cat' /\ rd = io' /\ sc = screen'
    OBVIOUS
  <2>17. ASSUME NEW m \in leads
         PROVE  /\ sw[m] = nab[m].sweep /\ nm[m] = nab[m].name /\ ct[m] = nab[m].cat
                /\ rd[m].vol = nab[m].io.vol /\ rd[m].path = nab[m].io.path
                /\ rd[m].swp_index = nab[m].io.swp_index
                /\ SelectedRays(rd[m]) = SelectedRays(nab[m].io)
    <3>1. m \in Frames /\ m \in Windows
      BY <2>5 DEF Windows
    <3>2. sw[m] = nab[m].sweep /\ nm[m] = nab[m].name /\ ct[m] = nab[m].cat
      BY <2>1, <2>16, <3>1
    <3>3. PICK t, c : t = nab[m].io /\ c = nab[m].io.nrays
      OBVIOUS
    <3>4. rd[m] = t \/ rd[m] = [t EXCEPT !.cursor = c]
      BY <2>1, <2>16, <3>1, <3>3
    <3>5. IsState(t)
      BY <2>12, <3>3 DEF HeldOK
    <3>6. /\ rd[m].vol = t.vol /\ rd[m].path = t.path /\ rd[m].swp_index = t.swp_index
          /\ rd[m].start = t.start /\ rd[m].nrays = t.nrays
      BY <3>4, <3>5, CursorSet
    <3>7. SelectedRays(rd[m]) = SelectedRays(t)
      BY <3>6 DEF SelectedRays
    <3>8. QED
      BY <3>2, <3>3, <3>6, <3>7
  <2>18. ASSUME NEW g \in Lock[f], NEW m, m = Lead(g)
         PROVE  /\ m \in leads /\ sc[g] = SelectedRays(nab[m].io)
                /\ (sc[g] # screen[g] => n.ok)
    <3>1. g \in Frames /\ m \in leads /\ g \in plotted
      BY <2>3, <2>4, <2>18
    <3>2. CASE n.ok
      BY <2>1, <2>15, <2>16, <2>18, <3>1, <3>2
    <3>3. CASE ~n.ok
      <4>1. sc[g] = screen[g]
        BY <2>1, <2>15, <2>16, <3>1, <3>3
      <4>2. nab[m].io = io[m]
        BY <2>12, <2>14, <3>1, <3>3 DEF NabbedAhead
      <4>3. screen[g] = SelectedRays(io[m])
        BY <2>18, <3>1 DEF FramesRead
      <4>4. QED
        BY <3>1, <4>1, <4>2, <4>3
    <3>4. QED
      BY <3>2, <3>3
  <2>19. ASSUME NEW g \in Frames, g \notin Lock[f], NEW m, m = Lead(g)
         PROVE  /\ nm[m] = name[m] /\ ct[m] = cat[m] /\ rd[m] = io[m]
                /\ sw[m].file = sweep[m].file /\ sw[m].stamp = sweep[m].stamp
                /\ sc[g] = screen[g]
    <3>1. m \in Frames /\ m \in Windows /\ m \notin leads /\ m \notin plotted /\ g \notin plotted
      BY <2>3, <2>5, <2>6, <2>19, LeadIsFrame DEF Windows
    <3>2. nm[m] = name[m] /\ ct[m] = cat[m] /\ rd[m] = io[m] /\ sw[m] = info[m] /\ sc[g] = screen[g]
      BY <2>1, <2>16, <3>1
    <3>3. QED
      BY <2>9, <3>1, <3>2
  <2>20. ASSUME NEW g \in Frames, NEW m, m = Lead(g)
         PROVE  /\ file_modified[m] = FALSE
                /\ OfRecord(nm[m]) /\ sw[m].file = nm[m] /\ sw[m].stamp = nm[m][1]
                /\ ct[m] = Listing(InitDir)
                /\ rd[m].path = nm[m] /\ rd[m].vol = InitFiles[nm[m]]
                /\ sc[g] = SelectedRays(rd[m])
    <3>1. CASE g \in Lock[f]
      <4>1. m \in leads /\ sc[g] = SelectedRays(nab[m].io)
        BY <2>18, <2>20, <3>1
      <4>2. PICK o : o = nab[m]
        OBVIOUS
      <4>3. /\ OfRecord(o.name) /\ o.sweep.file = o.name /\ o.sweep.stamp = o.name[1]
            /\ o.cat = Listing(InitDir) /\ o.io.path = o.name /\ o.io.vol = InitFiles[o.name]
        BY <2>12, <4>1, <4>2 DEF NabbedAhead
      <4>4. file_modified[m] = FALSE
        BY <2>12, <4>1 DEF LeadReads
      <4>5. QED
        BY <2>17, <4>1, <4>2, <4>3, <4>4
    <3>2. CASE g \notin Lock[f]
      <4>1. LeadReads(m) /\ screen[g] = SelectedRays(io[m])
        BY <2>20 DEF FramesRead
      <4>2. QED
        BY <2>19, <2>20, <3>2, <4>1 DEF LeadReads
    <3>3. QED
      BY <3>1, <3>2
  <2>21. ASSUME NEW g \in Frames, NEW h \in Lock[g], NEW m, NEW o, m = Lead(g), o = Lead(h)
         PROVE  nm[o] = nm[m] /\ rd[o].swp_index = rd[m].swp_index
    <3>1. h \in Frames /\ Lock[h] = Lock[g] /\ g \in Lock[g] /\ h \in Lock[h]
      BY SessionAssumption
    <3>2. CASE g \in Lock[f]
      <4>1. h \in Lock[f]
        BY <3>1, <3>2, SessionAssumption
      <4>2. m \in leads /\ o \in leads
        BY <2>4, <2>21, <3>2, <4>1
      <4>3. QED
        BY <2>14, <2>17, <4>2
    <3>3. CASE g \notin Lock[f]
      <4>1. h \notin Lock[f]
        BY <3>1, <3>3, SessionAssumption
      <4>2. name[o] = name[m] /\ io[o].swp_index = io[m].swp_index
        BY <2>21 DEF FramesRead
      <4>3. QED
        BY <2>19, <2>21, <3>1, <3>3, <4>1, <4>2
    <3>4. QED
      BY <3>2, <3>3
  <2>22. FramesRead'
    <3>1. PICK fm : fm = file_modified
      OBVIOUS
    <3>2. file_modified' = fm
      BY <2>1, <3>1
    <3>3. \A g \in Frames :
            /\ fm[Lead(g)] = FALSE
            /\ OfRecord(nm[Lead(g)]) /\ sw[Lead(g)].file = nm[Lead(g)]
            /\ sw[Lead(g)].stamp = nm[Lead(g)][1] /\ ct[Lead(g)] = Listing(InitDir)
            /\ rd[Lead(g)].path = nm[Lead(g)] /\ rd[Lead(g)].vol = InitFiles[nm[Lead(g)]]
            /\ sc[g] = SelectedRays(rd[Lead(g)])
      BY <2>20, <3>1
    <3>4. \A g \in Frames : \A h \in Lock[g] :
            /\ nm[Lead(h)] = nm[Lead(g)] /\ rd[Lead(h)].swp_index = rd[Lead(g)].swp_index
      BY <2>21
    <3>5. QED
      BY <2>16, <3>2, <3>3, <3>4, Zenon DEF FramesRead, LeadReads
  <2>23. ASSUME command = FORWARD_ONCE, screen'[f] # screen[f]
         PROVE  Later(now) # {} /\ screen'[f][1].time = Min(Later(now))
    <3>1. sc[f] = SelectedRays(n.io) /\ n.ok
      BY <2>2, <2>3, <2>13, <2>16, <2>18, <2>23
    <3>2. LeadReads(l) /\ NabbedAhead(l, ahead, n) /\ HeldOK(n.io)
      BY <2>12, <2>13
    <3>3. n.ok = TRUE
      <4>1. n.ok = TRUE \/ n.ok = FALSE
        BY <3>2 DEF NabbedAhead
      <4>2. QED
        BY <3>1, <4>1
    <3>4. PICK then : then = SelectedRays(n.io)[1].time
      OBVIOUS
    <3>5. now = SelectedRays(io[l])[1].time
      BY <2>2 DEF FramesRead
    <3>6. ahead
      BY <2>10, <2>23
    <3>7. Later(now) # {} /\ then = Min(Later(now))
      BY <3>2, <3>3, <3>4, <3>5, <3>6, AheadIsNext, ZenonT(60)
    <3>8. QED
      BY <2>16, <3>1, <3>4, <3>7
  <2>24. QED
    BY <2>22, <2>23
<1>3. QED
  BY <1>1, <1>2

LEMMA ClickKeeps ==
  ASSUME ViewOK, Shape, FramesRead, NEW f \in Frames, Click(f)
  PROVE  FramesRead'
<1>1. PICK l \in Frames : l = Lead(f) /\ l \in Windows
  BY LeadIsFrame DEF Windows
<1>2. ~file_modified[l]
  BY <1>1 DEF FramesRead, LeadReads
<1>3. UNCHANGED <<name, cat, sweep, file_modified, screen>>
  BY <1>1, <1>2 DEF Click
<1>4. PICK at : at = SeekRay(io[l], io[l].nrays - 1)
  OBVIOUS
<1>5. PICK t : t = IF HasRay(at) THEN RayRead(at) ELSE at
  OBVIOUS
<1>6. io' = [io EXCEPT ![l] = t]
  BY <1>1, <1>2, <1>4, <1>5 DEF Click
<1>7. /\ t.vol = io[l].vol /\ t.path = io[l].path /\ t.swp_index = io[l].swp_index
      /\ SelectedRays(t) = SelectedRays(io[l])
  <2>1. IsState(io[l])
    BY <1>1 DEF Shape
  <2>2. PICK c : at = [io[l] EXCEPT !.cursor = c]
    BY <1>4 DEF SeekRay
  <2>3. /\ IsState(at) /\ at.vol = io[l].vol /\ at.path = io[l].path
        /\ at.start = io[l].start /\ at.nrays = io[l].nrays /\ at.swp_index = io[l].swp_index
    BY <2>1, <2>2, CursorSet
  <2>4. t = at \/ \E e : t = [at EXCEPT !.cursor = e]
    BY <1>5 DEF RayRead
  <2>5. /\ t.vol = io[l].vol /\ t.path = io[l].path
        /\ t.start = io[l].start /\ t.nrays = io[l].nrays /\ t.swp_index = io[l].swp_index
    BY <2>3, <2>4, CursorSet
  <2>6. QED
    BY <2>5 DEF SelectedRays
<1>8. PICK rd : rd = io'
  OBVIOUS
<1>9. ASSUME NEW m \in Frames
      PROVE  /\ rd[m].vol = io[m].vol /\ rd[m].path = io[m].path
             /\ rd[m].swp_index = io[m].swp_index
             /\ SelectedRays(rd[m]) = SelectedRays(io[m])
  <2>1. rd[m] = IF m = l THEN t ELSE io[m]
    BY <1>1, <1>6, <1>8 DEF Shape, Windows
  <2>2. QED
    BY <1>7, <2>1
<1>10. \A g \in Frames :
         /\ rd[Lead(g)].vol = io[Lead(g)].vol /\ rd[Lead(g)].path = io[Lead(g)].path
         /\ rd[Lead(g)].swp_index = io[Lead(g)].swp_index
         /\ SelectedRays(rd[Lead(g)]) = SelectedRays(io[Lead(g)])
  BY <1>9, LeadIsFrame
<1>11. \A g \in Frames : \A h \in Lock[g] :
         /\ name[Lead(h)] = name[Lead(g)]
         /\ rd[Lead(h)].swp_index = rd[Lead(g)].swp_index
  <2>1. \A g \in Frames : \A h \in Lock[g] : h \in Frames
    BY SessionAssumption
  <2>2. QED
    BY <1>10, <2>1 DEF FramesRead
<1>12. \A g \in Frames : /\ LeadReads(Lead(g))
                       /\ screen[g] = SelectedRays(rd[Lead(g)])
  BY <1>10 DEF FramesRead
<1>13. QED
  BY <1>3, <1>8, <1>10, <1>11, <1>12, ZenonT(60) DEF FramesRead, LeadReads

(* Only a Do It counts Do Its.                                             *)
LEMMA DoItsCounted ==
  Shape /\ se.count \in Nat /\ [Next]_vars =>
    se'.count \in Nat /\ (se'.count = 0 => se.count = 0)
<1> SUFFICES ASSUME Shape, se.count \in Nat, [Next]_vars
             PROVE  se'.count = se.count \/ se'.count = se.count + 1
  OBVIOUS
<1>1. Untouched \/ Looks => se' = se
  BY DEF Untouched, Looks
<1>2. ReplotReads \/ LoopEnds => se'.count = se.count
  <2>1. ASSUME NEW p, se' = [se EXCEPT !.pc = p]
        PROVE  se'.count = se.count
    BY <2>1 DEF Shape, IsEditor
  <2>2. QED
    BY <2>1 DEF ReplotReads, LoopEnds
<1>3. EndDoIt => se'.count = se.count
  BY DoItEnds
<1>4. (\E ok \in WriteResults : EditRay(ok)) => se'.count = se.count
  BY EditRayWrites
<1>5. (\E f \in Frames, command \in Commands, auto \in BOOLEAN : DoIt(f, command, auto)) =>
        se'.count = se.count + 1
  BY DoItStarts
<1>6. ASSUME NEW f \in Frames, Undo(f)
      PROVE  se'.count = se.count
  <2>1. PICK p : p = "replot"
    OBVIOUS
  <2>2. se' = [se EXCEPT !.pc = p, !.frame = f]
    BY <1>6, <2>1 DEF Undo
  <2>3. QED
    BY <2>2 DEF Shape, IsEditor
<1>7. QED
  BY <1>1, <1>2, <1>3, <1>4, <1>5, <1>6, Steps

LEMMA AsRecordedStep ==
  ASSUME RecordedWhole, FilesApart, ReplottedTogether, "select" \notin Gestures
  PROVE  Shape /\ AsRecorded /\ [Next]_vars => AsRecorded'
<1> SUFFICES ASSUME Shape, AsRecorded, [Next]_vars PROVE AsRecorded'
  OBVIOUS
<1>1. se.count \in Nat /\ se'.count \in Nat /\ (se'.count = 0 => se.count = 0)
  BY DoItsCounted DEF AsRecorded
<1> SUFFICES ASSUME se'.count = 0
             PROVE  /\ Idle' /\ disk' = InitFiles /\ dir' = InitDir /\ undo' = << >>
                    /\ ViewOK' /\ NamesOK' /\ FilesOK' /\ FramesRead'
  BY <1>1 DEF AsRecorded
<1>2. /\ se.count = 0 /\ Idle /\ disk = InitFiles /\ dir = InitDir /\ undo = << >>
      /\ FramesRead
  BY <1>1 DEF AsRecorded
<1>3. ViewOK /\ NamesOK /\ FilesOK
  BY <1>1 DEF AsRecorded
<1> DEFINE Kept == UNCHANGED <<disk, dir, wio, undo, se>> /\ ViewOK' /\ FramesRead'
<1> SUFFICES Kept
  BY <1>2, <1>3, FilesKept, NamesKept DEF Idle
<1>4. ASSUME UNCHANGED <<disk, dir, wio, undo, se, io, name, req, cat, sweep, file_modified,
                         screen>>
      PROVE  Kept
  BY <1>2, <1>3, <1>4, ViewKept DEF FramesRead, LeadReads
<1>5. CASE UNCHANGED vars
  BY <1>4, <1>5 DEF vars
<1>6. ~Processing /\ ~Replot
  BY <1>2 DEF Processing, EditRay, EndOfRays, EndDoIt, Replot, Idle
<1>7. CASE Escape
  BY <1>4, <1>7 DEF Escape, frameVars
<1>8. ASSUME NEW f \in Frames, NEW command \in PlotCommands, PlotFrames(f, command)
      PROVE  Kept
  <2>1. PICK rescan : Plot(f, command, rescan)
    BY <1>8 DEF PlotFrames
  <2>2. command \in {REPLOT_LOCK_STEP, REPLOT_THIS_FRAME, FORWARD_ONCE, BACKWARDS_ONCE}
    BY PlotAssumption
  <2>3. PICK now : now = screen[f][1].time
    OBVIOUS
  <2>4. ViewOK' /\ FramesRead'
    BY <1>2, <1>3, <2>1, <2>2, <2>3, PlotOK, PlotAhead
  <2>5. QED
    BY <1>8, <2>4 DEF PlotFrames
<1>9. ASSUME NEW f \in Frames, Click(f)
      PROVE  Kept
  BY <1>2, <1>3, <1>9, ClickOK, ClickKeeps DEF Click
<1>10. ASSUME NEW f \in Frames, ResetTimes(f) \/ FirstSweep(f) \/ LastSweep(f)
       PROVE  Kept
  BY <1>4, <1>10 DEF ResetTimes, FirstSweep, LastSweep
<1>11. ASSUME NEW f \in Frames, NEW command \in Commands, NEW auto \in BOOLEAN
       PROVE  ~DoIt(f, command, auto)
  BY <1>2, DoItStarts
<1>12. \A f \in Frames : ~Undo(f)
  BY <1>2 DEF Undo
<1>13. \A f \in Frames : \A k \in DOMAIN dir : ~SelectFile(f, k)
  BY DEF SelectFile
<1>14. QED
  BY <1>5, <1>6, <1>7, <1>8, <1>9, <1>10, <1>11, <1>12, <1>13 DEF Next, Gesture

LEMMA AsRecordedStart ==
  ASSUME RecordedWhole
  PROVE  Init => AsRecorded
<1> SUFFICES ASSUME Init PROVE AsRecorded
  OBVIOUS
<1>1. PICK p, st : StartsAt(p, st)
  BY FirstPlot
<1>2. /\ disk = InitFiles /\ dir = InitDir /\ undo = << >> /\ Idle
      /\ se.count = 0 /\ \A f \in Frames : file_modified[f] = FALSE
  BY DEF Init, EditorIdle, Idle
<1>3. PICK n : n = st.nrays
  OBVIOUS
<1>4. PICK t : t = [st EXCEPT !.cursor = n] /\ \A f \in Frames : io[Lead(f)] = t
  BY <1>1, <1>3 DEF StartsAt
<1>5. /\ t.path = st.path /\ t.vol = st.vol /\ t.start = st.start /\ t.nrays = st.nrays
  BY <1>1, <1>4, CursorSet DEF StartsAt, HeldOK
<1>6. SelectedRays(t) = SelectedRays(st)
  BY <1>5 DEF SelectedRays
<1>7. ASSUME NEW f \in Frames, NEW l \in Frames, l = Lead(f), Lead(l) = l
      PROVE  LeadReads(l) /\ screen[f] = SelectedRays(io[l])
  <2>1. io[l] = t
    BY <1>4, <1>7
  <2>2. /\ sweep[l].file = p /\ sweep[l].stamp = p[1] /\ name[l] = p /\ cat[l] = Listing(InitDir)
        /\ screen[f] = SelectedRays(st)
    BY <1>1, <1>7 DEF StartsAt
  <2>3. OfRecord(p) /\ st.vol = InitFiles[p] /\ st.path = p
    BY <1>1 DEF StartsAt
  <2>4. QED
    BY <1>2, <1>5, <1>6, <2>1, <2>2, <2>3 DEF LeadReads
<1>8. \A f \in Frames : name[Lead(f)] = p /\ io[Lead(f)] = t
  BY <1>1, <1>4, LeadsLed DEF StartsAt
<1>9. FramesRead
  BY <1>7, <1>8, LeadsLed DEF FramesRead
<1>10. QED
  BY <1>2, <1>9, WholeStart DEF AsRecorded, WholeInv

(* A step forward that changes what a frame shows shows the sweep next in  *)
(* time, whether that is in the volume at hand or in another file          *)
(* (displayq, solo_nab_next_file), for files apart in time: none is passed *)
(* over, and frames in lockstep do not part.                               *)
THEOREM StepsForwardInOrder ==
  ASSUME RecordedWhole, FilesApart, ReplottedTogether, "select" \notin Gestures
  PROVE  Spec => ForwardShowsNext
<1> DEFINE Forward ==
      \A f \in Frames :
        LET later == {t \in SweepTimes : t > Shown(f)}
        IN  se.count = 0 /\ screen'[f] # screen[f] /\ PlotFrames(f, FORWARD_ONCE) =>
              later # {} /\ Shown(f)' = Min(later)
<1>1. ForwardShowsNext <=> [][Forward]_vars
  BY DEF ForwardShowsNext
<1>2. Shape /\ AsRecorded /\ [Next]_vars => Forward
  <2> SUFFICES ASSUME AsRecorded, NEW f \in Frames,
                      se.count = 0, screen'[f] # screen[f], PlotFrames(f, FORWARD_ONCE)
               PROVE  LET later == {t \in SweepTimes : t > Shown(f)}
                      IN  later # {} /\ Shown(f)' = Min(later)
    OBVIOUS
  <2>1. PICK rescan : Plot(f, FORWARD_ONCE, rescan)
    BY DEF PlotFrames
  <2>2. disk = InitFiles /\ dir = InitDir /\ FramesRead /\ ViewOK /\ NamesOK /\ FilesOK
    BY DEF AsRecorded
  <2>3. PICK now, c : now = screen[f][1].time /\ c = FORWARD_ONCE
    OBVIOUS
  <2>4. c # REPLOT_THIS_FRAME
    BY <2>3 DEF FORWARD_ONCE, REPLOT_THIS_FRAME
  <2>5. Later(now) # {} /\ screen'[f][1].time = Min(Later(now))
    BY <2>1, <2>2, <2>3, <2>4, PlotAhead
  <2>6. Shown(f) = now /\ Shown(f)' = screen'[f][1].time
    BY <2>3 DEF Shown
  <2>7. QED
    BY <2>5, <2>6 DEF Later
<1>3. Shape /\ AsRecorded /\ [Next]_vars => AsRecorded'
  BY AsRecordedStep
<1>4. Init => AsRecorded
  BY AsRecordedStart
<1> HIDE DEF Forward
<1>5. QED
  BY <1>1, <1>2, <1>3, <1>4, SessionShape, PTL DEF Spec
=============================================================================
