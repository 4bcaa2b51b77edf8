------------------------- MODULE SoloSession_proofs -------------------------
(***************************************************************************)
(* What holds in every session, however many frames and files, sweeps and  *)
(* Do Its it has and in whatever order the user does things.               *)
(***************************************************************************)
EXTENDS SessionProperties, RadarIO_proofs
LOCAL INSTANCE FiniteSetsExt
LOCAL INSTANCE SequencesExt

----------------------------------------------------------------------------
(* The shape of the state: which fields the records have.                  *)

IsState(st) ==
  st = [vol |-> st.vol, path |-> st.path, swp_index |-> st.swp_index,
        start |-> st.start, nrays |-> st.nrays, cursor |-> st.cursor]

IsEditor(e) ==
  e = [pc |-> e.pc, frame |-> e.frame, command |-> e.command, auto |-> e.auto,
       snapshot |-> e.snapshot, modified |-> e.modified, list |-> e.list,
       swp_count |-> e.swp_count, ray_num |-> e.ray_num, num_rays |-> e.num_rays,
       count |-> e.count, wrote |-> e.wrote]

Shape ==
  /\ io = [w \in Windows |-> io[w]] /\ \A w \in Windows : IsState(io[w])
  /\ wio = [wvol |-> wio.wvol, last_path |-> wio.last_path]
  /\ IsEditor(se) /\ (~Idle => se.frame \in EditFrames)

(* A frame is led by a frame.                                              *)
LEMMA LeadIsFrame == \A f \in Frames : Lead(f) \in Link[f] /\ Lead(f) \in Frames
<1> SUFFICES ASSUME NEW f \in Frames
             PROVE  Lead(f) \in Link[f] /\ Lead(f) \in Frames
  OBVIOUS
<1>1. Link[f] \subseteq Frames /\ f \in Link[f] /\ Frames \subseteq Nat
  BY SessionAssumption
<1>2. PICK m \in Link[f] : \A x \in Link[f] : m <= x
  <2> DEFINE S == {g \in Link[f] : g <= f}
  <2>0. f \in Nat /\ \A g \in Link[f] : g \in Nat
    BY <1>1
  <2>1. S \in SUBSET Int /\ S # {}
    <3>1. f \in S
      BY <1>1, <2>0
    <3>2. S \in SUBSET Int
      BY <2>0
    <3>3. QED
      BY <3>1, <3>2
  <2>2. IsFiniteSet(S)
    <3>1. S \in SUBSET (0 .. f)
      BY <2>0
    <3>2. IsFiniteSet(0 .. f)
      BY <2>0, FS_Interval
    <3>3. QED
      BY <3>1, <3>2, FS_Subset
  <2> HIDE DEF S
  <2>3. PICK m \in S : \A x \in S : m <= x
    BY <2>1, <2>2, LeastElement
  <2>4. m \in Link[f] /\ m <= f
    BY <2>3 DEF S
  <2>5. ASSUME NEW x \in Link[f] PROVE m <= x
    <3>1. CASE x <= f
      BY <2>3, <3>1 DEF S
    <3>2. CASE ~(x <= f)
      <4>1. m \in Nat /\ x \in Nat /\ f \in Nat
        BY <1>1, <2>4, <2>5
      <4>2. QED
        BY <2>4, <3>2, <4>1
    <3>3. QED
      BY <3>1, <3>2
  <2>6. QED
    BY <2>4, <2>5
<1>4. Lead(f) \in Link[f]
  BY <1>2 DEF Lead, Min
<1>5. QED
  BY <1>1, <1>4

(* What the calls of radar_io.c do to the volume a window holds.  Reading  *)
(* a header leaves the cached volume of that path, or what the disk holds. *)
ReadFrom(st, t) ==
  /\ IsState(t)
  /\ \/ t.vol = NoVolume
     \/ t.vol = st.vol /\ t.path = st.path
     \/ t.vol = disk[t.path]

(* Moving the cursor keeps the volume.                                     *)
LEMMA CursorSet ==
  ASSUME NEW st, IsState(st), NEW c, NEW t, t = [st EXCEPT !.cursor = c]
  PROVE  /\ IsState(t) /\ t.vol = st.vol /\ t.path = st.path
         /\ t.swp_index = st.swp_index /\ t.start = st.start
         /\ t.nrays = st.nrays /\ t.cursor = c
BY DEF IsState

LEMMA Selected ==
  ASSUME NEW st, IsState(st), NEW k
  PROVE  /\ IsState(Select(st, k))
         /\ Select(st, k).vol = st.vol /\ Select(st, k).path = st.path
         /\ Select(st, k).swp_index = k /\ Select(st, k).cursor = 0
         /\ Select(st, k).start = SweepStart(st.vol, k)
         /\ Select(st, k).nrays = SweepEnd(st.vol, k) - SweepStart(st.vol, k) + 1
<1>1. PICK a, n : a = SweepStart(st.vol, k)
                  /\ n = SweepEnd(st.vol, k) - SweepStart(st.vol, k) + 1
  OBVIOUS
<1>2. PICK t : t = [st EXCEPT !.swp_index = k, !.start = a, !.nrays = n, !.cursor = 0]
  OBVIOUS
<1>3. t = Select(st, k)
  BY <1>1, <1>2 DEF Select
<1>4. /\ IsState(t) /\ t.vol = st.vol /\ t.path = st.path /\ t.swp_index = k
      /\ t.start = a /\ t.nrays = n /\ t.cursor = 0
  BY <1>2 DEF IsState
<1>5. QED
  BY <1>1, <1>3, <1>4

LEMMA Dropped ==
  ASSUME NEW st, IsState(st)
  PROVE  IsState(InvalidateRead(st)) /\ InvalidateRead(st).vol = NoVolume
<1>1. PICK v, p : v = NoVolume /\ p = NoPath
  OBVIOUS
<1>2. PICK t : t = [st EXCEPT !.vol = v, !.path = p]
  OBVIOUS
<1>3. IsState(t) /\ t.vol = v
  BY <1>2 DEF IsState
<1>4. t = InvalidateRead(st)
  BY <1>1, <1>2 DEF InvalidateRead
<1>5. QED
  BY <1>1, <1>3, <1>4

(* A header read leaves no volume, or a sweep of the cached volume of that *)
(* path, or one of what the disk holds.                                    *)
VolumeRead(st, p, d) == IF st.vol # NoVolume /\ st.path = p THEN st.vol ELSE d[p]

LEMMA HeaderReadVolume ==
  ASSUME NEW st, IsState(st), NEW p, NEW r, NEW d,
         NEW h, h = HeaderRead(st, p, r, d)
  PROVE  /\ IsState(h)
         /\ h.vol = VolumeRead(st, p, d)
         /\ h.vol # NoVolume =>
              /\ h.path = p /\ h.swp_index = Clamp(r, h.vol) /\ h.cursor = 0
              /\ h.start = SweepStart(h.vol, h.swp_index)
              /\ h.nrays = SweepEnd(h.vol, h.swp_index) - h.start + 1
<1>1. PICK v : v = VolumeRead(st, p, d)
  OBVIOUS
<1>2. CASE v = NoVolume
  <2>1. h = [st EXCEPT !.vol = v]
    BY <1>1, <1>2 DEF HeaderRead, VolumeRead
  <2>2. IsState(h) /\ h.vol = v
    BY <2>1 DEF IsState
  <2>3. QED
    BY <1>1, <1>2, <2>2
<1>3. CASE v # NoVolume
  <2>1. h = Select([st EXCEPT !.vol = v, !.path = p], Clamp(r, v))
    BY <1>1, <1>3 DEF HeaderRead, VolumeRead
  <2>2. PICK t : t = [st EXCEPT !.vol = v, !.path = p]
    OBVIOUS
  <2>3. IsState(t) /\ t.vol = v /\ t.path = p
    BY <2>2 DEF IsState
  <2>4. PICK k : k = Clamp(r, v)
    OBVIOUS
  <2>5. h = Select(t, k)
    BY <2>1, <2>2, <2>4
  <2>6. /\ IsState(h) /\ h.vol = v /\ h.path = p /\ h.swp_index = k /\ h.cursor = 0
        /\ h.start = SweepStart(v, k) /\ h.nrays = SweepEnd(v, k) - SweepStart(v, k) + 1
    BY <2>3, <2>5, Selected
  <2>7. QED
    BY <1>1, <2>4, <2>6
<1>4. QED
  BY <1>2, <1>3

LEMMA HeaderReadFrom ==
  ASSUME NEW st, IsState(st), NEW p, NEW r
  PROVE  ReadFrom(st, HeaderRead(st, p, r, disk))
<1>1. PICK h : h = HeaderRead(st, p, r, disk)
  OBVIOUS
<1>2. IsState(h) /\ h.vol = VolumeRead(st, p, disk) /\ (h.vol # NoVolume => h.path = p)
  BY <1>1, HeaderReadVolume
<1>3. ReadFrom(st, h)
  BY <1>2 DEF ReadFrom, VolumeRead
<1>4. QED
  BY <1>1, <1>3

(* After that, only the cursor moves.                                      *)
LEMMA RereadFrom ==
  ASSUME NEW st, NEW t, ReadFrom(st, t), NEW c
  PROVE  ReadFrom(st, [t EXCEPT !.cursor = c])
<1>1. PICK u : u = [t EXCEPT !.cursor = c]
  OBVIOUS
<1>2. IsState(t)
  BY DEF ReadFrom
<1>3. IsState(u) /\ u.vol = t.vol /\ u.path = t.path
  BY <1>1, <1>2, CursorSet
<1>4. ReadFrom(st, u)
  BY <1>3 DEF ReadFrom
<1>5. QED
  BY <1>1, <1>4

(* Whatever file a frame is sent to, it keeps what it has or reads that.   *)
LEMMA NabReads ==
  ASSUME Shape, NEW f \in Frames, NEW s0, NEW action, NEW version, NEW replot, NEW rescan
  PROVE  ReadFrom(io[f], NabNextFile(f, s0, action, version, replot, rescan).io)
<1>1. PICK t : t = NabNextFile(f, s0, action, version, replot, rescan).io
  OBVIOUS
<1>2. \/ t = io[f]
      \/ \E p, r : t = RayRead(HeaderRead(io[f], p, r, disk))
  BY <1>1 DEF NabNextFile
<1>3. IsState(io[f])
  BY DEF Shape, Windows
<1>4. CASE t = io[f]
  BY <1>1, <1>3, <1>4 DEF ReadFrom
<1>5. ASSUME NEW p, NEW r, t = RayRead(HeaderRead(io[f], p, r, disk))
      PROVE  ReadFrom(io[f], t)
  <2>1. PICK h : h = HeaderRead(io[f], p, r, disk)
    OBVIOUS
  <2>2. PICK c : c = h.cursor + 1
    OBVIOUS
  <2>3. t = [h EXCEPT !.cursor = c]
    BY <1>5, <2>1, <2>2 DEF RayRead
  <2>4. QED
    BY <1>3, <2>1, <2>3, HeaderReadFrom, RereadFrom
<1>6. QED
  BY <1>1, <1>2, <1>4, <1>5

(* A step that only reads.                                                 *)
Reads ==
  /\ io' = [w \in Windows |-> io'[w]]
  /\ \A w \in Windows : ReadFrom(io[w], io'[w])
  /\ io'[SE_FRAME] = io[SE_FRAME]

LEMMA PlotReads ==
  ASSUME Shape, NEW f \in Frames, NEW command, NEW rescan, Plot(f, command, rescan)
  PROVE  Reads /\ (halt' => halt)
<1>1. CASE halt
  <2>1. io' = io
    BY <1>1 DEF Plot, frameVars
  <2>2. halt' => halt
    BY <1>1
  <2>3. QED
    BY <2>1, <2>2 DEF Reads, ReadFrom, Shape
<1>2. CASE ~halt
  <2> DEFINE replot  == command \in {REPLOT_LOCK_STEP, REPLOT_THIS_FRAME}
             action  == CASE replot -> TIME_NEAREST
                          [] command = FORWARD_ONCE -> TIME_AFTER
                          [] command = BACKWARDS_ONCE -> TIME_BEFORE
             version == IF replot THEN sweep[f].version ELSE LATEST_VERSION
             info    == [sweep EXCEPT ![f].version = version]
             plotted == IF command = REPLOT_THIS_FRAME THEN {f} ELSE Lock[f]
             leads   == {Lead(g) : g \in plotted}
             Nab(l)  == NabNextFile(l, info[l], action, version, replot, l \in rescan)
             nab     == [l \in leads |-> Nab(l)]
             drawn   == \A l \in leads : nab[l].ok
  <2>1. /\ halt' = halt
        /\ io' = [w \in Windows |->
                    IF w \in leads
                    THEN IF drawn THEN [nab[w].io EXCEPT !.cursor = nab[w].io.nrays]
                         ELSE nab[w].io
                    ELSE io[w]]
    BY <1>2 DEF Plot
  <2>2. leads \subseteq Frames
    <3>1. plotted \subseteq Frames
      BY SessionAssumption
    <3>2. QED
      BY <3>1, LeadIsFrame
  <2>3. ASSUME NEW w \in Windows
        PROVE  ReadFrom(io[w], io'[w])
    <3>1. CASE w \in leads
      <4>1. PICK t : t = Nab(w).io
        OBVIOUS
      <4>2. ReadFrom(io[w], t)
        BY <2>2, <3>1, <4>1, NabReads
      <4>3. nab[w].io = t
        BY <3>1, <4>1
      <4>4. PICK c : c = t.nrays
        OBVIOUS
      <4>5. io'[w] = t \/ io'[w] = [t EXCEPT !.cursor = c]
        <5> HIDE DEF leads, nab, drawn
        <5>1. QED
          BY <2>1, <2>3, <3>1, <4>3, <4>4
      <4>6. QED
        BY <4>2, <4>5, RereadFrom
    <3>2. CASE w \notin leads
      <4>1. io'[w] = io[w]
        <5> HIDE DEF leads, nab, drawn
        <5>1. QED
          BY <2>1, <2>3, <3>2
      <4>2. QED
        BY <4>1 DEF ReadFrom, Shape
    <3>3. QED
      BY <3>1, <3>2
  <2>4. SE_FRAME \in Windows /\ SE_FRAME \notin leads
    BY <2>2, SessionAssumption DEF Windows
  <2>5. io'[SE_FRAME] = io[SE_FRAME] /\ io' = [w \in Windows |-> io'[w]]
    <3> HIDE DEF leads, nab, drawn
    <3>1. QED
      BY <2>1, <2>4
  <2>6. QED
    BY <2>1, <2>3, <2>5 DEF Reads
<1>3. QED
  BY <1>1, <1>2

LEMMA ClickReads ==
  ASSUME Shape, NEW f \in Frames, Click(f)
  PROVE  Reads
<1>1. PICK l \in Frames : l = Lead(f)
  BY LeadIsFrame
<1>2. l \in Windows /\ SE_FRAME \in Windows /\ SE_FRAME # l
  BY SessionAssumption DEF Windows
<1>3. PICK t : t = IF file_modified[l]
                   THEN NabNextFile(l, sweep[l], TIME_NEAREST, LATEST_VERSION, TRUE, FALSE).io
                   ELSE io[l]
  OBVIOUS
<1>4. ReadFrom(io[l], t)
  <2>1. ReadFrom(io[l], io[l])
    BY <1>2 DEF ReadFrom, Shape
  <2>2. PICK u : u = NabNextFile(l, sweep[l], TIME_NEAREST, LATEST_VERSION, TRUE, FALSE).io
    OBVIOUS
  <2>3. ReadFrom(io[l], u)
    BY <2>2, NabReads
  <2>4. QED
    BY <1>3, <2>1, <2>2, <2>3
<1>5. PICK at : at = SeekRay(t, t.nrays - 1)
  OBVIOUS
<1>6. ReadFrom(io[l], at)
  <2>1. PICK c : at = [t EXCEPT !.cursor = c]
    BY <1>5 DEF SeekRay
  <2>2. QED
    BY <1>4, <2>1, RereadFrom
<1>7. PICK v : v = IF HasRay(at) THEN RayRead(at) ELSE at
  OBVIOUS
<1>8. ReadFrom(io[l], v)
  <2>1. v = at \/ \E c : v = [at EXCEPT !.cursor = c]
    BY <1>7 DEF RayRead
  <2>2. QED
    BY <1>6, <2>1, RereadFrom
<1>9. io' = [io EXCEPT ![l] = v]
  BY <1>1, <1>3, <1>5, <1>7 DEF Click
<1>10. io' = [w \in Windows |-> IF w = l THEN v ELSE io[w]]
  BY <1>2, <1>9 DEF Shape
<1>11. \A w \in Windows : w # l => ReadFrom(io[w], io'[w])
  BY <1>10 DEF Shape, ReadFrom
<1>12. QED
  BY <1>2, <1>8, <1>10, <1>11 DEF Reads

----------------------------------------------------------------------------
(* An iteration of the loop of a Do It, with names for what EditRay        *)
(* computes: the sweep of the list, the editor's read state at the ray,    *)
(* the number of the ray, and so on.                                       *)
Opens    == se.ray_num >= se.num_rays
SwpNow   == IF Opens THEN se.swp_count + 1 ELSE se.swp_count
FileNow  == se.list[SwpNow]
StNow    == IF Opens THEN HeaderRead(io[SE_FRAME], FileNow, req[SE_FRAME], disk)
            ELSE io[SE_FRAME]
RayNow   == IF Opens THEN 1 ELSE se.ray_num + 1
TotalNow == IF Opens THEN StNow.nrays ELSE se.num_rays
PuntNow  == Punts(se.command, RayNow)
DumpsNow == (se.modified \/ Modifies(se.command)) /\ ~PuntNow
WsNow    == IF DumpsNow THEN RayWritten(wio, [NextRay(StNow) EXCEPT !.gen = @ + 1]) ELSE wio
EndsNow  == DumpsNow /\ RayNow >= TotalNow
OutNow   == PathOf(WsNow.wvol)

LEMMA EditRayReads ==
  ASSUME Shape, NEW ok, EditRay(ok)
  PROVE  /\ se.pc = "loop" /\ ~halt /\ halt' = halt /\ HasRay(StNow)
         /\ Opens => SwpNow <= Len(se.list)
         /\ IsState(StNow) /\ IsState(RayRead(StNow))
         /\ io' = [w \in Windows |-> IF w = SE_FRAME THEN RayRead(StNow) ELSE io[w]]
         /\ UNCHANGED <<name, req, cat, urgent, sweep, span, screen, undo>>
<1> SE_FRAME \in Windows
  BY DEF Windows
<1>1. /\ se.pc = "loop" /\ ~halt /\ halt' = halt /\ HasRay(StNow)
      /\ Opens => SwpNow <= Len(se.list)
      /\ io' = [io EXCEPT ![SE_FRAME] = RayRead(StNow)]
      /\ UNCHANGED <<name, req, cat, urgent, sweep, span, screen, undo>>
  BY DEF EditRay, StNow, Opens, SwpNow, FileNow
<1>2. IsState(StNow)
  <2>1. IsState(io[SE_FRAME])
    BY DEF Shape
  <2>2. PICK h : h = HeaderRead(io[SE_FRAME], FileNow, req[SE_FRAME], disk)
    OBVIOUS
  <2>3. IsState(h)
    BY <2>1, <2>2, HeaderReadVolume
  <2>4. QED
    BY <2>1, <2>2, <2>3 DEF StNow
<1>3. IsState(RayRead(StNow))
  <2>1. PICK c : RayRead(StNow) = [StNow EXCEPT !.cursor = c]
    BY DEF RayRead
  <2>2. QED
    BY <1>2, <2>1, CursorSet
<1>4. io' = [w \in Windows |-> IF w = SE_FRAME THEN RayRead(StNow) ELSE io[w]]
  BY <1>1 DEF Shape
<1>5. QED
  BY <1>1, <1>2, <1>3, <1>4

LEMMA EditRayWrites ==
  ASSUME Shape, NEW ok, EditRay(ok)
  PROVE  /\ wio' = IF EndsNow THEN SweepEnded(WsNow, ok) ELSE WsNow
         /\ disk' = IF EndsNow THEN DiskAfterSweepEnd(WsNow, ok, disk) ELSE disk
         /\ \/ dir' = dir
            \/ /\ EndsNow /\ ok
               /\ \E at \in 1 .. Len(dir) + 1 :
                    dir' = SubSeq(dir, 1, at - 1) \o <<OutNow>> \o SubSeq(dir, at, Len(dir))
         /\ IsEditor(se')
         /\ se'.pc = IF PuntNow THEN "post" ELSE "loop"
         /\ se'.modified = (se.modified \/ Modifies(se.command))
         /\ se'.swp_count = SwpNow /\ se'.ray_num = RayNow /\ se'.num_rays = TotalNow
         /\ se'.wrote = IF EndsNow /\ ok THEN se.wrote \cup {OutNow} ELSE se.wrote
         /\ se'.frame = se.frame /\ se'.command = se.command /\ se'.auto = se.auto
         /\ se'.snapshot = se.snapshot /\ se'.list = se.list /\ se'.count = se.count
<1>1. /\ wio' = IF EndsNow THEN SweepEnded(WsNow, ok) ELSE WsNow
      /\ disk' = IF EndsNow THEN DiskAfterSweepEnd(WsNow, ok, disk) ELSE disk
  BY DEF EditRay, StNow, Opens, SwpNow, FileNow, RayNow, TotalNow, PuntNow, DumpsNow,
         WsNow, EndsNow
<1>2. \/ dir' = dir
      \/ /\ EndsNow /\ ok
         /\ \E at \in 1 .. Len(dir) + 1 :
              dir' = SubSeq(dir, 1, at - 1) \o <<OutNow>> \o SubSeq(dir, at, Len(dir))
  BY DEF EditRay, InsertAt, StNow, Opens, SwpNow, FileNow, RayNow, TotalNow, PuntNow,
         DumpsNow, WsNow, EndsNow, OutNow
<1>3. se' = [se EXCEPT !.pc = IF PuntNow THEN "post" ELSE "loop",
                       !.modified = @ \/ Modifies(se.command),
                       !.swp_count = SwpNow, !.ray_num = RayNow, !.num_rays = TotalNow,
                       !.wrote = IF EndsNow /\ ok THEN @ \cup {OutNow} ELSE @]
  BY DEF EditRay, StNow, Opens, SwpNow, FileNow, RayNow, TotalNow, PuntNow, DumpsNow,
         WsNow, EndsNow, OutNow
<1>4. PICK p, m, s, n, t, w :
        /\ p = (IF PuntNow THEN "post" ELSE "loop") /\ m = (se.modified \/ Modifies(se.command))
        /\ s = SwpNow /\ n = RayNow /\ t = TotalNow
        /\ w = IF EndsNow /\ ok THEN se.wrote \cup {OutNow} ELSE se.wrote
  OBVIOUS
<1>5. se' = [se EXCEPT !.pc = p, !.modified = m, !.swp_count = s, !.ray_num = n,
                       !.num_rays = t, !.wrote = w]
  BY <1>3, <1>4
<1>6. /\ IsEditor(se') /\ se'.pc = p /\ se'.modified = m /\ se'.swp_count = s
      /\ se'.ray_num = n /\ se'.num_rays = t /\ se'.wrote = w
      /\ se'.frame = se.frame /\ se'.command = se.command /\ se'.auto = se.auto
      /\ se'.snapshot = se.snapshot /\ se'.list = se.list /\ se'.count = se.count
  BY <1>5 DEF Shape, IsEditor
<1>7. QED
  BY <1>1, <1>2, <1>4, <1>6

----------------------------------------------------------------------------
(* The other steps of a Do It, and an Undo.                                *)

LEMMA DoItStarts ==
  ASSUME NEW f \in Frames, NEW command, NEW auto, DoIt(f, command, auto)
  PROVE  LET todo    == SweepsToEdit(Listing(dir), span[f].start, span[f].stop)
             entered == command # "empty" /\ todo # << >>
         IN  /\ Idle /\ f \in EditFrames
             /\ UNCHANGED <<io, name, req, cat, urgent, sweep, file_modified, span,
                           screen, disk, dir, wio, halt>>
             /\ undo' = IF name[f] = NoPath THEN undo ELSE Pushed(name[f])
             /\ IsEditor(se')
             /\ se'.pc = IF entered THEN "loop" ELSE "post"
             /\ se'.frame = f /\ se'.command = command /\ se'.auto = auto
             /\ se'.snapshot = (name[f] # NoPath)
             /\ se'.modified = IF entered THEN FALSE ELSE se.modified
             /\ se'.list = IF entered THEN todo ELSE << >>
             /\ se'.swp_count = 0 /\ se'.ray_num = 0 /\ se'.num_rays = 0
             /\ se'.wrote = {} /\ se'.count = se.count + 1
BY DEF DoIt, IsEditor, frameVars

LEMMA DoItEnds ==
  ASSUME EndDoIt
  PROVE  /\ se.pc = "post"
         /\ UNCHANGED <<disk, dir, wio, name, screen, halt>>
         /\ undo' = IF se.snapshot /\ ~se.modified THEN SubSeq(undo, 1, Len(undo) - 1)
                    ELSE undo
         /\ IsEditor(se')
         /\ se'.pc = IF se.auto THEN "replot" ELSE "idle"
         /\ se'.frame = se.frame /\ se'.modified = se.modified /\ se'.count = se.count
         /\ se'.wrote = {} /\ se'.ray_num = 0 /\ se'.num_rays = 0
         /\ IF se.modified THEN DropReadCaches(se.frame) ELSE io' = io
<1>1. /\ se.pc = "post"
      /\ UNCHANGED <<disk, dir, wio, name, screen, halt>>
      /\ undo' = IF se.snapshot /\ ~se.modified THEN SubSeq(undo, 1, Len(undo) - 1)
                 ELSE undo
      /\ IF se.modified THEN DropReadCaches(se.frame) ELSE io' = io
      /\ se' = [EditorIdle EXCEPT !.pc = IF se.auto THEN "replot" ELSE "idle",
                                  !.frame = se.frame, !.modified = se.modified,
                                  !.count = se.count]
  BY DEF EndDoIt, KeptSnapshots, Front
<1>2. PICK p, f, m, c : /\ p = (IF se.auto THEN "replot" ELSE "idle") /\ f = se.frame
                        /\ m = se.modified /\ c = se.count
  OBVIOUS
<1>3. se' = [EditorIdle EXCEPT !.pc = p, !.frame = f, !.modified = m, !.count = c]
  BY <1>1, <1>2
<1>4. /\ IsEditor(se') /\ se'.pc = p /\ se'.frame = f /\ se'.modified = m /\ se'.count = c
      /\ se'.wrote = {} /\ se'.ray_num = 0 /\ se'.num_rays = 0
  BY <1>3 DEF EditorIdle, IsEditor
<1>5. QED
  BY <1>1, <1>2, <1>4

LEMMA UndoDone ==
  ASSUME Shape, NEW f \in Frames, Undo(f)
  PROVE  /\ Idle /\ f \in EditFrames /\ undo # << >>
         /\ UNCHANGED <<dir, wio, name, req, cat, urgent, sweep, span, screen, halt>>
         /\ disk' = [disk EXCEPT ![undo[Len(undo)].path] = undo[Len(undo)].image]
         /\ undo' = SubSeq(undo, 1, Len(undo) - 1)
         /\ DropReadCaches(f)
         /\ IsEditor(se') /\ se' = [se EXCEPT !.pc = "replot", !.frame = f]
         /\ se'.pc = "replot" /\ se'.frame = f /\ se'.command = se.command
         /\ se'.modified = se.modified
<1>1. PICK p : p = "replot"
  OBVIOUS
<1>2. se' = [se EXCEPT !.pc = p, !.frame = f]
  BY <1>1 DEF Undo
<1>3. /\ IsEditor(se') /\ se'.pc = p /\ se'.frame = f /\ se'.command = se.command
      /\ se'.modified = se.modified
  BY <1>2 DEF Shape, IsEditor
<1>4. QED
  BY <1>1, <1>2, <1>3 DEF Undo, Last, Front

LEMMA CachesDropped ==
  ASSUME Shape, NEW f, DropReadCaches(f)
  PROVE  /\ io' = [w \in Windows |-> io'[w]]
         /\ \A w \in Windows : IsState(io'[w]) /\ (io'[w].vol = NoVolume \/ io'[w] = io[w])
         /\ \A w \in {SE_FRAME} \cup Link[f] : w \in Windows => io'[w].vol = NoVolume
<1>1. \A w \in Windows : io'[w] = IF w \in {f, Lead(f), SE_FRAME} \cup Link[f]
                                THEN InvalidateRead(io[w]) ELSE io[w]
  BY DEF DropReadCaches
<1>2. io' = [w \in Windows |-> io'[w]]
  BY DEF DropReadCaches
<1>3. \A w \in Windows : IsState(InvalidateRead(io[w])) /\ InvalidateRead(io[w]).vol = NoVolume
  BY Dropped DEF Shape
<1>4. QED
  BY <1>1, <1>2, <1>3 DEF Shape

(* The steps, by what they do to the files and the caches: most gestures   *)
(* touch neither.                                                          *)
Untouched == UNCHANGED <<disk, dir, io, wio, undo, se>> /\ (halt' => halt \/ Idle)
Looks == Idle /\ Reads /\ UNCHANGED <<disk, dir, wio, undo, se>> /\ (halt' => halt)
ReplotReads ==
  /\ se.pc = "replot" /\ Reads /\ UNCHANGED <<disk, dir, wio, undo>> /\ (halt' => halt)
  /\ IsEditor(se') /\ se' = [se EXCEPT !.pc = "idle"] /\ se'.pc = "idle"
LoopEnds ==
  /\ se.pc = "loop" /\ (halt \/ Opens)
  /\ UNCHANGED <<disk, dir, io, wio, undo, halt, name, sweep, screen>>
  /\ IsEditor(se') /\ se' = [se EXCEPT !.pc = "post"] /\ se'.pc = "post"
  /\ se'.modified = se.modified /\ se'.frame = se.frame

LEMMA RaysEnd == ASSUME Shape, EndOfRays PROVE LoopEnds
<1>1. PICK p : p = "post"
  OBVIOUS
<1>2. se' = [se EXCEPT !.pc = p]
  BY <1>1 DEF EndOfRays
<1>3. IsEditor(se') /\ se'.pc = p /\ se'.modified = se.modified /\ se'.frame = se.frame
  BY <1>2 DEF Shape, IsEditor
<1>4. QED
  BY <1>1, <1>2, <1>3 DEF EndOfRays, LoopEnds, Opens, frameVars

LEMMA ReplotOnlyReads == ASSUME Shape, Replot PROVE ReplotReads
<1>1. PICK p : p = "idle"
  OBVIOUS
<1>2. se' = [se EXCEPT !.pc = p]
  BY <1>1 DEF Replot
<1>3. IsEditor(se') /\ se'.pc = p
  BY <1>2 DEF Shape, IsEditor
<1>4. Reads /\ (halt' => halt)
  <2>1. se.frame \in Frames
    BY SessionAssumption DEF Replot, Shape, Idle
  <2>2. QED
    BY <2>1, PlotReads DEF Replot
<1>5. QED
  BY <1>1, <1>2, <1>3, <1>4 DEF Replot, ReplotReads

LEMMA Steps ==
  ASSUME Shape, [Next]_vars
  PROVE  \/ Untouched \/ Looks \/ ReplotReads \/ LoopEnds \/ EndDoIt
         \/ \E ok \in WriteResults : EditRay(ok)
         \/ \E f \in Frames, command \in Commands, auto \in BOOLEAN : DoIt(f, command, auto)
         \/ \E f \in Frames : Undo(f)
<1>1. CASE UNCHANGED vars
  BY <1>1 DEF vars, Untouched
<1>2. CASE Processing
  <2>1. EndOfRays => LoopEnds
    BY RaysEnd
  <2>2. QED
    BY <1>2, <2>1 DEF Processing
<1>3. CASE Replot
  BY <1>3, ReplotOnlyReads
<1>4. CASE Gesture
  <2>1. CASE Escape
    BY <2>1 DEF Escape, Untouched, frameVars
  <2>2. ASSUME NEW f \in Frames, NEW command \in PlotCommands, PlotFrames(f, command)
        PROVE  Looks
    BY <2>2, PlotReads DEF PlotFrames, Looks
  <2>3. ASSUME NEW f \in Frames, Click(f)
        PROVE  Looks
    <3>1. Idle /\ UNCHANGED <<disk, dir, wio, undo, se, halt>>
      BY <2>3 DEF Click
    <3>2. QED
      BY <2>3, <3>1, ClickReads DEF Looks
  <2>4. ASSUME NEW f \in Frames,
               (\E k \in DOMAIN dir : SelectFile(f, k)) \/ ResetTimes(f) \/ FirstSweep(f)
                 \/ LastSweep(f)
        PROVE  Untouched
    BY <2>4 DEF SelectFile, ResetTimes, FirstSweep, LastSweep, Untouched
  <2>5. QED
    BY <1>4, <2>1, <2>2, <2>3, <2>4 DEF Gesture
<1>5. QED
  BY <1>1, <1>2, <1>3, <1>4 DEF Next

LEMMA ShapeStep == Shape /\ [Next]_vars => Shape'
<1> SUFFICES ASSUME Shape, [Next]_vars PROVE Shape'
  OBVIOUS
<1>0. SE_FRAME \in Windows /\ Windows' = Windows
  BY DEF Windows
<1>1. CASE Untouched
  BY <1>1 DEF Untouched, Shape, IsEditor, IsState, Idle
<1>2. ASSUME Reads, wio' = wio, IsEditor(se'), Idle'
      PROVE  Shape'
  BY <1>2 DEF Reads, ReadFrom, Shape, IsState, IsEditor
<1>3. CASE Looks
  BY <1>2, <1>3 DEF Looks, Shape, IsEditor, Idle
<1>4. CASE ReplotReads
  BY <1>2, <1>4 DEF ReplotReads, Idle
<1>5. CASE LoopEnds
  BY <1>5 DEF LoopEnds, Shape, IsEditor, IsState, Idle
<1>6. CASE EndDoIt
  <2>1. wio' = wio /\ IsEditor(se') /\ se'.frame \in EditFrames
    BY <1>6, DoItEnds DEF Shape, Idle
  <2>2. CASE se.modified
    <3>1. DropReadCaches(se.frame)
      BY <1>6, <2>2, DoItEnds
    <3>2. io' = [w \in Windows |-> io'[w]] /\ \A w \in Windows : IsState(io'[w])
      BY <3>1, CachesDropped
    <3>3. QED
      BY <2>1, <3>2 DEF Shape, IsEditor, IsState
  <2>3. CASE ~se.modified
    <3>1. io' = io
      BY <1>6, <2>3, DoItEnds
    <3>2. QED
      BY <2>1, <3>1 DEF Shape, IsEditor, IsState
  <2>4. QED
    BY <2>2, <2>3
<1>7. ASSUME NEW ok \in WriteResults, EditRay(ok)
      PROVE  Shape'
  <2>1. /\ io' = [w \in Windows |-> IF w = SE_FRAME THEN RayRead(StNow) ELSE io[w]]
        /\ IsState(RayRead(StNow))
    BY <1>7, EditRayReads
  <2>2. io' = [w \in Windows |-> io'[w]] /\ \A w \in Windows : IsState(io'[w])
    BY <2>1 DEF Shape
  <2>3. IsEditor(se') /\ se'.frame \in EditFrames
    <3>1. se'.frame = se.frame /\ IsEditor(se')
      BY <1>7, EditRayWrites
    <3>2. se.pc = "loop"
      BY <1>7, EditRayReads
    <3>3. QED
      BY <3>1, <3>2 DEF Shape, Idle
  <2>4. wio' = [wvol |-> wio'.wvol, last_path |-> wio'.last_path]
    <3>1. wio' = IF EndsNow THEN SweepEnded(WsNow, ok) ELSE WsNow
      BY <1>7, EditRayWrites
    <3>2. WsNow = [wvol |-> WsNow.wvol, last_path |-> WsNow.last_path]
      <4>1. PICK x : WsNow = wio \/ WsNow = [wio EXCEPT !.wvol = x]
        BY DEF WsNow, RayWritten
      <4>2. QED
        BY <4>1 DEF Shape
    <3>3. PICK y : SweepEnded(WsNow, ok) = [wvol |-> NoVolume, last_path |-> y]
      BY DEF SweepEnded
    <3>4. QED
      BY <3>1, <3>2, <3>3
  <2>5. QED
    BY <2>2, <2>3, <2>4 DEF Shape, IsEditor, IsState
<1>8. ASSUME NEW f \in Frames, NEW command \in Commands, NEW auto \in BOOLEAN,
             DoIt(f, command, auto)
      PROVE  Shape'
  <2>1. io' = io /\ wio' = wio /\ IsEditor(se') /\ se'.frame \in EditFrames
    BY <1>8, DoItStarts
  <2>2. QED
    BY <2>1 DEF Shape, IsEditor, IsState
<1>9. ASSUME NEW f \in Frames, Undo(f)
      PROVE  Shape'
  <2>1. wio' = wio /\ IsEditor(se') /\ DropReadCaches(f) /\ se'.frame \in EditFrames
    BY <1>9, UndoDone
  <2>2. io' = [w \in Windows |-> io'[w]] /\ \A w \in Windows : IsState(io'[w])
    BY <2>1, CachesDropped
  <2>3. QED
    BY <2>1, <2>2 DEF Shape, IsEditor, IsState
<1>10. QED
  BY <1>1, <1>3, <1>4, <1>5, <1>6, <1>7, <1>8, <1>9, Steps

LEMMA ShapeStart == Init => Shape
<1> SUFFICES ASSUME Init PROVE Shape
  OBVIOUS
<1>1. PICK p : LET st == HeaderRead(ClosedState, p, 0, InitFiles)
               IN  io = [w \in Windows |-> IF w \in {Lead(f) : f \in Frames}
                                          THEN [st EXCEPT !.cursor = st.nrays]
                                          ELSE ClosedState]
  BY DEF Init
<1>2. PICK st : st = HeaderRead(ClosedState, p, 0, InitFiles)
  OBVIOUS
<1>3. PICK t : t = [st EXCEPT !.cursor = st.nrays]
  OBVIOUS
<1>4. IsState(ClosedState)
  BY DEF IsState, ClosedState
<1>5. IsState(st)
  BY <1>2, <1>4, HeaderReadVolume
<1>6. IsState(t)
  BY <1>3, <1>5, CursorSet
<1>7. io = [w \in Windows |-> IF w \in {Lead(f) : f \in Frames} THEN t ELSE ClosedState]
  BY <1>1, <1>2, <1>3
<1>8. io = [w \in Windows |-> io[w]] /\ \A w \in Windows : IsState(io[w])
  BY <1>4, <1>6, <1>7
<1>9. wio = [wvol |-> wio.wvol, last_path |-> wio.last_path]
  BY DEF Init, ClosedWrite
<1>10. IsEditor(se) /\ Idle
  BY DEF Init, EditorIdle, IsEditor, Idle
<1>11. QED
  BY <1>8, <1>9, <1>10 DEF Shape

LEMMA SessionShape == Spec => []Shape
BY ShapeStart, ShapeStep, PTL DEF Spec

----------------------------------------------------------------------------
(* The volume being written.                                               *)

(* No command list takes away the field it edits: LeftoverRays.cfg shows   *)
(* what one that does leaves behind.                                       *)
FieldsKept == "use_then_drop" \notin Commands

(* Command lists that give up at their first ray, or only look.            *)
WritesNothing == {"survey", "no_such_field", "no_such_const"}

(* Rays wait in the write state only while the loop of an edit is between  *)
(* two rays of a sweep and nothing has asked it to stop: a command that    *)
(* gives up does so at its first ray, and one that only looks writes none. *)
RaysWait ==
  wio.wvol # NoVolume =>
    /\ se.pc = "loop" /\ ~halt /\ ~(se.ray_num >= se.num_rays)
    /\ se.command \notin WritesNothing

LooksOnly ==
  se.pc = "loop" =>
    /\ se.command # "use_then_drop"
    /\ se.command \in {"survey", "no_such_const"} => ~se.modified

WriteInv == RaysWait /\ LooksOnly

LEMMA WriteStart == Init => WriteInv
BY DEF Init, ClosedWrite, EditorIdle, WriteInv, RaysWait, LooksOnly

LEMMA WriteStep ==
  ASSUME FieldsKept
  PROVE  Shape /\ WriteInv /\ [Next]_vars => WriteInv'
<1> SUFFICES ASSUME Shape, WriteInv, [Next]_vars PROVE WriteInv'
  OBVIOUS
<1>1. ASSUME wio' = wio, ~(se.pc = "loop"), ~(se'.pc = "loop")
      PROVE  WriteInv'
  BY <1>1 DEF WriteInv, RaysWait, LooksOnly
<1>2. CASE Untouched
  BY <1>2 DEF Untouched, WriteInv, RaysWait, LooksOnly, Idle
<1>3. CASE Looks
  BY <1>1, <1>3 DEF Looks, Idle
<1>4. CASE ReplotReads
  BY <1>1, <1>4 DEF ReplotReads
<1>5. CASE LoopEnds
  BY <1>5 DEF LoopEnds, WriteInv, RaysWait, LooksOnly, Opens
<1>6. CASE EndDoIt
  BY <1>1, <1>6, DoItEnds
<1>7. ASSUME NEW ok \in WriteResults, EditRay(ok)
      PROVE  WriteInv'
  <2>1. /\ se.pc = "loop" /\ ~halt /\ halt' = halt
        /\ se.command # "use_then_drop"
        /\ se.command \in {"survey", "no_such_const"} => ~se.modified
    BY <1>7, EditRayReads DEF WriteInv, RaysWait, LooksOnly
  <2>2. /\ wio' = IF EndsNow THEN SweepEnded(WsNow, ok) ELSE WsNow
        /\ se'.pc = (IF PuntNow THEN "post" ELSE "loop")
        /\ se'.modified = (se.modified \/ Modifies(se.command))
        /\ se'.command = se.command /\ se'.ray_num = RayNow /\ se'.num_rays = TotalNow
    BY <1>7, EditRayWrites
  <2>3. LooksOnly'
    BY <2>1, <2>2 DEF Modifies, LooksOnly
  <2>4. ASSUME wio'.wvol # NoVolume
        PROVE  /\ se'.pc = "loop" /\ ~halt'
               /\ ~(se'.ray_num >= se'.num_rays)
               /\ se'.command \notin WritesNothing
    <3>1. ~EndsNow /\ wio' = WsNow
      BY <2>2, <2>4 DEF SweepEnded
    <3>2. CASE DumpsNow
      <4>1. ~(RayNow >= TotalNow) /\ ~PuntNow
        BY <3>1, <3>2 DEF EndsNow, DumpsNow
      <4>2. QED
        BY <2>1, <2>2, <3>1, <3>2, <4>1 DEF PuntNow, Punts, DumpsNow, Modifies, WritesNothing
    <3>3. CASE ~DumpsNow
      <4>1. wio.wvol # NoVolume
        BY <2>4, <3>1, <3>3 DEF WsNow
      <4>2. se.command \notin WritesNothing
        BY <4>1 DEF WriteInv, RaysWait, LooksOnly
      <4>3. ~PuntNow
        BY <2>1, <4>2 DEF PuntNow, Punts, WritesNothing
      <4>4. QED
        BY <3>3, <4>2, <4>3 DEF DumpsNow, Modifies, WritesNothing
    <3>4. QED
      BY <3>2, <3>3
  <2>5. QED
    <3>1. RaysWait'
      BY <2>4 DEF RaysWait
    <3>2. QED
      BY <2>3, <3>1 DEF WriteInv
<1>8. ASSUME NEW f \in Frames, NEW command \in Commands, NEW auto \in BOOLEAN,
             DoIt(f, command, auto)
      PROVE  WriteInv'
  <2>1. /\ Idle /\ wio' = wio /\ se'.command = command
        /\ se'.pc = "loop" => se'.modified = FALSE
    BY <1>8, DoItStarts
  <2>2. wio.wvol = NoVolume
    BY <2>1 DEF WriteInv, RaysWait, LooksOnly, Idle
  <2>3. QED
    BY <2>1, <2>2 DEF WriteInv, RaysWait, LooksOnly, FieldsKept
<1>9. ASSUME NEW f \in Frames, Undo(f)
      PROVE  WriteInv'
  BY <1>1, <1>9, UndoDone DEF Idle
<1>10. QED
  BY <1>2, <1>3, <1>4, <1>5, <1>6, <1>7, <1>8, <1>9, Steps

(* A halt is asked for between events: a Do It either finds it at once, or *)
(* never does.                                                             *)
HaltBetween == se.pc = "loop" /\ halt => SweepOver

LEMMA HaltStep == Shape /\ HaltBetween /\ [Next]_vars => HaltBetween'
<1> SUFFICES ASSUME Shape, HaltBetween, [Next]_vars PROVE HaltBetween'
  OBVIOUS
<1>1. CASE Untouched
  BY <1>1 DEF Untouched, HaltBetween, SweepOver, Idle
<1>2. CASE Looks \/ ReplotReads
  BY <1>2 DEF Looks, ReplotReads, HaltBetween, Idle
<1>3. CASE LoopEnds
  BY <1>3 DEF LoopEnds, HaltBetween
<1>4. CASE EndDoIt
  BY <1>4, DoItEnds DEF HaltBetween
<1>5. ASSUME NEW ok \in WriteResults, EditRay(ok)
      PROVE  HaltBetween'
  BY <1>5, EditRayReads DEF HaltBetween
<1>6. ASSUME NEW f \in Frames, NEW command \in Commands, NEW auto \in BOOLEAN,
             DoIt(f, command, auto)
      PROVE  HaltBetween'
  <2>1. se'.ray_num = 0 /\ se'.num_rays = 0
    BY <1>6, DoItStarts
  <2>2. QED
    BY <2>1 DEF HaltBetween, SweepOver
<1>7. ASSUME NEW f \in Frames, Undo(f)
      PROVE  HaltBetween'
  BY <1>7, UndoDone DEF HaltBetween
<1>8. QED
  BY <1>1, <1>2, <1>3, <1>4, <1>5, <1>6, <1>7, Steps

(* What a step may leave in the write state.                               *)
LeftBehind ==
  ~Collecting' /\ wio'.wvol # NoVolume => GivesUp \/ (~Collecting /\ UNCHANGED wio)

LEMMA RaysLeftBehind ==
  ASSUME Shape, HaltBetween, [Next]_vars
  PROVE  LeftBehind
<1>1. ASSUME wio' = wio, ~(se.pc = "loop")
      PROVE  LeftBehind
  BY <1>1 DEF LeftBehind, Collecting
<1>2. CASE Untouched
  BY <1>2 DEF Untouched, LeftBehind, Collecting, SweepOver
<1>3. CASE Looks \/ ReplotReads
  BY <1>1, <1>3 DEF Looks, ReplotReads, Idle
<1>4. CASE LoopEnds
  <2>1. SweepOver /\ wio' = wio
    BY <1>4 DEF LoopEnds, HaltBetween, SweepOver, Opens
  <2>2. QED
    BY <2>1 DEF LeftBehind, Collecting
<1>5. CASE EndDoIt
  BY <1>1, <1>5, DoItEnds
<1>6. ASSUME NEW ok \in WriteResults, EditRay(ok)
      PROVE  LeftBehind
  <2>1. /\ wio' = IF EndsNow THEN SweepEnded(WsNow, ok) ELSE WsNow
        /\ se'.pc = (IF PuntNow THEN "post" ELSE "loop")
        /\ se'.modified = (se.modified \/ Modifies(se.command))
        /\ se'.ray_num = RayNow /\ se'.num_rays = TotalNow
    BY <1>6, EditRayWrites
  <2>2. CASE PuntNow
    BY <2>1, <2>2 DEF LeftBehind, GivesUp, PuntNow
  <2>3. CASE ~PuntNow /\ DumpsNow /\ ~EndsNow
    BY <2>1, <2>3 DEF LeftBehind, Collecting, SweepOver, DumpsNow, EndsNow
  <2>4. CASE EndsNow
    BY <2>1, <2>4 DEF LeftBehind, SweepEnded
  <2>5. CASE ~PuntNow /\ ~DumpsNow
    <3>1. wio' = wio /\ ~se.modified
      BY <2>1, <2>5 DEF DumpsNow, EndsNow, WsNow
    <3>2. QED
      BY <3>1 DEF LeftBehind, Collecting
  <2>6. QED
    BY <2>2, <2>3, <2>4, <2>5
<1>7. ASSUME NEW f \in Frames, NEW command \in Commands, NEW auto \in BOOLEAN,
             DoIt(f, command, auto)
      PROVE  LeftBehind
  BY <1>1, <1>7, DoItStarts DEF Idle
<1>8. ASSUME NEW f \in Frames, Undo(f)
      PROVE  LeftBehind
  BY <1>1, <1>8, UndoDone DEF Idle
<1>9. QED
  BY <1>2, <1>3, <1>4, <1>5, <1>6, <1>7, <1>8, Steps

(* Only a command list that gives up leaves rays in the write state, for   *)
(* any command lists, the one that gives up after a written ray included;  *)
(* halts, failed writes and the ends of sweeps and spans (dd_edd) do not.  *)
THEOREM RaysLeftByGivingUp == Spec => OnlyGivingUpLeavesRays
<1>1. Init => HaltBetween
  BY DEF Init, EditorIdle, HaltBetween
<1>2. Shape /\ HaltBetween /\ [Next]_vars => HaltBetween'
  BY HaltStep
<1>3. Shape /\ HaltBetween /\ [Next]_vars => [LeftBehind]_vars
  BY RaysLeftBehind
<1>4. [][LeftBehind]_vars => OnlyGivingUpLeavesRays
  BY PTL DEF LeftBehind, OnlyGivingUpLeavesRays
<1>5. QED
  BY <1>1, <1>2, <1>3, <1>4, SessionShape, PTL DEF Spec

----------------------------------------------------------------------------
(* What the windows hold.                                                  *)

(* The frames of the editing windows share their sweep with all frames, as *)
(* all frames do at startup; a frame with a sweep of its own keeps its     *)
(* cache of a file that is edited elsewhere.                               *)
SweepShared == \A f \in EditFrames : Link[f] = Frames

CachedAsOnDisk == \A w \in Windows : io[w].vol # NoVolume => io[w].vol = disk[io[w].path]

(* The disk changes while the caches stay, but only in a Do It that has    *)
(* marked the sweep modified, and its end drops every cache.               *)
FreshInv == (se.pc \in {"loop", "post"} => ~se.modified) => CachedAsOnDisk

LEMMA FreshStart == Init => FreshInv
<1> SUFFICES ASSUME Init PROVE FreshInv
  OBVIOUS
<1>1. PICK p : LET st == HeaderRead(ClosedState, p, 0, InitFiles)
               IN  io = [w \in Windows |-> IF w \in {Lead(f) : f \in Frames}
                                          THEN [st EXCEPT !.cursor = st.nrays]
                                          ELSE ClosedState]
  BY DEF Init
<1>2. PICK st : st = HeaderRead(ClosedState, p, 0, InitFiles)
  OBVIOUS
<1>3. PICK t : t = [st EXCEPT !.cursor = st.nrays]
  OBVIOUS
<1>4. IsState(ClosedState) /\ ClosedState.vol = NoVolume
  BY DEF IsState, ClosedState
<1>5. IsState(st) /\ st.vol = InitFiles[p] /\ (st.vol # NoVolume => st.path = p)
  BY <1>2, <1>4, HeaderReadVolume DEF VolumeRead
<1>6. t.vol = InitFiles[p] /\ (t.vol # NoVolume => t.path = p)
  BY <1>3, <1>5, CursorSet
<1>7. io = [w \in Windows |-> IF w \in {Lead(f) : f \in Frames} THEN t ELSE ClosedState]
  BY <1>1, <1>2, <1>3
<1>8. disk = InitFiles
  BY DEF Init
<1>9. QED
  BY <1>4, <1>6, <1>7, <1>8 DEF FreshInv, CachedAsOnDisk

(* A volume that is read is the cached one or what the disk holds.         *)
LEMMA ReadsFresh ==
  ASSUME CachedAsOnDisk, Reads, disk' = disk
  PROVE  CachedAsOnDisk'
BY DEF CachedAsOnDisk, Reads, ReadFrom, Windows, NoVolume

LEMMA DropsFresh ==
  ASSUME Shape, SweepShared, NEW f \in EditFrames, DropReadCaches(f)
  PROVE  CachedAsOnDisk'
<1>1. \A w \in {SE_FRAME} \cup Link[f] : w \in Windows => io'[w].vol = NoVolume
  BY CachesDropped
<1>2. Link[f] = Frames
  BY DEF SweepShared
<1>3. \A w \in Windows : io'[w].vol = NoVolume
  BY <1>1, <1>2 DEF Windows
<1>4. QED
  BY <1>3 DEF CachedAsOnDisk, Windows, NoVolume

LEMMA FreshStep ==
  ASSUME SweepShared
  PROVE  Shape /\ FreshInv /\ [Next]_vars => FreshInv'
<1> SUFFICES ASSUME Shape, FreshInv, [Next]_vars PROVE FreshInv'
  OBVIOUS
<1>1. ASSUME io' = io, disk' = disk, CachedAsOnDisk
      PROVE  CachedAsOnDisk'
  BY <1>1 DEF CachedAsOnDisk, Windows
<1>2. CASE Untouched
  BY <1>1, <1>2 DEF Untouched, FreshInv
<1>3. CASE Looks
  BY <1>3, ReadsFresh DEF Looks, FreshInv, Idle
<1>4. CASE ReplotReads
  BY <1>4, ReadsFresh DEF ReplotReads, FreshInv
<1>5. CASE LoopEnds
  BY <1>1, <1>5 DEF LoopEnds, FreshInv
<1>6. CASE EndDoIt
  <2>1. /\ se.pc = "post" /\ disk' = disk
        /\ IF se.modified THEN DropReadCaches(se.frame) ELSE io' = io
    BY <1>6, DoItEnds
  <2>2. CASE se.modified
    <3>1. se.frame \in EditFrames
      BY <2>1 DEF Shape, Idle
    <3>2. QED
      BY <2>1, <2>2, <3>1, DropsFresh DEF FreshInv
  <2>3. CASE ~se.modified
    BY <1>1, <2>1, <2>3 DEF FreshInv
  <2>4. QED
    BY <2>2, <2>3
<1>7. ASSUME NEW ok \in WriteResults, EditRay(ok)
      PROVE  FreshInv'
  <2>1. SUFFICES ASSUME ~se'.modified PROVE CachedAsOnDisk'
    <3>1. se'.pc = (IF PuntNow THEN "post" ELSE "loop")
      BY <1>7, EditRayWrites
    <3>2. se'.pc \in {"loop", "post"}
      BY <3>1
    <3>3. CASE se'.modified
      BY <3>2, <3>3 DEF FreshInv
    <3>4. CASE ~se'.modified
      <4>1. CachedAsOnDisk'
        BY <2>1, <3>4
      <4>2. QED
        BY <4>1 DEF FreshInv
    <3>5. QED
      BY <3>3, <3>4
  <2>2. ~se.modified /\ ~Modifies(se.command)
    BY <1>7, <2>1, EditRayWrites
  <2>3. CachedAsOnDisk
    BY <2>2 DEF FreshInv
  <2>4. ~EndsNow
    BY <2>2 DEF EndsNow, DumpsNow
  <2>5. disk' = disk
    BY <1>7, <2>4, EditRayWrites
  <2>6. io' = [w \in Windows |-> IF w = SE_FRAME THEN RayRead(StNow) ELSE io[w]]
    BY <1>7, EditRayReads
  <2>7. ReadFrom(io[SE_FRAME], StNow)
    <3>1. IsState(io[SE_FRAME])
      BY DEF Shape, Windows
    <3>2. CASE Opens
      <4>1. StNow = HeaderRead(io[SE_FRAME], FileNow, req[SE_FRAME], disk)
        BY <3>2 DEF StNow
      <4>2. QED
        BY <3>1, <4>1, HeaderReadFrom
    <3>3. CASE ~Opens
      <4>1. StNow = io[SE_FRAME]
        BY <3>3 DEF StNow
      <4>2. QED
        BY <3>1, <4>1 DEF ReadFrom
    <3>4. QED
      BY <3>2, <3>3
  <2>8. ReadFrom(io[SE_FRAME], RayRead(StNow))
    <3>1. PICK s, c : s = StNow /\ c = s.cursor + 1
      OBVIOUS
    <3>2. PICK u : u = [s EXCEPT !.cursor = c]
      OBVIOUS
    <3>3. ReadFrom(io[SE_FRAME], s)
      BY <2>7, <3>1
    <3>4. ReadFrom(io[SE_FRAME], u)
      BY <3>2, <3>3, RereadFrom
    <3>5. u = RayRead(StNow)
      BY <3>1, <3>2 DEF RayRead
    <3>6. QED
      BY <3>4, <3>5
  <2>9. PICK t : t = RayRead(StNow)
    OBVIOUS
  <2>10. t.vol # NoVolume => t.vol = disk[t.path]
    BY <2>3, <2>8, <2>9 DEF ReadFrom, CachedAsOnDisk, Windows
  <2>11. QED
    BY <2>3, <2>5, <2>6, <2>9, <2>10 DEF CachedAsOnDisk, Windows, NoVolume
<1>8. ASSUME NEW f \in Frames, NEW command \in Commands, NEW auto \in BOOLEAN,
             DoIt(f, command, auto)
      PROVE  FreshInv'
  <2>1. Idle /\ io' = io /\ disk' = disk
    BY <1>8, DoItStarts
  <2>2. QED
    BY <1>1, <2>1 DEF FreshInv, Idle
<1>9. ASSUME NEW f \in Frames, Undo(f)
      PROVE  FreshInv'
  <2>1. f \in EditFrames /\ DropReadCaches(f)
    BY <1>9, UndoDone
  <2>2. QED
    BY <2>1, DropsFresh DEF FreshInv
<1>10. QED
  BY <1>2, <1>3, <1>4, <1>5, <1>6, <1>7, <1>8, <1>9, Steps

LEMMA SessionFresh == ASSUME SweepShared PROVE Spec => []FreshInv
<1>1. Shape /\ FreshInv /\ [Next]_vars => FreshInv'
  BY FreshStep
<1>2. QED
  BY <1>1, FreshStart, SessionShape, PTL DEF Spec

(* Between events no window holds a volume that is no longer what its file *)
(* holds: every cache an edit or an undo made stale has been dropped       *)
(* (se_invalidate_read_caches).                                            *)
THEOREM NoStaleCache == ASSUME SweepShared PROVE Spec => []CachesFresh
<1>1. FreshInv => CachesFresh
  BY DEF FreshInv, CachedAsOnDisk, CachesFresh, Idle
<1>2. QED
  BY <1>1, SessionFresh, PTL

----------------------------------------------------------------------------
(* What the catalog's lookups answer.                                      *)

(* The k-th of a finite set of integers.                                   *)
LEMMA OrderedIntegers ==
  ASSUME NEW S \in SUBSET Int, IsFiniteSet(S), NEW k \in 1 .. Cardinality(S)
  PROVE  /\ Ordered(S, <)[k] \in S
         /\ Cardinality({y \in S : y < Ordered(S, <)[k]}) = k - 1
<1>1. Cardinality(S) \in Nat
  BY FS_CardinalityType
<1>2. k - 1 \in Nat /\ k - 1 < Cardinality(S)
  BY <1>1
<1>3. \E x \in S : Cardinality({y \in S : y < x}) = k - 1
  BY <1>2, RankExists
<1>4. Ordered(S, <)[k] = CHOOSE x \in S : Cardinality({y \in S : y < x}) = k - 1
  BY DEF Ordered
<1>5. QED
  BY <1>3, <1>4

LEMMA Greatest ==
  ASSUME NEW S \in SUBSET Int, IsFiniteSet(S), S # {}
  PROVE  Max(S) \in S /\ Highest(S) # {} /\ Highest(S) \subseteq S
<1>1. PICK m \in S : \A x \in S : x <= m
  BY GreatestElement
<1>2. \A x \in S : m >= x
  BY <1>1
<1>3. QED
  BY <1>1, <1>2 DEF Max, Highest

LEMMA Least ==
  ASSUME NEW S \in SUBSET Int, IsFiniteSet(S), S # {}
  PROVE  Min(S) \in S /\ Lowest(S) # {} /\ Lowest(S) \subseteq S
<1>1. PICK m \in S : \A x \in S : m <= x
  BY LeastElement
<1>2. QED
  BY <1>1 DEF Min, Lowest

LEMMA FunctionInSeq ==
  ASSUME NEW S, NEW n \in Nat, NEW f, f = [i \in 1 .. n |-> f[i]],
         \A i \in 1 .. n : f[i] \in S
  PROVE  f \in Seq(S) /\ Len(f) = n
OBVIOUS

LEMMA ListingOK ==
  ASSUME NEW names \in Seq(Paths)
  PROVE  /\ Listing(names) \in Seq(Entry) /\ DOMAIN Listing(names) = DOMAIN names
         /\ \A i \in DOMAIN names : /\ Listing(names)[i].file = names[i]
                                   /\ Listing(names)[i].stamp = names[i][1]
<1>1. Len(names) \in Nat /\ DOMAIN names = 1 .. Len(names)
  BY LenProperties
<1>2. \A i \in DOMAIN names : names[i] \in Paths
  BY ElementOfSeq, <1>1
<1>3. \A p \in Paths : p[1] \in Times
  BY DEF Paths
<1>4. \A i \in DOMAIN names :
        [stamp |-> names[i][1], version |-> 1, file |-> names[i]] \in Entry
  BY <1>2, <1>3 DEF Entry
<1>5. Listing(names) = [i \in 1 .. Len(names) |->
                          [stamp |-> names[i][1], version |-> 1, file |-> names[i]]]
  BY <1>1 DEF Listing
<1>6. Listing(names) \in Seq(Entry)
  BY <1>1, <1>4, <1>5, FunctionInSeq
<1>7. QED
  BY <1>1, <1>5, <1>6

LEMMA StampsOK ==
  ASSUME NEW c \in Seq(Entry)
  PROVE  /\ Stamps(c) \in SUBSET Int /\ Stamps(c) \subseteq Times /\ IsFiniteSet(Stamps(c))
         /\ DOMAIN c \in SUBSET Int /\ IsFiniteSet(DOMAIN c)
         /\ \A i \in DOMAIN c : c[i] \in Entry
<1>1. Len(c) \in Nat /\ DOMAIN c = 1 .. Len(c)
  BY LenProperties
<1>2. \A i \in DOMAIN c : c[i] \in Entry
  BY <1>1, ElementOfSeq
<1>3. Stamps(c) \subseteq Times
  BY <1>2 DEF Stamps, Entry
<1>4. Times \in SUBSET Int /\ IsFiniteSet(Times)
  BY RadarIOAssumption, FS_Interval DEF Times
<1>5. Stamps(c) \in SUBSET Int /\ IsFiniteSet(Stamps(c))
  BY <1>3, <1>4, FS_Subset
<1>6. IsFiniteSet(DOMAIN c) /\ DOMAIN c \in SUBSET Int
  BY <1>1, FS_Interval
<1>7. QED
  BY <1>2, <1>3, <1>5, <1>6

(* The version of a time is an entry of that time.                         *)
LEMMA VersionFound ==
  ASSUME NEW c \in Seq(Entry), NEW t \in Stamps(c), NEW v \in Int
  PROVE  /\ VersionRequested(c, t, v) \in DOMAIN c
         /\ c[VersionRequested(c, t, v)].stamp = t
<1> DEFINE At    == {i \in DOMAIN c : c[i].stamp = t}
           exact == {i \in DOMAIN c : c[i].stamp = t /\ c[i].version = v}
           below == {i \in DOMAIN c : c[i].stamp = t /\ c[i].version < v}
           above == {i \in DOMAIN c : c[i].stamp = t /\ c[i].version > v}
           pred  == {i \in below : \A j \in below : c[j].version <= c[i].version}
           succ  == {i \in above : \A j \in above : c[j].version >= c[i].version}
           Both  == Highest(pred) \cup Lowest(succ)
<1>1. VersionRequested(c, t, v) = IF exact # {} THEN Min(exact) ELSE Max(Both)
  BY DEF VersionRequested
<1>2. /\ DOMAIN c \in SUBSET Int /\ IsFiniteSet(DOMAIN c)
      /\ \A i \in DOMAIN c : c[i].version = 1
  BY StampsOK DEF Entry
<1>3. PICK k \in DOMAIN c : c[k].stamp = t
  BY DEF Stamps
<1>4. /\ exact \subseteq At /\ pred \subseteq At /\ succ \subseteq At
      /\ At \subseteq DOMAIN c
  OBVIOUS
<1>5. \A S \in SUBSET (DOMAIN c) : S \in SUBSET Int /\ IsFiniteSet(S)
  BY <1>2, FS_Subset
<1>6. exact # {} \/ pred # {} \/ succ # {}
  <2>1. CASE v = 1
    <3>1. k \in exact
      BY <1>2, <1>3, <2>1
    <3>2. QED
      BY <3>1
  <2>2. CASE 1 < v
    <3>1. k \in pred
      BY <1>2, <1>3, <2>2
    <3>2. QED
      BY <3>1
  <2>3. CASE v < 1
    <3>1. k \in succ
      BY <1>2, <1>3, <2>3
    <3>2. QED
      BY <3>1
  <2>4. QED
    BY <2>1, <2>2, <2>3
<1> HIDE DEF exact, pred, succ, below, above, At
<1>7. CASE exact # {}
  <2>1. exact \in SUBSET Int /\ IsFiniteSet(exact)
    BY <1>4, <1>5
  <2>2. Min(exact) \in exact
    BY <1>7, <2>1, Least
  <2>3. QED
    BY <1>1, <1>4, <1>7, <2>2 DEF At
<1>8. CASE exact = {}
  <2>1. /\ pred \in SUBSET Int /\ IsFiniteSet(pred)
        /\ succ \in SUBSET Int /\ IsFiniteSet(succ)
    BY <1>4, <1>5
  <2>2. Highest(pred) \subseteq pred /\ Lowest(succ) \subseteq succ
    BY DEF Highest, Lowest
  <2>3. Both # {}
    BY <1>6, <1>8, <2>1, Greatest, Least
  <2>4. Both \subseteq At
    BY <1>4, <2>2
  <2> HIDE DEF Both
  <2>5. Both \in SUBSET Int /\ IsFiniteSet(Both)
    BY <1>4, <1>5, <2>4
  <2>6. Max(Both) \in Both
    BY <2>3, <2>5, Greatest
  <2>7. QED
    BY <1>1, <1>8, <2>4, <2>6 DEF At
<1>9. QED
  BY <1>7, <1>8

(* A request finds an entry; the nearest one there always is.              *)
LEMMA SearchFinds ==
  ASSUME NEW c \in Seq(Entry), NEW target \in Int, NEW request, NEW v \in Int
  PROVE  /\ Search(c, target, request, v) \subseteq DOMAIN c
         /\ c # << >> => Search(c, target, TIME_NEAREST, v) # {}
<1> DEFINE before == Highest({t \in Stamps(c) : t < target})
           after  == Lowest({t \in Stamps(c) : t > target})
<1>1. before \subseteq Stamps(c) /\ after \subseteq Stamps(c)
  BY DEF Highest, Lowest
<1>2. \A r : \/ TimeRequested(c, target, r) \in {before, after}
             \/ TimeRequested(c, target, r) = {target} /\ target \in Stamps(c)
  BY DEF TimeRequested
<1>3. \A r : TimeRequested(c, target, r) \subseteq Stamps(c)
  BY <1>1, <1>2
<1>4. Search(c, target, request, v) \subseteq DOMAIN c
  BY <1>3, VersionFound DEF Search
<1>5. ASSUME c # << >>
      PROVE  TimeRequested(c, target, TIME_NEAREST) # {}
  <2>1. 1 \in DOMAIN c
    BY <1>5, EmptySeq, LenProperties
  <2>2. c[1].stamp \in Stamps(c)
    BY <2>1 DEF Stamps
  <2>3. target \in Stamps(c) \/ before # {} \/ after # {}
    <3>1. CASE c[1].stamp < target
      <4> DEFINE S == {t \in Stamps(c) : t < target}
      <4>1. S # {} /\ S \subseteq Stamps(c)
        BY <2>2, <3>1
      <4>2. S \in SUBSET Int /\ IsFiniteSet(S)
        BY <4>1, StampsOK, FS_Subset
      <4> HIDE DEF S
      <4>3. Highest(S) # {}
        BY <4>1, <4>2, Greatest
      <4>4. QED
        BY <4>3 DEF S
    <3>2. CASE c[1].stamp > target
      <4> DEFINE S == {t \in Stamps(c) : t > target}
      <4>1. S # {} /\ S \subseteq Stamps(c)
        BY <2>2, <3>2
      <4>2. S \in SUBSET Int /\ IsFiniteSet(S)
        BY <4>1, StampsOK, FS_Subset
      <4> HIDE DEF S
      <4>3. Lowest(S) # {}
        BY <4>1, <4>2, Least
      <4>4. QED
        BY <4>3 DEF S
    <3>3. c[1].stamp \in Int
      BY <2>2, StampsOK
    <3>4. CASE c[1].stamp = target
      BY <2>2, <3>4
    <3>5. c[1].stamp < target \/ c[1].stamp > target \/ c[1].stamp = target
      BY <3>3
    <3>6. QED
      BY <3>1, <3>2, <3>4, <3>5
  <2>4. PICK b, a : b = before /\ a = after
    OBVIOUS
  <2>5. TimeRequested(c, target, TIME_NEAREST) =
          IF target \in Stamps(c) THEN {target}
          ELSE IF a = {} \/ \E l \in b, n \in a : target - l < n - target THEN b ELSE a
    BY <2>4 DEF TimeRequested, TIME_NEAREST, TIME_AFTER, TIME_BEFORE
  <2> HIDE DEF before, after
  <2>6. QED
    BY <2>3, <2>4, <2>5
<1>6. QED
  BY <1>4, <1>5 DEF Search

(* The sweeps of a span: files of the directory, in order of time and one  *)
(* of each.                                                                *)
LEMMA SweepsListed ==
  ASSUME NEW c \in Seq(Entry), NEW from, NEW to
  PROVE  /\ SweepsToEdit(c, from, to) \in Seq(Paths)
         /\ \A i \in DOMAIN SweepsToEdit(c, from, to) :
              \E k \in DOMAIN c : c[k].file = SweepsToEdit(c, from, to)[i]
<1> DEFINE started == {t \in Stamps(c) : t >= from}
           inside  == {t \in started : t <= to}
           times   == IF inside = {} THEN Lowest(started) ELSE inside
           At(i)   == VersionRequested(c, Ordered(times, <)[i], LatestVersion)
           list    == SweepsToEdit(c, from, to)
<1>1. list = [i \in 1 .. Cardinality(times) |-> c[At(i)].file]
  BY DEF SweepsToEdit
<1>2. times \subseteq Stamps(c)
  BY DEF Lowest
<1>3. times \in SUBSET Int /\ IsFiniteSet(times) /\ Cardinality(times) \in Nat
  <2> HIDE DEF times
  <2>1. QED
    BY <1>2, StampsOK, FS_Subset, FS_CardinalityType
<1> HIDE DEF times
<1>4. \A i \in 1 .. Cardinality(times) : Ordered(times, <)[i] \in times
  BY <1>3, OrderedIntegers
<1>5. LatestVersion \in Int
  BY DEF LatestVersion
<1>6. \A i \in 1 .. Cardinality(times) : At(i) \in DOMAIN c
  BY <1>2, <1>4, <1>5, VersionFound
<1>7. \A i \in 1 .. Cardinality(times) : c[At(i)].file \in Paths
  BY <1>6, StampsOK DEF Entry
<1> HIDE DEF At, list
<1>8. list \in Seq(Paths)
  BY <1>1, <1>3, <1>7, FunctionInSeq
<1>9. QED
  BY <1>1, <1>6, <1>8 DEF list

(* A span of one time that sweeps start at is of one sweep.                *)
LEMMA OneListed ==
  ASSUME NEW c \in Seq(Entry), NEW t \in Stamps(c)
  PROVE  \E k \in DOMAIN c : c[k].stamp = t /\ SweepsToEdit(c, t, t) = <<c[k].file>>
<1> DEFINE started == {s \in Stamps(c) : s >= t}
           inside  == {s \in started : s <= t}
           times   == IF inside = {} THEN Lowest(started) ELSE inside
           At(i)   == VersionRequested(c, Ordered(times, <)[i], LatestVersion)
<1>1. SweepsToEdit(c, t, t) = [i \in 1 .. Cardinality(times) |-> c[At(i)].file]
  BY DEF SweepsToEdit
<1>2. Stamps(c) \in SUBSET Int /\ t \in Int
  BY StampsOK
<1>3. inside = {t}
  BY <1>2
<1>4. times = {t}
  BY <1>3
<1> HIDE DEF times
<1>5. Cardinality(times) = 1 /\ IsFiniteSet(times) /\ times \in SUBSET Int
  BY <1>2, <1>4, FS_Singleton
<1>6. Ordered(times, <)[1] = t
  <2>1. 1 \in 1 .. Cardinality(times)
    BY <1>5
  <2>2. Ordered(times, <)[1] \in times
    BY <1>5, <2>1, OrderedIntegers
  <2>3. QED
    BY <1>4, <2>2
<1>7. LatestVersion \in Int
  BY DEF LatestVersion
<1>8. PICK k : k = VersionRequested(c, t, LatestVersion)
  OBVIOUS
<1>9. k \in DOMAIN c /\ c[k].stamp = t
  BY <1>7, <1>8, VersionFound
<1>10. At(1) = k
  BY <1>6, <1>8
<1> HIDE DEF At
<1>11. SweepsToEdit(c, t, t) = <<c[k].file>>
  <2>1. SweepsToEdit(c, t, t) = [i \in 1 .. 1 |-> c[At(i)].file]
    BY <1>1, <1>5
  <2>2. \A i \in 1 .. 1 : i = 1
    OBVIOUS
  <2>3. SweepsToEdit(c, t, t) = [i \in 1 .. 1 |-> c[k].file]
    BY <1>10, <2>1, <2>2
  <2>4. QED
    BY <2>3
<1>12. QED
  BY <1>9, <1>11

(* Every number of the exhaustive list is that of an entry: the order is   *)
(* total, so the entries have as many ranks as there are numbers.          *)
LEMMA EntireListed ==
  ASSUME NEW c \in Seq(Entry), NEW k \in DOMAIN c
  PROVE  LET i == EntireList(c)[k]
         IN  i \in DOMAIN c /\ Cardinality({j \in DOMAIN c : Precedes(c, j, i)}) = k - 1
<1> DEFINE Below(i) == {j \in DOMAIN c : Precedes(c, j, i)}
           rank == [i \in DOMAIN c |-> Cardinality(Below(i))]
<1>1. PICK n \in Nat : DOMAIN c = 1 .. n
  BY LenProperties
<1>2. /\ IsFiniteSet(DOMAIN c) /\ Cardinality(DOMAIN c) = n
      /\ IsFiniteSet(0 .. n - 1) /\ Cardinality(0 .. n - 1) = n
  BY <1>1, FS_Interval
<1>3. \A i \in DOMAIN c : c[i].stamp \in Int /\ c[i].version \in Int /\ i \in Int
  <2> TAKE i \in DOMAIN c
  <2>1. c[i] \in Entry /\ i \in Int
    BY <1>1, StampsOK
  <2>2. c[i].stamp \in Times /\ c[i].version = 1
    BY <2>1 DEF Entry
  <2>3. QED
    BY <2>1, <2>2, RadarIOAssumption DEF Times
<1>4. \A i \in DOMAIN c : ~Precedes(c, i, i)
  BY <1>3 DEF Precedes
<1>5. \A i, j \in DOMAIN c : i # j => Precedes(c, i, j) \/ Precedes(c, j, i)
  BY <1>3 DEF Precedes
<1>6. \A i, j, l \in DOMAIN c : Precedes(c, i, j) /\ Precedes(c, j, l) => Precedes(c, i, l)
  BY <1>3 DEF Precedes
<1>7. \A i \in DOMAIN c : Below(i) \in SUBSET (DOMAIN c)
  OBVIOUS
<1>8. \A i \in DOMAIN c : /\ IsFiniteSet(Below(i)) /\ Cardinality(Below(i)) \in Nat
                         /\ Cardinality(Below(i)) < n
  <2> TAKE i \in DOMAIN c
  <2>1. i \notin Below(i) /\ Below(i) \in SUBSET (DOMAIN c)
    BY <1>4
  <2> HIDE DEF Below
  <2>2. Below(i) # DOMAIN c
    BY <2>1
  <2>3. QED
    BY <1>2, <2>1, <2>2, FS_Subset, FS_CardinalityType
<1>9. ASSUME NEW i \in DOMAIN c, NEW j \in DOMAIN c, Precedes(c, i, j)
      PROVE  Cardinality(Below(i)) < Cardinality(Below(j))
  <2>1. Below(i) \in SUBSET Below(j)
    BY <1>6, <1>9
  <2>2. i \in Below(j) /\ i \notin Below(i)
    BY <1>4, <1>9
  <2>3. IsFiniteSet(Below(j))
    BY <1>8
  <2> HIDE DEF Below
  <2>4. Below(i) # Below(j)
    BY <2>2
  <2>5. QED
    BY <2>1, <2>3, <2>4, FS_Subset, FS_CardinalityType
<1>10. \A i \in DOMAIN c : rank[i] \in 0 .. n - 1
  <2> HIDE DEF Below
  <2>1. QED
    BY <1>8
<1>11. \A i, j \in DOMAIN c : rank[i] = rank[j] => i = j
  <2> TAKE i, j \in DOMAIN c
  <2>1. Cardinality(Below(i)) \in Nat /\ Cardinality(Below(j)) \in Nat
    BY <1>8
  <2>2. CASE Precedes(c, i, j)
    <3>1. Cardinality(Below(i)) < Cardinality(Below(j))
      BY <1>9, <2>2
    <3> HIDE DEF Below
    <3>2. QED
      BY <2>1, <3>1
  <2>3. CASE Precedes(c, j, i)
    <3>1. Cardinality(Below(j)) < Cardinality(Below(i))
      BY <1>9, <2>3
    <3> HIDE DEF Below
    <3>2. QED
      BY <2>1, <3>1
  <2>4. QED
    BY <1>5, <2>2, <2>3
<1>12. PICK m \in DOMAIN c : Cardinality(Below(m)) = k - 1
  <2>1. k - 1 \in 0 .. n - 1
    BY <1>1
  <2>2. \E i \in DOMAIN c : rank[i] = k - 1
    <3> HIDE DEF rank
    <3>1. PICK f, T : f = rank /\ T = 0 .. n - 1
      OBVIOUS
    <3>2. f = [i \in DOMAIN c |-> f[i]]
      BY <3>1 DEF rank
    <3>3. f \in [DOMAIN c -> T]
      BY <1>10, <3>1, <3>2
    <3>4. \A t \in T : \E i \in DOMAIN c : f[i] = t
      <4>1. \A i, j \in DOMAIN c : f[i] = f[j] => i = j
        BY <1>11, <3>1
      <4>2. IsFiniteSet(T) /\ Cardinality(DOMAIN c) = Cardinality(T)
        BY <1>2, <3>1
      <4>3. QED
        BY <3>3, <4>1, <4>2, EveryValueTaken
    <3>5. QED
      BY <2>1, <3>1, <3>4
  <2>3. QED
    BY <2>2
<1>13. k \in 1 .. Cardinality(DOMAIN c)
  BY <1>1, <1>2
<1>14. EntireList(c)[k] = CHOOSE i \in DOMAIN c : Cardinality(Below(i)) = k - 1
  BY <1>13 DEF EntireList, Ordered
<1>15. PICK e : e = EntireList(c)[k]
  OBVIOUS
<1>16. e \in DOMAIN c /\ Cardinality(Below(e)) = k - 1
  <2> HIDE DEF Below
  <2>1. QED
    BY <1>12, <1>14, <1>15
<1>17. Cardinality({j \in DOMAIN c : Precedes(c, j, e)}) = k - 1
  BY <1>16
<1>18. QED
  BY <1>15, <1>16, <1>17
----------------------------------------------------------------------------
(* The invariants.                                                         *)

AnyRay  == [time : Times, gen : Nat]
Volumes == Seq(AnyRay)

(* A volume that holds every ray of the times its name spans, once and in  *)
(* order, of whole sweeps, each edited as a whole.                         *)
Whole(p, vol) ==
  /\ p[1] % RaysPerSweep = 1 % RaysPerSweep /\ p[2] % RaysPerSweep = 0
  /\ Len(vol) = p[2] - p[1] + 1
  /\ \A i \in DOMAIN vol : vol[i].time = p[1] + i - 1
  /\ \A i, j \in DOMAIN vol :
       SweepOf(vol[i]) = SweepOf(vol[j]) => vol[i].gen = vol[j].gen

Holds(p, vol) == vol \in Volumes /\ (vol # NoVolume => Whole(p, vol))

(* Quotient and remainder are what they divide into; and where the         *)
(* quotient changes, a number t ends one sweep and t + 1 starts the next.  *)
LEMMA Division ==
  ASSUME NEW R \in Nat \ {0}, NEW q \in Int, NEW m \in 0 .. R - 1, NEW t \in Int,
         t = R * q + m
  PROVE  t \div R = q /\ t % R = m
<1>1. PICK a, b : a = t \div R /\ b = t % R
  OBVIOUS
<1>2. a \in Int /\ b \in 0 .. R - 1 /\ t = R * a + b
  BY <1>1
<1>3. R * (a - q) = m - b
  BY <1>2
<1>4. a - q \in Int /\ m - b < R /\ m - b > -R
  BY <1>2
<1>5. a - q >= 1 => R * (a - q) >= R
  BY <1>4
<1>6. a - q <= -1 => R * (a - q) <= -R
  BY <1>4
<1>7. a = q
  BY <1>2, <1>3, <1>4, <1>5, <1>6
<1>8. QED
  BY <1>1, <1>2, <1>7

LEMMA NumberChanges ==
  ASSUME NEW R \in Nat \ {0}, NEW t \in Nat \ {0}, t \div R # (t - 1) \div R
  PROVE  t % R = 0 /\ (t + 1) % R = 1 % R
<1>1. PICK q, m : q = t \div R /\ m = t % R
  OBVIOUS
<1>2. q \in Int /\ m \in 0 .. R - 1 /\ t = R * q + m
  BY <1>1
<1>3. m = 0
  <2>1. CASE m >= 1
    <3>1. m - 1 \in 0 .. R - 1 /\ t - 1 = R * q + (m - 1) /\ t - 1 \in Int
      BY <1>2, <2>1
    <3>2. (t - 1) \div R = q
      BY <1>2, <3>1, Division
    <3>3. QED
      BY <1>1, <3>2
  <2>2. QED
    BY <1>2, <2>1
<1>4. (t + 1) % R = 1 % R
  <2>1. CASE R = 1
    BY <2>1
  <2>2. CASE R # 1
    <3>1. 1 \in 0 .. R - 1
      BY <2>2
    <3>2. (t + 1) % R = 1
      <4>1. t + 1 = R * q + 1 /\ t + 1 \in Int
        BY <1>2, <1>3
      <4>2. QED
        BY <1>2, <3>1, <4>1, Division
    <3>3. 1 % R = 1
      <4>1. 1 = R * 0 + 1
        OBVIOUS
      <4>2. QED
        BY <3>1, <4>1, Division
    <3>4. QED
      BY <3>2, <3>3
  <2>3. QED
    BY <2>1, <2>2
<1>5. QED
  BY <1>1, <1>3, <1>4
LEMMA VolumeFacts ==
  ASSUME NEW vol \in Volumes
  PROVE  /\ Len(vol) \in Nat /\ DOMAIN vol = 1 .. Len(vol)
         /\ vol # NoVolume => Len(vol) >= 1
         /\ \A i \in 1 .. Len(vol) : /\ vol[i] \in AnyRay /\ vol[i].time \in Times
                                    /\ vol[i].time \in Nat \ {0} /\ vol[i].gen \in Nat
                                    /\ vol[i] = [time |-> vol[i].time, gen |-> vol[i].gen]
<1>1. vol \in Seq(AnyRay)
  BY DEF Volumes
<1>2. Len(vol) \in Nat /\ DOMAIN vol = 1 .. Len(vol)
  BY <1>1, LenProperties
<1>3. vol # NoVolume => Len(vol) >= 1
  BY <1>1, <1>2, EmptySeq DEF NoVolume
<1>4. \A i \in 1 .. Len(vol) : vol[i] \in AnyRay
  BY <1>1, ElementOfSeq
<1>5. \A r \in AnyRay : /\ r.time \in Times /\ r.time \in Nat \ {0} /\ r.gen \in Nat
                       /\ r = [time |-> r.time, gen |-> r.gen]
  BY RadarIOAssumption DEF AnyRay, Times
<1>6. QED
  BY <1>2, <1>3, <1>4, <1>5

(* A sweep of a whole volume, edited once more, is a whole volume of one   *)
(* sweep under the name the library gives it.                              *)
LEMMA SweepEdges ==
  ASSUME NEW p \in Paths, NEW vol \in Volumes, vol # NoVolume, Whole(p, vol),
         NEW k \in Nat, k < NSweeps(vol), NEW a, NEW b,
         a = SweepStart(vol, k), b = SweepEnd(vol, k)
  PROVE  /\ a \in 1 .. Len(vol) /\ b \in a .. Len(vol) /\ Len(vol) \in Nat /\ p[1] \in Nat
         /\ (p[1] + a - 1) % RaysPerSweep = 1 % RaysPerSweep
         /\ (p[1] + b - 1) % RaysPerSweep = 0
         /\ \A i \in 1 .. Len(vol) : vol[i].time = p[1] + i - 1
         /\ \A i \in a .. b : SweepOf(vol[i]) = SweepOf(vol[a])
<1>1. vol \in Seq(AnyRay) /\ Len(vol) \in Nat /\ DOMAIN vol = 1 .. Len(vol)
  BY VolumeFacts DEF Volumes
<1>2. a \in 1 .. Len(vol) /\ b \in a .. Len(vol)
  BY <1>1, SweepIsRun
<1>3. \A i \in a .. b : SweepOf(vol[i]) = SweepOf(vol[a])
  BY <1>1, SweepHasOneNumber
<1>4. PICK first, last : first = p[1] /\ last = p[2]
  OBVIOUS
<1>5. first \in Nat /\ last \in Nat
  BY <1>4, RadarIOAssumption DEF Paths, Times
<1>6. /\ \A i \in 1 .. Len(vol) : vol[i].time = first + i - 1 /\ vol[i].time \in Nat \ {0}
      /\ Len(vol) = last - first + 1
      /\ first % RaysPerSweep = 1 % RaysPerSweep /\ last % RaysPerSweep = 0
  BY <1>1, <1>4, VolumeFacts DEF Whole
<1>7. PICK len \in Nat : len = Len(vol)
  BY <1>1
<1>8. ASSUME NEW i \in 1 .. len, i + 1 \in 1 .. len, SweepOf(vol[i + 1]) # SweepOf(vol[i])
      PROVE  /\ (first + i - 1) % RaysPerSweep = 0
             /\ (first + i) % RaysPerSweep = 1 % RaysPerSweep
  <2>1. PICK t : t = first + i - 1
    OBVIOUS
  <2>2. vol[i].time = t /\ t \in Nat \ {0}
    BY <1>6, <1>7, <2>1
  <2>3. vol[i + 1].time = t + 1
    <3>1. vol[i + 1].time = first + (i + 1) - 1
      BY <1>6, <1>7, <1>8
    <3>2. QED
      BY <1>5, <2>1, <3>1
  <2>4. t \div RaysPerSweep # (t - 1) \div RaysPerSweep
    <3>1. t + 1 - 1 = t
      BY <2>2
    <3>2. QED
      BY <1>8, <2>2, <2>3, <3>1 DEF SweepOf
  <2>5. t % RaysPerSweep = 0 /\ (t + 1) % RaysPerSweep = 1 % RaysPerSweep
    BY <2>2, <2>4, RadarIOAssumption, NumberChanges
  <2>6. t + 1 = first + i
    BY <1>5, <2>1
  <2>7. QED
    BY <2>1, <2>5, <2>6
<1>9. (first + a - 1) % RaysPerSweep = 1 % RaysPerSweep
  <2>1. a = 1 \/ SweepOf(vol[a]) # SweepOf(vol[a - 1])
    BY <1>1, StartOfSweep DEF SweepStarts
  <2>2. CASE a = 1
    <3>1. first + a - 1 = first
      BY <1>5, <2>2
    <3>2. QED
      BY <1>6, <3>1
  <2>3. CASE a # 1
    <3>1. PICK i : i = a - 1
      OBVIOUS
    <3>2. a \in 1 .. len /\ a # 1
      BY <1>2, <1>7, <2>3
    <3>3. /\ i \in 1 .. len /\ i + 1 \in 1 .. len /\ i + 1 = a
          /\ first + a - 1 = first + i
      BY <1>5, <3>1, <3>2
    <3>4. QED
      BY <1>8, <2>1, <2>3, <3>1, <3>3
  <2>4. QED
    BY <2>2, <2>3
<1>10. (first + b - 1) % RaysPerSweep = 0
  <2>1. CASE b = Len(vol)
    <3>1. first + b - 1 = last
      BY <1>5, <1>6, <1>7, <2>1
    <3>2. QED
      BY <1>6, <3>1
  <2>2. CASE b # Len(vol)
    <3>1. k + 1 < NSweeps(vol) /\ b = SweepStart(vol, k + 1) - 1
      BY <2>2 DEF SweepEnd
    <3>2. PICK s : s = SweepStart(vol, k + 1)
      OBVIOUS
    <3>3. s \in SweepStarts(vol)
      BY <1>1, <3>1, <3>2, StartOfSweep
    <3>4. s \in 1 .. len /\ (s = 1 \/ SweepOf(vol[s]) # SweepOf(vol[s - 1]))
      BY <1>7, <3>3 DEF SweepStarts
    <3>5. b \in 1 .. len /\ s = b + 1 /\ s # 1 /\ s - 1 = b
      BY <1>2, <1>7, <3>1, <3>2, <3>4
    <3>6. QED
      BY <1>8, <3>4, <3>5
  <2>3. QED
    BY <2>1, <2>2
<1>11. QED
  BY <1>1, <1>2, <1>3, <1>4, <1>5, <1>6, <1>9, <1>10

EditedOnce(vol, a, b, W) ==
  /\ W \in Volumes /\ Len(W) = b - a + 1
  /\ \A i \in DOMAIN W : /\ W[i].time = vol[a + i - 1].time
                         /\ W[i].gen = vol[a + i - 1].gen + 1

LEMMA SweepRewritten ==
  ASSUME NEW p \in Paths, NEW vol \in Volumes, vol # NoVolume, Whole(p, vol),
         NEW k \in Nat, k < NSweeps(vol), NEW a, NEW b,
         a = SweepStart(vol, k), b = SweepEnd(vol, k),
         NEW W, EditedOnce(vol, a, b, W)
  PROVE  /\ W # NoVolume /\ PathOf(W) \in Paths /\ Whole(PathOf(W), W) /\ NSweeps(W) = 1
         /\ PathOf(W)[1] = p[1] + a - 1 /\ PathOf(W)[2] = p[1] + b - 1
<1>1. PICK first, len : first = p[1] /\ len = Len(vol)
  OBVIOUS
<1>2. /\ a \in 1 .. len /\ b \in a .. len /\ first \in Nat /\ len \in Nat
      /\ (first + a - 1) % RaysPerSweep = 1 % RaysPerSweep
      /\ (first + b - 1) % RaysPerSweep = 0
      /\ \A i \in 1 .. len : vol[i].time = first + i - 1
      /\ \A i \in a .. b : SweepOf(vol[i]) = SweepOf(vol[a])
  <2>1. /\ a \in 1 .. Len(vol) /\ b \in a .. Len(vol) /\ Len(vol) \in Nat /\ p[1] \in Nat
        /\ (p[1] + a - 1) % RaysPerSweep = 1 % RaysPerSweep
        /\ (p[1] + b - 1) % RaysPerSweep = 0
        /\ \A i \in 1 .. Len(vol) : vol[i].time = p[1] + i - 1
        /\ \A i \in a .. b : SweepOf(vol[i]) = SweepOf(vol[a])
    BY SweepEdges
  <2>2. QED
    BY <1>1, <2>1
<1>3. PICK n : n = b - a + 1
  OBVIOUS
<1>4. n \in Nat \ {0} /\ a + n - 1 = b
  BY <1>2, <1>3
<1>5. /\ W \in Volumes /\ Len(W) = n /\ DOMAIN W = 1 .. n
       /\ \A i \in 1 .. n : /\ W[i].time = vol[a + i - 1].time
                           /\ W[i].gen = vol[a + i - 1].gen + 1
  <2>1. W \in Volumes /\ Len(W) = n
    BY <1>3 DEF EditedOnce
  <2>2. DOMAIN W = 1 .. n
    BY <2>1, VolumeFacts
  <2>3. QED
    BY <2>1, <2>2 DEF EditedOnce
<1>6. ASSUME NEW i \in 1 .. n
      PROVE  /\ a + i - 1 \in 1 .. len /\ a + i - 1 \in a .. b
             /\ W[i].time = first + a + i - 2 /\ SweepOf(W[i]) = SweepOf(vol[a])
             /\ SweepOf(W[i]) = SweepOf(vol[a + i - 1])
  <2>1. PICK j : j = a + i - 1
    OBVIOUS
  <2>2. j \in 1 .. len /\ j \in a .. b
    BY <1>2, <1>4, <2>1
  <2>3. W[i].time = vol[j].time /\ vol[j].time = first + j - 1
    BY <1>2, <1>5, <2>1, <2>2
  <2>4. first + j - 1 = first + a + i - 2
    BY <1>2, <2>1
  <2>5. SweepOf(W[i]) = SweepOf(vol[j])
    BY <2>3 DEF SweepOf
  <2>6. SweepOf(vol[j]) = SweepOf(vol[a])
    BY <1>2, <2>2
  <2>7. QED
    BY <2>1, <2>2, <2>3, <2>4, <2>5, <2>6
<1>7. DOMAIN W = 1 .. n /\ W # NoVolume
  BY <1>4, <1>5 DEF NoVolume
<1>8. PathOf(W) = <<first + a - 1, first + b - 1>>
  <2>1. 1 \in 1 .. n /\ n \in 1 .. n
    BY <1>4
  <2>2. W[1].time = first + a + 1 - 2 /\ W[n].time = first + a + n - 2
    BY <1>6, <2>1
  <2>3. first + a + 1 - 2 = first + a - 1 /\ first + a + n - 2 = first + b - 1
    BY <1>2, <1>4
  <2>4. QED
    BY <1>5, <2>2, <2>3 DEF PathOf
<1>9. PathOf(W) \in Paths
  <2>1. 1 \in 1 .. Len(W) /\ Len(W) \in 1 .. Len(W)
    BY <1>4, <1>5
  <2>2. W[1].time \in Times /\ W[Len(W)].time \in Times
    BY <1>5, <2>1, VolumeFacts
  <2>3. QED
    BY <2>2, Zenon DEF PathOf, Paths
<1>10. SweepStarts(W) = {1}
  <2>1. ASSUME NEW i \in 1 .. n, i # 1
        PROVE  SweepOf(W[i]) = SweepOf(W[i - 1])
    <3>1. i - 1 \in 1 .. n
      BY <1>4, <2>1
    <3>2. QED
      BY <1>6, <3>1
  <2>2. 1 \in 1 .. n
    BY <1>4
  <2>3. QED
    BY <1>5, <2>1, <2>2 DEF SweepStarts
<1>11. NSweeps(W) = 1
  BY <1>10, CountedSweeps
<1>12. \A i, j \in DOMAIN W : SweepOf(W[i]) = SweepOf(W[j]) => W[i].gen = W[j].gen
  <2>1. \A i, j \in 1 .. len : SweepOf(vol[i]) = SweepOf(vol[j]) => vol[i].gen = vol[j].gen
    BY <1>1, VolumeFacts DEF Whole
  <2>2. SUFFICES ASSUME NEW i \in 1 .. n, NEW j \in 1 .. n PROVE W[i].gen = W[j].gen
    BY <1>7
  <2>3. PICK g, h : g = a + i - 1 /\ h = a + j - 1
    OBVIOUS
  <2>4. g \in 1 .. len /\ h \in 1 .. len /\ SweepOf(vol[g]) = SweepOf(vol[h])
    BY <1>6, <2>3
  <2>5. vol[g].gen = vol[h].gen
    BY <2>1, <2>4
  <2>6. QED
    BY <1>5, <2>3, <2>5
<1>13. Whole(PathOf(W), W)
  <2>1. PICK q : q = PathOf(W)
    OBVIOUS
  <2>2. q[1] = first + a - 1 /\ q[2] = first + b - 1
    BY <1>8, <2>1
  <2>3. Len(W) = q[2] - q[1] + 1
    BY <1>2, <1>3, <1>5, <2>2
  <2>4. \A i \in DOMAIN W : W[i].time = q[1] + i - 1
    <3>1. \A i \in 1 .. n : first + a + i - 2 = first + a - 1 + i - 1
      BY <1>2
    <3>2. QED
      BY <1>6, <1>7, <2>2, <3>1
  <2>5. Whole(q, W)
    BY <1>2, <1>12, <2>2, <2>3, <2>4 DEF Whole
  <2>6. QED
    BY <2>1, <2>5
<1>14. QED
  BY <1>1, <1>7, <1>8, <1>9, <1>11, <1>13

(* What was recorded before the session is whole.                          *)
RecordedWhole == \A p \in Paths : InitFiles[p] # NoVolume => Whole(p, InitFiles[p])

(* A read state that has a volume has a whole one, and a sweep of it.      *)
HeldOK(st) ==
  /\ IsState(st) /\ Holds(st.path, st.vol)
  /\ st.vol # NoVolume =>
       /\ st.path \in Paths
       /\ st.swp_index \in 0 .. NSweeps(st.vol) - 1
       /\ st.start = SweepStart(st.vol, st.swp_index)
       /\ st.nrays = SweepEnd(st.vol, st.swp_index) - st.start + 1
       /\ st.cursor \in Nat

SweepInfo == [file : Paths, stamp : Times, version : Int, changed : BOOLEAN]

(* What the frames and the editor know of the files.                       *)
ViewOK ==
  /\ cat \in [Frames -> Seq(Entry)] /\ name \in [Frames -> Paths \cup {NoPath}]
  /\ req \in [Windows -> Int] /\ sweep \in [Frames -> SweepInfo]
  /\ \A w \in Windows : HeldOK(io[w])

NamesOK == dir \in Seq(Paths) /\ wio.last_path \in Paths \cup {NoPath}

FilesOK ==
  /\ disk = [p \in Paths |-> disk[p]] /\ \A p \in Paths : Holds(p, disk[p])
  /\ undo \in Seq([path : Paths, image : Volumes])
  /\ \A i \in DOMAIN undo : Holds(undo[i].path, undo[i].image)

(* The first n rays of the selected sweep, each edited once more.          *)
Rewritten(st, n) ==
  [i \in 1 .. n |-> [st.vol[st.start + i - 1] EXCEPT !.gen = @ + 1]]

LoopOK ==
  se.pc = "loop" =>
    /\ se.list \in Seq(Paths)
    /\ se.swp_count \in Nat /\ se.ray_num \in Nat /\ se.num_rays \in Nat
    /\ ~Opens => /\ io[SE_FRAME].vol # NoVolume
                 /\ io[SE_FRAME].cursor = se.ray_num /\ io[SE_FRAME].nrays = se.num_rays
    /\ se.command \notin WritesNothing =>
         wio.wvol = IF Opens THEN NoVolume ELSE Rewritten(io[SE_FRAME], se.ray_num)

WholeInv == ViewOK /\ NamesOK /\ FilesOK /\ LoopOK

----------------------------------------------------------------------------
(* What the calls of radar_io.c leave in a window.                         *)

LEMMA HeldSweep ==
  ASSUME NEW st, HeldOK(st), st.vol # NoVolume
  PROVE  /\ st.vol \in Volumes /\ st.vol \in Seq(AnyRay) /\ st.path \in Paths
         /\ Whole(st.path, st.vol)
         /\ st.swp_index \in Nat /\ st.swp_index < NSweeps(st.vol)
         /\ st.start \in Nat \ {0} /\ st.nrays \in Nat \ {0} /\ st.cursor \in Nat
         /\ st.start + st.nrays - 1 = SweepEnd(st.vol, st.swp_index)
         /\ st.start + st.nrays - 1 \in 1 .. Len(st.vol)
<1>1. /\ st.vol \in Seq(AnyRay) /\ st.path \in Paths /\ Whole(st.path, st.vol)
      /\ st.swp_index \in 0 .. NSweeps(st.vol) - 1 /\ st.cursor \in Nat
      /\ st.start = SweepStart(st.vol, st.swp_index)
      /\ st.nrays = SweepEnd(st.vol, st.swp_index) - st.start + 1
  BY DEF HeldOK, Holds, Volumes
<1>2. NSweeps(st.vol) \in Nat /\ Len(st.vol) \in Nat
  BY <1>1, StartsOfVolume, LenProperties
<1>3. st.swp_index \in Nat /\ st.swp_index < NSweeps(st.vol)
  BY <1>1, <1>2
<1>4. PICK a, b : a = st.start /\ b = SweepEnd(st.vol, st.swp_index)
  OBVIOUS
<1>5. a \in 1 .. Len(st.vol) /\ b \in a .. Len(st.vol)
  BY <1>1, <1>3, <1>4, SweepIsRun
<1>6. PICK n, len : n = st.nrays /\ len = Len(st.vol)
  OBVIOUS
<1>7. n = b - a + 1
  BY <1>1, <1>4, <1>6
<1>8. /\ a \in Nat \ {0} /\ n \in Nat \ {0} /\ a + n - 1 = b /\ b \in 1 .. len
  <2>1. a \in 1 .. len /\ b \in a .. len /\ len \in Nat
    BY <1>2, <1>5, <1>6
  <2>2. QED
    BY <1>7, <2>1
<1>9. QED
  BY <1>1, <1>3, <1>4, <1>6, <1>8 DEF Volumes

LEMMA ClampedSweep ==
  ASSUME NEW vol \in Volumes, vol # NoVolume, NEW r \in Int
  PROVE  Clamp(r, vol) \in 0 .. NSweeps(vol) - 1
<1>1. NSweeps(vol) \in Nat /\ NSweeps(vol) >= 1
  BY StartsOfVolume DEF Volumes
<1>2. QED
  BY <1>1 DEF Clamp

LEMMA NoVolumeHeld == ASSUME NEW st, IsState(st), st.vol = NoVolume PROVE HeldOK(st)
<1>1. NoVolume \in Volumes
  BY EmptySeq DEF NoVolume, Volumes
<1>2. QED
  BY <1>1 DEF HeldOK, Holds

LEMMA HeaderHeld ==
  ASSUME NEW st, HeldOK(st), NEW p \in Paths, NEW r \in Int, NEW d, Holds(p, d[p]),
         NEW h, h = HeaderRead(st, p, r, d)
  PROVE  HeldOK(h)
<1>1. IsState(st) /\ Holds(st.path, st.vol)
  BY DEF HeldOK
<1>2. /\ IsState(h) /\ h.vol = VolumeRead(st, p, d)
      /\ h.vol # NoVolume =>
           /\ h.path = p /\ h.swp_index = Clamp(r, h.vol) /\ h.cursor = 0
           /\ h.start = SweepStart(h.vol, h.swp_index)
           /\ h.nrays = SweepEnd(h.vol, h.swp_index) - h.start + 1
  BY <1>1, HeaderReadVolume
<1>3. Holds(p, h.vol)
  BY <1>1, <1>2 DEF VolumeRead
<1>4. CASE h.vol = NoVolume
  BY <1>2, <1>4, NoVolumeHeld
<1>5. CASE h.vol # NoVolume
  <2>1. h.vol \in Volumes
    BY <1>3 DEF Holds
  <2>2. h.swp_index \in 0 .. NSweeps(h.vol) - 1
    BY <1>2, <1>5, <2>1, ClampedSweep
  <2>3. QED
    BY <1>2, <1>3, <1>5, <2>2 DEF HeldOK
<1>6. QED
  BY <1>4, <1>5

LEMMA CursorHeld ==
  ASSUME NEW st, HeldOK(st), NEW c, st.vol # NoVolume => c \in Nat,
         NEW t, t = [st EXCEPT !.cursor = c]
  PROVE  HeldOK(t)
<1>1. /\ IsState(t) /\ t.vol = st.vol /\ t.path = st.path
      /\ t.swp_index = st.swp_index /\ t.start = st.start
      /\ t.nrays = st.nrays /\ t.cursor = c
  BY CursorSet DEF HeldOK
<1>2. QED
  BY <1>1 DEF HeldOK

LEMMA RayReadHeld ==
  ASSUME NEW st, HeldOK(st), NEW t, t = RayRead(st)
  PROVE  HeldOK(t)
<1>1. PICK c : c = st.cursor + 1
  OBVIOUS
<1>2. t = [st EXCEPT !.cursor = c]
  BY <1>1 DEF RayRead
<1>3. st.vol # NoVolume => c \in Nat
  BY <1>1 DEF HeldOK
<1>4. QED
  BY <1>2, <1>3, CursorHeld

LEMMA SeekHeld ==
  ASSUME NEW st, HeldOK(st), NEW t, t = SeekRay(st, st.nrays - 1)
  PROVE  HeldOK(t)
<1>1. PICK n : n = st.nrays
  OBVIOUS
<1>2. PICK c : c = IF n - 1 < 0 THEN 0 ELSE IF n - 1 > n THEN n ELSE n - 1
  OBVIOUS
<1>3. t = [st EXCEPT !.cursor = c]
  BY <1>1, <1>2 DEF SeekRay
<1>4. st.vol # NoVolume => c \in Nat
  <2>1. st.vol # NoVolume => n \in Nat
    BY <1>1, HeldSweep
  <2>2. QED
    BY <1>2, <2>1
<1>5. QED
  BY <1>3, <1>4, CursorHeld

(* What a frame knows once solo_nab_next_file has been through.            *)
LEMMA NabOK ==
  ASSUME ViewOK, NamesOK, FilesOK, NEW f \in Frames, NEW s0 \in SweepInfo, NEW action,
         NEW version \in Int, NEW replot, NEW rescan,
         NEW nab, nab = NabNextFile(f, s0, action, version, replot, rescan)
  PROVE  /\ nab.cat \in Seq(Entry) /\ nab.sweep \in SweepInfo
         /\ nab.name \in Paths \cup {NoPath} /\ nab.req \in Int /\ HeldOK(nab.io)
<1> DEFINE reread == \/ rescan \/ urgent[f] \/ s0.changed
                     \/ replot /\ version = LATEST_VERSION /\ file_modified[f]
           c      == IF reread THEN Listing(dir) ELSE cat[f]
           nsw    == NSweeps(io[f].vol)
           cur    == io[f].swp_index
           stepTo == IF nsw > 1 THEN StepWithin(action, cur, nsw) ELSE {}
           within == stepTo # {}
           found  == Search(c, s0.stamp, action, SearchVersion(version))
           s1     == IF within \/ found = {} THEN [s0 EXCEPT !.changed = FALSE]
                     ELSE LET e == c[CHOOSE i \in found : TRUE]
                          IN  [s0 EXCEPT !.file = e.file, !.stamp = e.stamp,
                                         !.changed = FALSE]
           same   == ~within /\ ~replot /\ s1.stamp = s0.stamp
           r      == Request(f, stepTo)
           read   == HeaderRead(io[f], s1.file, r, disk)
<1>1. nab = IF same
            THEN [ok |-> FALSE, cat |-> c, sweep |-> s1,
                  name |-> name[f], req |-> req[f], io |-> io[f]]
            ELSE [ok |-> TRUE, cat |-> c, sweep |-> s1, name |-> s1.file, req |-> r,
                  io |-> RayRead(read)]
  BY DEF NabNextFile
<1>2. c \in Seq(Entry)
  BY ListingOK DEF NamesOK, ViewOK
<1>3. found \subseteq DOMAIN c
  <2>1. s0.stamp \in Int
    BY RadarIOAssumption DEF SweepInfo, Times
  <2>2. SearchVersion(version) \in Int
    BY DEF SearchVersion, LatestVersion
  <2> HIDE DEF c
  <2>3. QED
    BY <1>2, <2>1, <2>2, SearchFinds
<1>4. s1 \in SweepInfo
  <2>1. [s0 EXCEPT !.changed = FALSE] \in SweepInfo
    BY DEF SweepInfo
  <2>2. ASSUME found # {}, NEW e, e = c[CHOOSE i \in found : TRUE]
        PROVE  [s0 EXCEPT !.file = e.file, !.stamp = e.stamp, !.changed = FALSE] \in SweepInfo
    <3>1. PICK i \in DOMAIN c : e = c[i]
      BY <1>3, <2>2
    <3> HIDE DEF c
    <3>2. e \in Entry
      BY <1>2, <3>1, StampsOK
    <3>3. e.file \in Paths /\ e.stamp \in Times
      BY <3>2 DEF Entry
    <3>4. QED
      BY <3>3 DEF SweepInfo
  <2> HIDE DEF found, c, within
  <2>3. QED
    BY <2>1, <2>2
<1>5. r \in Int
  <2>1. stepTo \subseteq Int
    <3>1. CASE nsw > 1
      <4>1. io[f].vol # NoVolume
        BY <3>1, CountedSweeps
      <4>2. HeldOK(io[f])
        BY DEF ViewOK, Windows
      <4>3. cur \in Nat
        BY <4>1, <4>2, HeldSweep
      <4>4. QED
        BY <3>1, <4>3 DEF StepWithin
    <3>2. QED
      BY <3>1
  <2> HIDE DEF stepTo
  <2>2. CASE stepTo = {}
    BY <2>2 DEF Request
  <2>3. CASE stepTo # {}
    <3>1. (CHOOSE k \in stepTo : TRUE) \in stepTo
      BY <2>3
    <3>2. r = CHOOSE k \in stepTo : TRUE
      BY <2>3 DEF Request
    <3>3. QED
      BY <2>1, <3>1, <3>2
  <2>4. QED
    BY <2>2, <2>3
<1>6. HeldOK(RayRead(read))
  <2>1. PICK file : file = s1.file
    OBVIOUS
  <2>2. file \in Paths
    BY <1>4, <2>1 DEF SweepInfo
  <2>3. Holds(file, disk[file]) /\ HeldOK(io[f])
    BY <2>2 DEF FilesOK, ViewOK, Windows
  <2>4. PICK h : h = read
    OBVIOUS
  <2> HIDE DEF s1, r
  <2>5. HeldOK(h)
    BY <1>5, <2>1, <2>2, <2>3, <2>4, HeaderHeld
  <2> HIDE DEF read
  <2>6. QED
    BY <2>4, <2>5, RayReadHeld
<1>7. name[f] \in Paths \cup {NoPath} /\ req[f] \in Int /\ HeldOK(io[f])
  BY DEF ViewOK, Windows
<1>8. s1.file \in Paths
  BY <1>4 DEF SweepInfo
<1> HIDE DEF c, s1, r, read, same
<1>9. QED
  BY <1>1, <1>2, <1>4, <1>5, <1>6, <1>7, <1>8

LEMMA PlotOK ==
  ASSUME Shape, ViewOK, NamesOK, FilesOK, NEW f \in Frames, NEW command, NEW rescan,
         Plot(f, command, rescan)
  PROVE  ViewOK'
<1>1. CASE halt
  BY <1>1 DEF Plot, frameVars, ViewOK, Windows
<1>2. CASE ~halt
  <2> DEFINE replot  == command \in {REPLOT_LOCK_STEP, REPLOT_THIS_FRAME}
             action  == CASE replot -> TIME_NEAREST
                          [] command = FORWARD_ONCE -> TIME_AFTER
                          [] command = BACKWARDS_ONCE -> TIME_BEFORE
             version == IF replot THEN sweep[f].version ELSE LATEST_VERSION
             info    == [sweep EXCEPT ![f].version = version]
             plotted == IF command = REPLOT_THIS_FRAME THEN {f} ELSE Lock[f]
             leads   == {Lead(g) : g \in plotted}
             Nab(l)  == NabNextFile(l, info[l], action, version, replot, l \in rescan)
             nab     == [l \in leads |-> Nab(l)]
             drawn   == \A l \in leads : nab[l].ok
  <2>1. /\ io' = [w \in Windows |->
                    IF w \in leads
                    THEN IF drawn THEN [nab[w].io EXCEPT !.cursor = nab[w].io.nrays]
                         ELSE nab[w].io
                    ELSE io[w]]
        /\ name' = [g \in Frames |-> IF g \in leads THEN nab[g].name ELSE name[g]]
        /\ req' = [w \in Windows |-> IF w \in leads THEN nab[w].req ELSE req[w]]
        /\ cat' = [g \in Frames |-> IF g \in leads THEN nab[g].cat ELSE cat[g]]
        /\ sweep' = [g \in Frames |->
                       IF g \in leads THEN nab[g].sweep
                       ELSE IF g \in plotted
                            THEN [nab[Lead(g)].sweep EXCEPT !.changed = TRUE]
                            ELSE info[g]]
    BY <1>2 DEF Plot
  <2>2. leads \subseteq Frames /\ \A g \in plotted : Lead(g) \in leads
    <3>1. plotted \subseteq Frames
      BY SessionAssumption
    <3>2. QED
      BY <3>1, LeadIsFrame
  <2>3. version \in Int
    BY DEF ViewOK, SweepInfo, LATEST_VERSION
  <2>4. ASSUME NEW g \in Frames
        PROVE  info[g] \in SweepInfo
    <3>1. PICK v : v = version
      OBVIOUS
    <3>2. info[g] = IF g = f THEN [sweep[g] EXCEPT !.version = v] ELSE sweep[g]
      <4> HIDE DEF version
      <4>1. QED
        BY <3>1 DEF ViewOK
    <3>3. sweep[g] \in SweepInfo /\ v \in Int
      BY <2>3, <3>1 DEF ViewOK
    <3>4. [sweep[g] EXCEPT !.version = v] \in SweepInfo
      BY <3>3 DEF SweepInfo
    <3> HIDE DEF info
    <3>5. QED
      BY <3>2, <3>3, <3>4
  <2> HIDE DEF info, version, action, replot
  <2>5. ASSUME NEW l \in leads
        PROVE  /\ nab[l].cat \in Seq(Entry) /\ nab[l].sweep \in SweepInfo
               /\ nab[l].name \in Paths \cup {NoPath} /\ nab[l].req \in Int
               /\ HeldOK(nab[l].io)
               /\ HeldOK([nab[l].io EXCEPT !.cursor = nab[l].io.nrays])
               /\ [nab[l].sweep EXCEPT !.changed = TRUE] \in SweepInfo
    <3>1. PICK n : n = Nab(l)
      OBVIOUS
    <3>2. l \in Frames /\ info[l] \in SweepInfo
      BY <2>2, <2>4
    <3>3. PICK s0, b : s0 = info[l] /\ b = (l \in rescan)
      OBVIOUS
    <3>4. n = NabNextFile(l, s0, action, version, replot, b)
      BY <3>1, <3>3
    <3>5. /\ n.cat \in Seq(Entry) /\ n.sweep \in SweepInfo
          /\ n.name \in Paths \cup {NoPath} /\ n.req \in Int /\ HeldOK(n.io)
      BY <2>3, <3>2, <3>3, <3>4, NabOK
    <3>6. nab[l] = n
      BY <3>1
    <3>7. PICK t, c, u : t = n.io /\ c = t.nrays /\ u = [t EXCEPT !.cursor = c]
      OBVIOUS
    <3>8. HeldOK(u)
      <4>1. HeldOK(t) /\ (t.vol # NoVolume => c \in Nat)
        BY <3>5, <3>7, HeldSweep
      <4>2. QED
        BY <3>7, <4>1, CursorHeld
    <3>9. [n.sweep EXCEPT !.changed = TRUE] \in SweepInfo
      BY <3>5 DEF SweepInfo
    <3> HIDE DEF nab
    <3>10. QED
      BY <3>5, <3>6, <3>7, <3>8, <3>9
  <2> HIDE DEF nab, leads, plotted, drawn
  <2>6. \A w \in Windows : HeldOK(io'[w])
    <3> TAKE w \in Windows
    <3>1. HeldOK(io[w])
      BY DEF ViewOK
    <3>2. QED
      BY <2>1, <2>5, <3>1
  <2>7. name' \in [Frames -> Paths \cup {NoPath}]
    BY <2>1, <2>5 DEF ViewOK
  <2>8. req' \in [Windows -> Int]
    BY <2>1, <2>5 DEF ViewOK
  <2>9. cat' \in [Frames -> Seq(Entry)]
    BY <2>1, <2>5 DEF ViewOK
  <2>10. sweep' \in [Frames -> SweepInfo]
    BY <2>1, <2>2, <2>4, <2>5
  <2>11. QED
    BY <2>6, <2>7, <2>8, <2>9, <2>10 DEF ViewOK, Windows, HeldOK
<1>3. QED
  BY <1>1, <1>2

LEMMA ClickOK ==
  ASSUME Shape, ViewOK, NamesOK, FilesOK, NEW f \in Frames, Click(f)
  PROVE  ViewOK'
<1>1. PICK l \in Frames : l = Lead(f)
  BY LeadIsFrame
<1>2. l \in Windows
  BY DEF Windows
<1>3. PICK nab : nab = NabNextFile(l, sweep[l], TIME_NEAREST, LATEST_VERSION, TRUE, FALSE)
  OBVIOUS
<1>4. /\ nab.cat \in Seq(Entry) /\ nab.sweep \in SweepInfo
      /\ nab.name \in Paths \cup {NoPath} /\ nab.req \in Int /\ HeldOK(nab.io)
  <2>1. sweep[l] \in SweepInfo /\ LATEST_VERSION \in Int
    BY DEF ViewOK, LATEST_VERSION
  <2>2. QED
    BY <1>3, <2>1, NabOK
<1>5. PICK st : st = IF file_modified[l] THEN nab.io ELSE io[l]
  OBVIOUS
<1>6. PICK at : at = SeekRay(st, st.nrays - 1)
  OBVIOUS
<1>7. PICK t : t = IF HasRay(at) THEN RayRead(at) ELSE at
  OBVIOUS
<1>8. HeldOK(t)
  <2>1. HeldOK(st)
    BY <1>2, <1>4, <1>5 DEF ViewOK
  <2>2. HeldOK(at)
    BY <1>6, <2>1, SeekHeld
  <2>3. QED
    BY <1>7, <2>2, RayReadHeld
<1>9. /\ io' = [io EXCEPT ![l] = t]
      /\ IF file_modified[l]
         THEN /\ name' = [name EXCEPT ![l] = nab.name]
              /\ req' = [req EXCEPT ![l] = nab.req]
              /\ cat' = [cat EXCEPT ![l] = nab.cat]
              /\ sweep' = [sweep EXCEPT ![l] = nab.sweep]
         ELSE UNCHANGED <<name, req, cat, sweep>>
  BY <1>1, <1>3, <1>5, <1>6, <1>7 DEF Click
<1>10. io' = [w \in Windows |-> IF w = l THEN t ELSE io[w]]
  BY <1>2, <1>9 DEF Shape
<1>11. \A w \in Windows : HeldOK(io'[w])
  BY <1>8, <1>10 DEF ViewOK
<1>12. /\ cat' \in [Frames -> Seq(Entry)] /\ name' \in [Frames -> Paths \cup {NoPath}]
       /\ req' \in [Windows -> Int] /\ sweep' \in [Frames -> SweepInfo]
  BY <1>2, <1>4, <1>9 DEF ViewOK
<1>13. QED
  BY <1>11, <1>12 DEF ViewOK, Windows, HeldOK

LEMMA SelectOK ==
  ASSUME Shape, ViewOK, NamesOK, NEW f \in Frames, NEW k \in DOMAIN dir, SelectFile(f, k)
  PROVE  ViewOK'
<1>1. PICK c : c = Listing(dir)
  OBVIOUS
<1>2. c \in Seq(Entry) /\ DOMAIN c = DOMAIN dir
  BY <1>1, ListingOK DEF NamesOK
<1>3. PICK i \in DOMAIN c : i = EntireList(c)[k]
  BY <1>2, EntireListed
<1>4. c[i].file \in Paths /\ c[i].stamp \in Times /\ c[i].version = 1
  BY <1>2, <1>3, StampsOK DEF Entry
<1>5. PICK info : info = [file |-> c[i].file, stamp |-> c[i].stamp,
                          version |-> ListedVersion(c[i].version), changed |-> TRUE]
  OBVIOUS
<1>6. info \in SweepInfo
  BY <1>4, <1>5 DEF SweepInfo, ListedVersion
<1>7. /\ sweep' = [g \in Frames |-> IF g \in Link[f] THEN info ELSE sweep[g]]
      /\ cat' = [cat EXCEPT ![f] = c] /\ UNCHANGED <<io, name, req>>
  BY <1>1, <1>3, <1>5 DEF SelectFile
<1>8. sweep' \in [Frames -> SweepInfo] /\ cat' \in [Frames -> Seq(Entry)]
  BY <1>2, <1>6, <1>7 DEF ViewOK
<1>9. QED
  BY <1>7, <1>8 DEF ViewOK, Windows, HeldOK

LEMMA DropsHeld ==
  ASSUME Shape, ViewOK, NEW f, DropReadCaches(f)
  PROVE  \A w \in Windows : HeldOK(io'[w])
<1>1. \A w \in Windows : IsState(io'[w]) /\ (io'[w].vol = NoVolume \/ io'[w] = io[w])
  BY CachesDropped
<1>2. QED
  BY <1>1, NoVolumeHeld DEF ViewOK

LEMMA EndOK ==
  ASSUME Shape, ViewOK, NamesOK, EndDoIt
  PROVE  ViewOK'
<1>1. PICK f \in Frames : f = se.frame
  BY DoItEnds, SessionAssumption DEF Shape, Idle
<1>2. name' = name
  BY DoItEnds
<1>3. CASE se.modified
  <2>1. DropReadCaches(f) /\ PointFrameAtWritten(f)
    BY <1>1, <1>3 DEF EndDoIt
  <2>2. \A w \in Windows : HeldOK(io'[w])
    BY <2>1, DropsHeld
  <2>3. PICK c : c = Listing(dir)
    OBVIOUS
  <2>4. c \in Seq(Entry)
    BY <2>3, ListingOK DEF NamesOK
  <2>5. PICK p : p = wio.last_path
    OBVIOUS
  <2>6. PICK info : info = [file |-> p, stamp |-> p[1], version |-> ListedVersion(1),
                            changed |-> TRUE]
    OBVIOUS
  <2>7. p # NoPath => info \in SweepInfo
    <3>1. p # NoPath => p \in Paths /\ p[1] \in Times
      BY <2>5 DEF NamesOK, Paths
    <3>2. QED
      BY <2>6, <3>1 DEF SweepInfo, ListedVersion
  <2>8. /\ sweep' = sweep \/ (p # NoPath /\ sweep' = [sweep EXCEPT ![f] = info])
        /\ req' = req \/ req' = [req EXCEPT ![f] = 0]
        /\ cat' = cat \/ cat' = [cat EXCEPT ![f] = c]
    BY <2>1, <2>3, <2>5, <2>6 DEF PointFrameAtWritten
  <2>9. sweep' \in [Frames -> SweepInfo]
    BY <2>7, <2>8 DEF ViewOK
  <2>10. req' \in [Windows -> Int]
    <3>1. f \in Windows /\ req \in [Windows -> Int]
      BY DEF ViewOK, Windows
    <3>2. QED
      BY <2>8, <3>1
  <2>11. cat' \in [Frames -> Seq(Entry)]
    BY <2>4, <2>8 DEF ViewOK
  <2>12. QED
    BY <1>2, <2>2, <2>9, <2>10, <2>11 DEF ViewOK, Windows, HeldOK
<1>4. CASE ~se.modified
  <2>1. UNCHANGED <<sweep, req, cat, io>>
    BY <1>4 DEF EndDoIt
  <2>2. QED
    BY <1>2, <2>1 DEF ViewOK, Windows, HeldOK
<1>5. QED
  BY <1>3, <1>4

----------------------------------------------------------------------------
(* The sweep a Do It rewrites.                                             *)

LEMMA RewrittenRays ==
  ASSUME NEW st, HeldOK(st), st.vol # NoVolume, NEW n \in Nat, n <= st.nrays
  PROVE  /\ Rewritten(st, n) \in Volumes /\ Len(Rewritten(st, n)) = n
         /\ \A i \in 1 .. n :
              /\ Rewritten(st, n)[i] = [st.vol[st.start + i - 1] EXCEPT !.gen = @ + 1]
              /\ Rewritten(st, n)[i].time = st.vol[st.start + i - 1].time
              /\ Rewritten(st, n)[i].gen = st.vol[st.start + i - 1].gen + 1
<1>1. PICK a, vol, len, nr : a = st.start /\ vol = st.vol /\ len = Len(vol) /\ nr = st.nrays
  OBVIOUS
<1>2. /\ vol \in Volumes /\ a \in Nat \ {0} /\ nr \in Nat \ {0} /\ n <= nr
      /\ a + nr - 1 \in 1 .. len
  BY <1>1, HeldSweep
<1>3. len \in Nat
  BY <1>1, <1>2, VolumeFacts
<1>4. \A i \in 1 .. n : a + i - 1 \in 1 .. len
  BY <1>2, <1>3
<1>5. \A r \in AnyRay : /\ [r EXCEPT !.gen = r.gen + 1] \in AnyRay
                       /\ [r EXCEPT !.gen = r.gen + 1].time = r.time
                       /\ [r EXCEPT !.gen = r.gen + 1].gen = r.gen + 1
  BY DEF AnyRay
<1>6. PICK W : W = Rewritten(st, n)
  OBVIOUS
<1>7. W = [i \in 1 .. n |-> [vol[a + i - 1] EXCEPT !.gen = vol[a + i - 1].gen + 1]]
  BY <1>1, <1>6 DEF Rewritten
<1>8. W = [i \in 1 .. n |-> W[i]]
  BY <1>7
<1>9. ASSUME NEW i \in 1 .. n
      PROVE  /\ W[i] = [vol[a + i - 1] EXCEPT !.gen = vol[a + i - 1].gen + 1]
             /\ W[i] \in AnyRay /\ W[i].time = vol[a + i - 1].time
             /\ W[i].gen = vol[a + i - 1].gen + 1
  <2>1. PICK r : r = vol[a + i - 1]
    OBVIOUS
  <2>2. r \in AnyRay
    <3>1. a + i - 1 \in 1 .. len
      BY <1>4
    <3>2. QED
      BY <1>1, <1>2, <2>1, <3>1, VolumeFacts
  <2>3. W[i] = [r EXCEPT !.gen = r.gen + 1]
    BY <1>7, <2>1
  <2>4. W[i] \in AnyRay /\ W[i].time = r.time /\ W[i].gen = r.gen + 1
    BY <1>5, <2>2, <2>3
  <2>5. QED
    BY <2>1, <2>3, <2>4
<1>10. W \in Volumes /\ Len(W) = n
  <2>1. \A i \in 1 .. n : W[i] \in AnyRay
    BY <1>9
  <2>2. W \in Seq(AnyRay) /\ Len(W) = n
    BY <1>8, <2>1, FunctionInSeq
  <2>3. QED
    BY <2>2 DEF Volumes
<1>11. QED
  BY <1>1, <1>6, <1>9, <1>10

LEMMA RewrittenNext ==
  ASSUME NEW st, HeldOK(st), st.vol # NoVolume, NEW n \in Nat, n < st.nrays,
         NEW ray, ray = [st.vol[st.start + n] EXCEPT !.gen = @ + 1]
  PROVE  Append(Rewritten(st, n), ray) = Rewritten(st, n + 1)
<1>1. st.nrays \in Nat /\ st.start \in Nat
  BY HeldSweep
<1>2. PICK V, W : V = Rewritten(st, n) /\ W = Rewritten(st, n + 1)
  OBVIOUS
<1>3. /\ V \in Volumes /\ Len(V) = n
      /\ \A i \in 1 .. n : V[i] = [st.vol[st.start + i - 1] EXCEPT !.gen = @ + 1]
  BY <1>1, <1>2, RewrittenRays
<1>4. /\ W \in Volumes /\ Len(W) = n + 1
      /\ \A i \in 1 .. n + 1 : W[i] = [st.vol[st.start + i - 1] EXCEPT !.gen = @ + 1]
  <2>1. n + 1 \in Nat /\ n + 1 <= st.nrays
    BY <1>1
  <2>2. QED
    BY <1>2, <2>1, RewrittenRays
<1>5. W[n + 1] = ray
  <2>1. n + 1 \in 1 .. n + 1 /\ st.start + (n + 1) - 1 = st.start + n
    BY <1>1
  <2>2. W[n + 1] = [st.vol[st.start + (n + 1) - 1] EXCEPT !.gen = @ + 1]
    BY <1>4, <2>1
  <2>3. QED
    BY <2>1, <2>2
<1>6. \A i \in 1 .. n : W[i] = V[i]
  <2>1. \A i \in 1 .. n : i \in 1 .. n + 1
    OBVIOUS
  <2>2. QED
    BY <1>3, <1>4, <2>1
<1>7. ray \in AnyRay
  <2>1. n + 1 \in 1 .. Len(W)
    BY <1>4
  <2>2. \A i \in 1 .. Len(W) : W[i] \in AnyRay
    BY <1>4, VolumeFacts
  <2>3. QED
    BY <1>5, <2>1, <2>2
<1>8. PICK U : U = Append(V, ray)
  OBVIOUS
<1>9. V \in Seq(AnyRay) /\ W \in Seq(AnyRay)
  BY <1>3, <1>4 DEF Volumes
<1>10. /\ U \in Seq(AnyRay) /\ Len(U) = n + 1 /\ U[n + 1] = ray
       /\ \A i \in 1 .. n : U[i] = V[i]
  BY <1>3, <1>7, <1>8, <1>9, AppendProperties
<1>11. \A i \in 1 .. n + 1 : U[i] = W[i]
  <2>1. \A i \in 1 .. n + 1 : i \in 1 .. n \/ i = n + 1
    OBVIOUS
  <2>2. QED
    BY <1>5, <1>6, <1>10, <2>1
<1>12. U = W
  BY <1>4, <1>9, <1>10, <1>11, SeqEqual
<1>13. QED
  BY <1>2, <1>8, <1>12

(* A sweep whose last ray has been rewritten.                              *)
LEMMA SweepDone ==
  ASSUME NEW st, HeldOK(st), st.vol # NoVolume, NEW W, W = Rewritten(st, st.nrays)
  PROVE  /\ W \in Volumes /\ W # NoVolume /\ PathOf(W) \in Paths /\ Whole(PathOf(W), W)
         /\ NSweeps(W) = 1 /\ Len(W) = st.nrays
         /\ PathOf(W)[1] = st.path[1] + st.start - 1
         /\ PathOf(W)[2] = st.path[1] + st.start + st.nrays - 2
         /\ \A i \in 1 .. Len(W) : W[i].gen = st.vol[st.start + i - 1].gen + 1
<1>1. PICK a, vol, p, k, n : /\ a = st.start /\ vol = st.vol /\ p = st.path
                             /\ k = st.swp_index /\ n = st.nrays
  OBVIOUS
<1>2. /\ vol \in Volumes /\ vol # NoVolume /\ p \in Paths /\ Whole(p, vol)
      /\ k \in Nat /\ k < NSweeps(vol) /\ a \in Nat \ {0} /\ n \in Nat \ {0}
      /\ a + n - 1 = SweepEnd(vol, k)
  BY <1>1, HeldSweep
<1>3. a = SweepStart(vol, k)
  BY <1>1 DEF HeldOK
<1>4. /\ W \in Volumes /\ Len(W) = n
      /\ \A i \in 1 .. n : W[i].time = vol[a + i - 1].time /\ W[i].gen = vol[a + i - 1].gen + 1
  <2>1. n \in Nat /\ n <= st.nrays /\ W = Rewritten(st, n)
    BY <1>1, <1>2
  <2>2. /\ Rewritten(st, n) \in Volumes /\ Len(Rewritten(st, n)) = n
        /\ \A i \in 1 .. n :
             /\ Rewritten(st, n)[i] = [st.vol[st.start + i - 1] EXCEPT !.gen = @ + 1]
             /\ Rewritten(st, n)[i].time = st.vol[st.start + i - 1].time
             /\ Rewritten(st, n)[i].gen = st.vol[st.start + i - 1].gen + 1
    BY <2>1, RewrittenRays
  <2>3. QED
    BY <1>1, <2>1, <2>2
<1>5. PICK b : b = a + n - 1
  OBVIOUS
<1>6. b - a + 1 = n /\ b = SweepEnd(vol, k)
  BY <1>2, <1>5
<1>7. DOMAIN W = 1 .. n
  BY <1>4, VolumeFacts
<1>8. EditedOnce(vol, a, b, W)
  BY <1>4, <1>6, <1>7 DEF EditedOnce
<1>9. /\ W # NoVolume /\ PathOf(W) \in Paths /\ Whole(PathOf(W), W) /\ NSweeps(W) = 1
      /\ PathOf(W)[1] = p[1] + a - 1 /\ PathOf(W)[2] = p[1] + b - 1
  BY <1>2, <1>3, <1>6, <1>8, SweepRewritten
<1>10. p[1] + b - 1 = p[1] + a + n - 2
  <2>1. p[1] \in Int
    BY <1>2, RadarIOAssumption DEF Paths, Times
  <2>2. QED
    BY <1>2, <1>5, <2>1
<1>11. QED
  BY <1>1, <1>4, <1>9, <1>10

(* The editor's read state at the ray an iteration of the loop edits.      *)
LEMMA RayFound ==
  ASSUME Shape, ViewOK, FilesOK, LoopOK, NEW ok, EditRay(ok)
  PROVE  /\ HeldOK(StNow) /\ StNow.vol # NoVolume /\ StNow.cursor < StNow.nrays
         /\ RayNow = StNow.cursor + 1 /\ RayNow \in Nat
         /\ TotalNow = StNow.nrays /\ TotalNow \in Nat /\ SwpNow \in Nat
         /\ Opens => StNow.cursor = 0
<1>1. /\ se.pc = "loop" /\ HasRay(StNow) /\ (Opens => SwpNow <= Len(se.list))
  BY EditRayReads
<1>2. /\ se.list \in Seq(Paths)
      /\ se.swp_count \in Nat /\ se.ray_num \in Nat /\ se.num_rays \in Nat
      /\ ~Opens => /\ io[SE_FRAME].cursor = se.ray_num /\ io[SE_FRAME].nrays = se.num_rays
  BY <1>1 DEF LoopOK
<1>3. SE_FRAME \in Windows /\ HeldOK(io[SE_FRAME]) /\ req[SE_FRAME] \in Int
  BY DEF ViewOK, Windows
<1>4. PICK st : st = StNow
  OBVIOUS
<1>5. SwpNow \in Nat
  BY <1>2 DEF SwpNow
<1>6. CASE Opens
  <2>1. PICK file : file = FileNow
    OBVIOUS
  <2>2. file \in Paths
    <3>1. SwpNow \in 1 .. Len(se.list)
      BY <1>1, <1>2, <1>6, LenProperties DEF SwpNow
    <3>2. QED
      BY <1>2, <2>1, <3>1, ElementOfSeq DEF FileNow
  <2>3. st = HeaderRead(io[SE_FRAME], file, req[SE_FRAME], disk)
    BY <1>4, <1>6, <2>1 DEF StNow
  <2>4. HeldOK(st)
    <3>1. Holds(file, disk[file])
      BY <2>2 DEF FilesOK
    <3>2. QED
      BY <1>3, <2>2, <2>3, <3>1, HeaderHeld
  <2>5. st.vol # NoVolume
    BY <1>1, <1>4 DEF HasRay
  <2>6. st.cursor = 0
    <3>1. IsState(io[SE_FRAME])
      BY <1>3 DEF HeldOK
    <3>2. QED
      BY <2>3, <2>5, <3>1, HeaderReadVolume
  <2>7. RayNow = 1 /\ TotalNow = st.nrays
    BY <1>4, <1>6 DEF RayNow, TotalNow
  <2>8. st.nrays \in Nat
    BY <2>4, <2>5, HeldSweep
  <2>9. st.cursor < st.nrays
    BY <1>1, <1>4 DEF HasRay
  <2>10. QED
    BY <1>4, <1>5, <2>4, <2>5, <2>6, <2>7, <2>8, <2>9
<1>7. CASE ~Opens
  <2>1. st = io[SE_FRAME]
    BY <1>4, <1>7 DEF StNow
  <2>2. HeldOK(st) /\ st.vol # NoVolume /\ st.cursor < st.nrays
    BY <1>1, <1>3, <1>4, <2>1 DEF HasRay
  <2>3. RayNow = se.ray_num + 1 /\ TotalNow = se.num_rays
    BY <1>7 DEF RayNow, TotalNow
  <2>4. QED
    BY <1>2, <1>4, <1>5, <1>7, <2>1, <2>2, <2>3
<1>8. QED
  BY <1>6, <1>7

(* It writes that ray, except for a command list that only looks or gives  *)
(* up; the sweep is complete with its last ray.                            *)
LEMMA RayAdded ==
  ASSUME Shape, WriteInv, ViewOK, FilesOK, LoopOK, NEW ok, EditRay(ok)
  PROVE  /\ se.command \in WritesNothing =>
              /\ ~EndsNow /\ WsNow = wio
              /\ se.command # "survey" => PuntNow
         /\ se.command \notin WritesNothing =>
              /\ ~PuntNow /\ WsNow.wvol = Rewritten(StNow, RayNow)
              /\ WsNow.last_path = wio.last_path
              /\ EndsNow <=> RayNow = StNow.nrays
<1>1. /\ se.pc = "loop" /\ se.command # "use_then_drop"
      /\ se.command \in {"survey", "no_such_const"} => ~se.modified
  BY EditRayReads DEF WriteInv, LooksOnly
<1>2. CASE se.command \in WritesNothing
  <2>1. ~DumpsNow /\ (se.command # "survey" => PuntNow)
    BY <1>1, <1>2 DEF DumpsNow, Modifies, PuntNow, Punts, WritesNothing
  <2>2. QED
    BY <1>2, <2>1 DEF EndsNow, WsNow
<1>3. CASE se.command \notin WritesNothing
  <2>1. DumpsNow /\ ~PuntNow
    BY <1>1, <1>3 DEF DumpsNow, Modifies, PuntNow, Punts, WritesNothing
  <2>2. PICK st, n : st = StNow /\ n = st.cursor
    OBVIOUS
  <2>3. /\ HeldOK(st) /\ st.vol # NoVolume /\ n < st.nrays /\ RayNow = n + 1
        /\ TotalNow = st.nrays /\ n \in Nat /\ st.nrays \in Nat /\ (Opens => n = 0)
    BY <2>2, RayFound, HeldSweep
  <2>4. wio.wvol = Rewritten(st, n)
    <3>1. wio.wvol = IF Opens THEN NoVolume ELSE Rewritten(io[SE_FRAME], se.ray_num)
      BY <1>1, <1>3 DEF LoopOK
    <3>2. CASE Opens
      <4>1. Rewritten(st, 0) = << >>
        BY DEF Rewritten
      <4>2. QED
        BY <2>3, <3>1, <3>2, <4>1 DEF NoVolume
    <3>3. CASE ~Opens
      <4>1. st = io[SE_FRAME]
        BY <2>2, <3>3 DEF StNow
      <4>2. n = se.ray_num
        BY <1>1, <2>2, <3>3, <4>1 DEF LoopOK
      <4>3. QED
        BY <3>1, <3>3, <4>1, <4>2
    <3>4. QED
      BY <3>2, <3>3
  <2>5. PICK ray : ray = [st.vol[st.start + n] EXCEPT !.gen = @ + 1]
    OBVIOUS
  <2>6. WsNow = [wio EXCEPT !.wvol = Append(wio.wvol, ray)]
    BY <2>1, <2>2, <2>5 DEF WsNow, RayWritten, NextRay
  <2>7. WsNow.wvol = Append(wio.wvol, ray) /\ WsNow.last_path = wio.last_path
    <3>1. PICK v : v = Append(wio.wvol, ray)
      OBVIOUS
    <3>2. wio = [wvol |-> wio.wvol, last_path |-> wio.last_path]
      BY DEF Shape
    <3>3. QED
      BY <2>6, <3>1, <3>2
  <2>8. Append(wio.wvol, ray) = Rewritten(st, n + 1)
    BY <2>3, <2>4, <2>5, RewrittenNext
  <2>9. EndsNow <=> RayNow = st.nrays
    BY <2>1, <2>3 DEF EndsNow
  <2>10. QED
    BY <1>3, <2>1, <2>2, <2>3, <2>7, <2>8, <2>9
<1>4. QED
  BY <1>2, <1>3

(* The volume a completed sweep leaves is a whole sweep.                   *)
LEMMA SweepWritten ==
  ASSUME Shape, WriteInv, ViewOK, FilesOK, LoopOK, NEW ok, EditRay(ok), EndsNow
  PROVE  /\ WsNow.wvol \in Volumes /\ WsNow.wvol # NoVolume
         /\ OutNow \in Paths /\ Whole(OutNow, WsNow.wvol) /\ NSweeps(WsNow.wvol) = 1
         /\ WsNow.wvol = Rewritten(StNow, StNow.nrays)
<1>1. PICK st, W : st = StNow /\ W = WsNow.wvol
  OBVIOUS
<1>2. HeldOK(st) /\ st.vol # NoVolume
  BY <1>1, RayFound
<1>3. W = Rewritten(st, st.nrays)
  BY <1>1, RayAdded
<1>4. /\ W \in Volumes /\ W # NoVolume /\ PathOf(W) \in Paths /\ Whole(PathOf(W), W)
      /\ NSweeps(W) = 1
  BY <1>2, <1>3, SweepDone
<1>5. QED
  BY <1>1, <1>3, <1>4 DEF OutNow

(* What an iteration of the loop leaves in the files.                      *)
LEMMA DiskWritten ==
  ASSUME Shape, WriteInv, ViewOK, FilesOK, LoopOK, NEW ok, EditRay(ok)
  PROVE  /\ \/ disk' = disk
            \/ /\ EndsNow
               /\ disk' = [q \in Paths |-> IF q = OutNow THEN WsNow.wvol ELSE disk[q]]
         /\ disk' = [q \in Paths |-> disk'[q]]
         /\ \A p \in Paths : Holds(p, disk'[p])
         /\ \A p \in Paths : disk'[p] # disk[p] => NSweeps(disk'[p]) = 1
<1>1. disk' = IF EndsNow THEN DiskAfterSweepEnd(WsNow, ok, disk) ELSE disk
  BY EditRayWrites
<1>2. disk = [p \in Paths |-> disk[p]] /\ \A p \in Paths : Holds(p, disk[p])
  BY DEF FilesOK
<1>3. CASE disk' = disk
  <2>1. PICK d : d = disk'
    OBVIOUS
  <2>2. d = [p \in Paths |-> d[p]] /\ \A p \in Paths : Holds(p, d[p]) /\ d[p] = disk[p]
    BY <1>2, <1>3, <2>1
  <2>3. QED
    BY <1>3, <2>1, <2>2
<1>4. CASE disk' # disk
  <2>1. EndsNow /\ disk' = [disk EXCEPT ![OutNow] = WsNow.wvol]
    BY <1>1, <1>4 DEF DiskAfterSweepEnd, OutNow
  <2>2. PICK out, W : out = OutNow /\ W = WsNow.wvol
    OBVIOUS
  <2>3. W \in Volumes /\ W # NoVolume /\ out \in Paths /\ Whole(out, W) /\ NSweeps(W) = 1
    BY <2>1, <2>2, SweepWritten
  <2>4. disk' = [q \in Paths |-> IF q = out THEN W ELSE disk[q]]
    BY <1>2, <2>1, <2>2
  <2>5. Holds(out, W)
    BY <2>3 DEF Holds
  <2>6. QED
    BY <1>2, <2>1, <2>2, <2>3, <2>4, <2>5
<1>5. QED
  BY <1>3, <1>4

LEMMA RayOK ==
  ASSUME Shape, WriteInv, ViewOK, NamesOK, FilesOK, LoopOK, NEW ok, EditRay(ok)
  PROVE  ViewOK' /\ NamesOK' /\ FilesOK' /\ LoopOK'
<1>1. PICK st, t, n : st = StNow /\ t = RayRead(st) /\ n = RayNow
  OBVIOUS
<1>2. /\ HeldOK(st) /\ st.vol # NoVolume /\ st.cursor < st.nrays /\ st.cursor \in Nat
      /\ n = st.cursor + 1 /\ n \in Nat /\ TotalNow = st.nrays /\ st.nrays \in Nat
      /\ SwpNow \in Nat
  BY <1>1, RayFound, HeldSweep
<1>3. HeldOK(t) /\ t.vol = st.vol /\ t.start = st.start /\ t.nrays = st.nrays /\ t.cursor = n
  <2>1. t = [st EXCEPT !.cursor = n]
    BY <1>1, <1>2 DEF RayRead
  <2>2. IsState(st)
    BY <1>2 DEF HeldOK
  <2>3. t.vol = st.vol /\ t.start = st.start /\ t.nrays = st.nrays /\ t.cursor = n
    BY <2>1, <2>2, CursorSet
  <2>4. HeldOK(t)
    BY <1>1, <1>2, RayReadHeld
  <2>5. QED
    BY <2>3, <2>4
<1>4. /\ io' = [w \in Windows |-> IF w = SE_FRAME THEN t ELSE io[w]]
      /\ UNCHANGED <<name, req, cat, sweep, undo>>
  BY <1>1, EditRayReads
<1>5. ViewOK'
  <2>1. \A w \in Windows : HeldOK(io'[w])
    BY <1>3, <1>4 DEF ViewOK
  <2>2. QED
    BY <1>4, <2>1 DEF ViewOK, Windows, HeldOK
<1>6. FilesOK'
  <2>1. /\ disk' = [q \in Paths |-> disk'[q]]
        /\ \A p \in Paths : Holds(p, disk'[p])
    BY DiskWritten
  <2>2. QED
    BY <1>4, <2>1 DEF FilesOK, Holds
<1>7. NamesOK'
  <2>1. dir' \in Seq(Paths)
    <3>1. CASE dir' = dir
      BY <3>1 DEF NamesOK
    <3>2. CASE dir' # dir
      <4>1. PICK out : out = OutNow
        OBVIOUS
      <4>2. PICK at \in 1 .. Len(dir) + 1 :
              dir' = SubSeq(dir, 1, at - 1) \o <<out>> \o SubSeq(dir, at, Len(dir))
        BY <3>2, <4>1, EditRayWrites
      <4>3. out \in Paths
        BY <3>2, <4>1, EditRayWrites, SweepWritten
      <4>4. dir \in Seq(Paths) /\ Len(dir) \in Nat
        BY LenProperties DEF NamesOK
      <4>5. SubSeq(dir, 1, at - 1) \in Seq(Paths) /\ SubSeq(dir, at, Len(dir)) \in Seq(Paths)
        BY <4>4, SubSeqProperties
      <4>6. <<out>> \in Seq(Paths)
        BY <4>3
      <4>7. QED
        BY <4>2, <4>5, <4>6, ConcatProperties
    <3>3. QED
      BY <3>1, <3>2
  <2>2. wio'.last_path \in Paths \cup {NoPath}
    <3>1. wio' = IF EndsNow THEN SweepEnded(WsNow, ok) ELSE WsNow
      BY EditRayWrites
    <3>2. WsNow.last_path = wio.last_path
      BY RayAdded
    <3>3. CASE EndsNow
      <4>1. OutNow \in Paths
        BY <3>3, SweepWritten
      <4>2. wio'.last_path \in {WsNow.last_path, OutNow, NoPath}
        BY <3>1, <3>3 DEF SweepEnded, OutNow
      <4>3. QED
        BY <3>2, <4>1, <4>2 DEF NamesOK
    <3>4. CASE ~EndsNow
      BY <3>1, <3>2, <3>4 DEF NamesOK
    <3>5. QED
      BY <3>3, <3>4
  <2>3. QED
    BY <2>1, <2>2 DEF NamesOK
<1>8. LoopOK'
  <2>1. /\ se'.list = se.list /\ se'.swp_count = SwpNow /\ se'.ray_num = n
        /\ se'.num_rays = st.nrays /\ se'.command = se.command
        /\ wio' = IF EndsNow THEN SweepEnded(WsNow, ok) ELSE WsNow
    BY <1>1, <1>2, EditRayWrites
  <2>2. se.list \in Seq(Paths)
    BY EditRayReads DEF LoopOK
  <2>3. SE_FRAME \in Windows /\ io'[SE_FRAME] = t
    BY <1>4 DEF Windows
  <2>4. se'.command \notin WritesNothing =>
          wio'.wvol = IF Opens' THEN NoVolume ELSE Rewritten(t, n)
    <3> SUFFICES ASSUME se.command \notin WritesNothing
                 PROVE  wio'.wvol = IF Opens' THEN NoVolume ELSE Rewritten(t, n)
      BY <2>1
    <3>1. WsNow.wvol = Rewritten(st, n) /\ (EndsNow <=> n = st.nrays)
      BY <1>1, RayAdded
    <3>2. Opens' <=> n = st.nrays
      BY <1>2, <2>1 DEF Opens
    <3>3. Rewritten(t, n) = Rewritten(st, n)
      BY <1>3 DEF Rewritten
    <3>4. SweepEnded(WsNow, ok).wvol = NoVolume
      BY DEF SweepEnded
    <3>5. QED
      BY <2>1, <3>1, <3>2, <3>3, <3>4
  <2>5. Rewritten(io[SE_FRAME], se.ray_num)' = Rewritten(t, n)
    BY <2>1, <2>3 DEF Rewritten
  <2>6. QED
    BY <1>2, <1>3, <2>1, <2>2, <2>3, <2>4, <2>5 DEF LoopOK
<1>9. QED
  BY <1>5, <1>6, <1>7, <1>8

----------------------------------------------------------------------------
(* The undo stack.                                                         *)

SavedOK(u) ==
  /\ u \in Seq([path : Paths, image : Volumes])
  /\ \A i \in DOMAIN u : Holds(u[i].path, u[i].image)

LEMMA SavedTaken ==
  ASSUME NEW u, SavedOK(u), NEW v, v = SubSeq(u, 1, Len(u) - 1), u # << >>
  PROVE  SavedOK(v)
<1>1. u \in Seq([path : Paths, image : Volumes])
  BY DEF SavedOK
<1>2. PICK n \in Nat : n = Len(u) /\ DOMAIN u = 1 .. n /\ n >= 1
  BY <1>1, LenProperties, EmptySeq
<1>3. v = [i \in 1 .. n - 1 |-> u[i]]
  <2>1. SubSeq(u, 1, n - 1) = [i \in 1 .. n - 1 |-> u[1 + i - 1]]
    BY <1>1, <1>2
  <2>2. \A i \in 1 .. n - 1 : 1 + i - 1 = i
    OBVIOUS
  <2>3. QED
    BY <1>2, <2>1, <2>2
<1>4. \A i \in 1 .. n - 1 : i \in DOMAIN u /\ v[i] = u[i]
  BY <1>2, <1>3
<1>5. \A i \in 1 .. n - 1 : v[i] \in [path : Paths, image : Volumes]
  BY <1>1, <1>2, <1>4, ElementOfSeq
<1>6. v \in Seq([path : Paths, image : Volumes]) /\ DOMAIN v = 1 .. n - 1
  <2>1. PICK m : m = n - 1 /\ m \in Nat
    <3>1. n - 1 \in Nat
      BY <1>2
    <3>2. QED
      BY <3>1
  <2>2. v = [i \in 1 .. m |-> v[i]] /\ \A i \in 1 .. m : v[i] \in [path : Paths, image : Volumes]
    BY <1>3, <1>5, <2>1
  <2>3. v \in Seq([path : Paths, image : Volumes]) /\ Len(v) = m
    <3>1. PICK S, w : S = [path : Paths, image : Volumes] /\ w = v
      OBVIOUS
    <3>2. w = [i \in 1 .. m |-> w[i]] /\ \A i \in 1 .. m : w[i] \in S
      BY <2>2, <3>1
    <3>3. m \in Nat
      BY <2>1
    <3>4. w \in Seq(S) /\ Len(w) = m
      BY <3>2, <3>3, FunctionInSeq
    <3>5. QED
      BY <3>1, <3>4
  <2>4. DOMAIN v = 1 .. m
    BY <2>3, LenProperties
  <2>5. QED
    BY <2>1, <2>3, <2>4
<1>7. QED
  BY <1>4, <1>6 DEF SavedOK

(* The stack after a push: the new entry, and entries it had.              *)
PushedOnto(v, e) ==
  /\ v \in Seq([path : Paths, image : Volumes])
  /\ \A i \in DOMAIN v : v[i] = e \/ \E j \in DOMAIN undo : v[i] = undo[j]
  /\ Len(v) \in DOMAIN v /\ v[Len(v)] = e

LEMMA PushedEntries ==
  ASSUME SavedOK(undo), NEW p \in Paths, NEW v, v = Pushed(p),
         NEW e, e = [path |-> p, image |-> disk[p]], disk[p] \in Volumes
  PROVE  PushedOnto(v, e)
<1> DEFINE Entries == [path : Paths, image : Volumes]
<1>1. e \in Entries
  OBVIOUS
<1>2. PICK u : u = IF Len(undo) = SE_UNDO_DEPTH THEN Tail(undo) ELSE undo
  OBVIOUS
<1>3. undo \in Seq(Entries) /\ Len(undo) \in Nat /\ DOMAIN undo = 1 .. Len(undo)
  BY LenProperties DEF SavedOK
<1>4. u \in Seq(Entries) /\ \A i \in DOMAIN u : \E j \in DOMAIN undo : u[i] = undo[j]
  <2>1. CASE Len(undo) = SE_UNDO_DEPTH
    <3>1. u = Tail(undo) /\ undo # << >> /\ Len(undo) >= 1
      BY <1>2, <1>3, <2>1, SessionAssumption, EmptySeq
    <3> HIDE DEF Entries
    <3>2. /\ u \in Seq(Entries) /\ Len(u) = Len(undo) - 1
          /\ \A i \in 1 .. Len(u) : u[i] = undo[i + 1]
      BY <1>3, <3>1, HeadTailProperties
    <3>3. DOMAIN u = 1 .. Len(u)
      BY <3>2, LenProperties
    <3>4. \A i \in 1 .. Len(u) : i + 1 \in 1 .. Len(undo)
      BY <1>3, <3>2
    <3>5. QED
      BY <1>3, <3>2, <3>3, <3>4
  <2>2. CASE Len(undo) # SE_UNDO_DEPTH
    BY <1>2, <1>3, <2>2
  <2>3. QED
    BY <2>1, <2>2
<1>5. v = Append(u, e)
  BY <1>2 DEF Pushed
<1> HIDE DEF Entries
<1>6. /\ v \in Seq(Entries) /\ Len(v) = Len(u) + 1 /\ v[Len(u) + 1] = e
      /\ \A i \in 1 .. Len(u) : v[i] = u[i]
  BY <1>1, <1>4, <1>5, AppendProperties
<1>7. /\ Len(u) \in Nat /\ DOMAIN u = 1 .. Len(u) /\ DOMAIN v = 1 .. Len(u) + 1
  BY <1>4, <1>6, LenProperties
<1>8. \A i \in DOMAIN v : i \in DOMAIN u \/ i = Len(u) + 1
  BY <1>7
<1>9. Len(v) \in DOMAIN v
  BY <1>6, <1>7
<1>10. QED
  BY <1>4, <1>6, <1>7, <1>8, <1>9 DEF Entries, PushedOnto

LEMMA SavedPushed ==
  ASSUME SavedOK(undo), FilesOK, NEW p \in Paths, NEW v, v = Pushed(p)
  PROVE  SavedOK(v)
<1>1. PICK e : e = [path |-> p, image |-> disk[p]]
  OBVIOUS
<1>2. Holds(p, disk[p]) /\ disk[p] \in Volumes
  BY DEF FilesOK, Holds
<1>3. PushedOnto(v, e)
  BY <1>1, <1>2, PushedEntries
<1>4. Holds(e.path, e.image)
  BY <1>1, <1>2
<1>5. QED
  BY <1>3, <1>4 DEF SavedOK, PushedOnto

----------------------------------------------------------------------------
(* Every step leaves whole sweeps.                                         *)

LEMMA ViewKept == ViewOK /\ UNCHANGED <<cat, name, req, sweep, io>> => ViewOK'
BY DEF ViewOK, Windows, HeldOK

LEMMA FilesKept == FilesOK /\ UNCHANGED <<disk, undo>> => FilesOK'
BY DEF FilesOK, Holds

LEMMA NamesKept == NamesOK /\ UNCHANGED <<dir, wio>> => NamesOK'
BY DEF NamesOK

LEMMA DoItOK ==
  ASSUME Shape, WriteInv, WholeInv, NEW f \in Frames, NEW command, NEW auto,
         DoIt(f, command, auto)
  PROVE  WholeInv'
<1>1. PICK todo : todo = SweepsToEdit(Listing(dir), span[f].start, span[f].stop)
  OBVIOUS
<1>2. /\ Idle /\ UNCHANGED <<cat, name, req, sweep, io, disk, dir, wio>>
      /\ undo' = IF name[f] = NoPath THEN undo ELSE Pushed(name[f])
      /\ se'.pc = IF command # "empty" /\ todo # << >> THEN "loop" ELSE "post"
      /\ se'.list = IF command # "empty" /\ todo # << >> THEN todo ELSE << >>
      /\ se'.swp_count = 0 /\ se'.ray_num = 0 /\ se'.num_rays = 0
  BY <1>1, DoItStarts
<1>3. ViewOK /\ NamesOK /\ FilesOK
  BY DEF WholeInv
<1>4. ViewOK' /\ NamesOK'
  BY <1>2, <1>3, ViewKept, NamesKept
<1>5. FilesOK'
  <2>1. SavedOK(undo)
    BY <1>3 DEF FilesOK, SavedOK
  <2>2. PICK u, p : u = undo' /\ p = name[f]
    OBVIOUS
  <2>3. SavedOK(u)
    <3>1. CASE p = NoPath
      BY <1>2, <2>1, <2>2, <3>1
    <3>2. CASE p # NoPath
      <4>1. p \in Paths
        BY <1>3, <2>2, <3>2 DEF ViewOK
      <4>2. u = Pushed(p)
        BY <1>2, <2>2, <3>2
      <4>3. QED
        BY <1>3, <2>1, <4>1, <4>2, SavedPushed
    <3>3. QED
      BY <3>1, <3>2
  <2>4. QED
    BY <1>2, <1>3, <2>2, <2>3 DEF FilesOK, SavedOK, Holds
<1>6. LoopOK'
  <2>1. SUFFICES ASSUME se'.pc = "loop" PROVE LoopOK'
    BY DEF LoopOK
  <2>2. todo \in Seq(Paths)
    <3>1. PICK c : c = Listing(dir)
      OBVIOUS
    <3>2. c \in Seq(Entry)
      BY <1>3, <3>1, ListingOK DEF NamesOK
    <3>3. PICK a, b : a = span[f].start /\ b = span[f].stop
      OBVIOUS
    <3>4. SweepsToEdit(c, a, b) \in Seq(Paths)
      BY <3>2, SweepsListed
    <3>5. QED
      BY <1>1, <3>1, <3>3, <3>4
  <2>3. wio'.wvol = NoVolume
    BY <1>2 DEF WriteInv, RaysWait, Idle
  <2>4. Opens'
    BY <1>2 DEF Opens
  <2>5. se'.list = todo
    BY <1>2, <2>1
  <2>6. QED
    BY <1>2, <2>2, <2>3, <2>4, <2>5 DEF LoopOK
<1>7. QED
  BY <1>4, <1>5, <1>6 DEF WholeInv

LEMMA UndoOK ==
  ASSUME Shape, WholeInv, NEW f \in Frames, Undo(f)
  PROVE  WholeInv'
<1>1. /\ undo # << >> /\ UNCHANGED <<dir, wio, name, req, cat, sweep>>
      /\ disk' = [disk EXCEPT ![undo[Len(undo)].path] = undo[Len(undo)].image]
      /\ undo' = SubSeq(undo, 1, Len(undo) - 1)
      /\ DropReadCaches(f) /\ se'.pc = "replot"
  BY UndoDone
<1>2. ViewOK /\ NamesOK /\ FilesOK
  BY DEF WholeInv
<1>3. SavedOK(undo)
  BY <1>2 DEF FilesOK, SavedOK
<1>4. ViewOK'
  <2>1. \A w \in Windows : HeldOK(io'[w])
    BY <1>1, <1>2, DropsHeld
  <2>2. QED
    BY <1>1, <1>2, <2>1 DEF ViewOK, Windows, HeldOK
<1>5. FilesOK'
  <2>1. PICK u : u = undo'
    OBVIOUS
  <2>2. SavedOK(u)
    BY <1>1, <1>3, <2>1, SavedTaken
  <2>3. PICK p, image : p = undo[Len(undo)].path /\ image = undo[Len(undo)].image
    OBVIOUS
  <2>4. p \in Paths /\ Holds(p, image)
    <3>1. undo \in Seq([path : Paths, image : Volumes])
      BY <1>3 DEF SavedOK
    <3>2. Len(undo) \in DOMAIN undo
      BY <1>1, <3>1, LenProperties, EmptySeq
    <3>3. undo[Len(undo)] \in [path : Paths, image : Volumes]
      BY <3>1, <3>2, LenProperties, ElementOfSeq
    <3>4. QED
      BY <1>3, <2>3, <3>2, <3>3 DEF SavedOK
  <2>5. PICK d : d = disk'
    OBVIOUS
  <2>6. d = [q \in Paths |-> IF q = p THEN image ELSE disk[q]]
    BY <1>1, <1>2, <2>3, <2>5 DEF FilesOK
  <2>7. d = [q \in Paths |-> d[q]] /\ \A q \in Paths : Holds(q, d[q])
    BY <1>2, <2>4, <2>6 DEF FilesOK
  <2>8. QED
    BY <2>1, <2>2, <2>5, <2>7 DEF FilesOK, SavedOK, Holds
<1>6. NamesOK' /\ LoopOK'
  BY <1>1, <1>2, NamesKept DEF LoopOK
<1>7. QED
  BY <1>4, <1>5, <1>6 DEF WholeInv

LEMMA DoItEndOK ==
  ASSUME Shape, WholeInv, EndDoIt
  PROVE  WholeInv'
<1>1. /\ UNCHANGED <<disk, dir, wio, name>> /\ se'.pc # "loop"
      /\ undo' = IF se.snapshot /\ ~se.modified THEN SubSeq(undo, 1, Len(undo) - 1)
                 ELSE undo
  BY DoItEnds
<1>2. ViewOK /\ NamesOK /\ FilesOK
  BY DEF WholeInv
<1>3. ViewOK' /\ NamesOK' /\ LoopOK'
  BY <1>1, <1>2, EndOK, NamesKept DEF LoopOK
<1>4. FilesOK'
  <2>1. SavedOK(undo)
    BY <1>2 DEF FilesOK, SavedOK
  <2>2. PICK u : u = undo'
    OBVIOUS
  <2>3. SavedOK(u)
    <3>1. CASE undo = << >>
      <4>1. SubSeq(undo, 1, Len(undo) - 1) = << >>
        BY <3>1
      <4>2. QED
        BY <1>1, <2>1, <2>2, <3>1, <4>1
    <3>2. CASE undo # << >>
      BY <1>1, <2>1, <2>2, <3>2, SavedTaken
    <3>3. QED
      BY <3>1, <3>2
  <2>4. QED
    BY <1>1, <1>2, <2>2, <2>3 DEF FilesOK, SavedOK, Holds
<1>5. QED
  BY <1>3, <1>4 DEF WholeInv

LEMMA WholeStep == Shape /\ WriteInv /\ WholeInv /\ [Next]_vars => WholeInv'
<1> SUFFICES ASSUME Shape, WriteInv, WholeInv, [Next]_vars PROVE WholeInv'
  OBVIOUS
<1>0. ViewOK /\ NamesOK /\ FilesOK /\ LoopOK
  BY DEF WholeInv
<1>1. ASSUME UNCHANGED <<cat, name, req, sweep, io, disk, undo, dir, wio, se>>
      PROVE  WholeInv'
  <2>1. LoopOK'
    BY <1>0, <1>1 DEF LoopOK, Opens, Rewritten
  <2>2. QED
    BY <1>0, <1>1, <2>1, ViewKept, FilesKept, NamesKept DEF WholeInv
<1>2. ASSUME ViewOK', UNCHANGED <<disk, undo, dir, wio>>, se'.pc # "loop"
      PROVE  WholeInv'
  BY <1>0, <1>2, FilesKept, NamesKept DEF WholeInv, LoopOK
<1>3. CASE UNCHANGED vars
  BY <1>1, <1>3 DEF vars
<1>4. CASE Processing
  <2>1. ASSUME NEW ok, EditRay(ok) PROVE WholeInv'
    BY <1>0, <2>1, RayOK DEF WholeInv
  <2>2. CASE EndOfRays
    <3>1. PICK p : p = "post"
      OBVIOUS
    <3>2. se' = [se EXCEPT !.pc = p]
      BY <2>2, <3>1 DEF EndOfRays
    <3>3. se'.pc = p
      BY <3>2 DEF Shape, IsEditor
    <3>4. UNCHANGED <<cat, name, req, sweep, io, disk, undo, dir, wio>>
      BY <2>2 DEF EndOfRays, frameVars
    <3>5. QED
      BY <1>0, <1>2, <3>1, <3>3, <3>4, ViewKept
  <2>3. CASE EndDoIt
    BY <2>3, DoItEndOK
  <2>4. QED
    BY <1>4, <2>1, <2>2, <2>3 DEF Processing
<1>5. CASE Replot
  <2>1. PICK p : p = "idle"
    OBVIOUS
  <2>2. se' = [se EXCEPT !.pc = p]
    BY <1>5, <2>1 DEF Replot
  <2>3. se'.pc = p
    BY <2>2 DEF Shape, IsEditor
  <2>4. se.frame \in Frames
    BY <1>5, SessionAssumption DEF Replot, Shape, Idle
  <2>5. ViewOK'
    BY <1>0, <1>5, <2>4, PlotOK DEF Replot
  <2>6. UNCHANGED <<disk, undo, dir, wio>>
    BY <1>5 DEF Replot
  <2>7. QED
    BY <1>2, <2>1, <2>3, <2>5, <2>6
<1>6. CASE Gesture
  <2>1. CASE Escape
    BY <1>1, <2>1 DEF Escape, frameVars
  <2>2. ASSUME NEW f \in Frames, NEW command \in PlotCommands, PlotFrames(f, command)
        PROVE  WholeInv'
    <3>1. ViewOK'
      BY <1>0, <2>2, PlotOK DEF PlotFrames
    <3>2. UNCHANGED <<disk, undo, dir, wio, se>> /\ se.pc # "loop"
      BY <2>2 DEF PlotFrames, Idle
    <3>3. QED
      BY <1>2, <3>1, <3>2
  <2>3. ASSUME NEW f \in Frames, Click(f)
        PROVE  WholeInv'
    <3>1. ViewOK'
      BY <1>0, <2>3, ClickOK
    <3>2. UNCHANGED <<disk, undo, dir, wio, se>> /\ se.pc # "loop"
      BY <2>3 DEF Click, Idle
    <3>3. QED
      BY <1>2, <3>1, <3>2
  <2>4. ASSUME NEW f \in Frames, NEW k \in DOMAIN dir, SelectFile(f, k)
        PROVE  WholeInv'
    <3>1. ViewOK'
      BY <1>0, <2>4, SelectOK
    <3>2. UNCHANGED <<disk, undo, dir, wio, se>> /\ se.pc # "loop"
      BY <2>4 DEF SelectFile, Idle
    <3>3. QED
      BY <1>2, <3>1, <3>2
  <2>5. ASSUME NEW f \in Frames, ResetTimes(f) \/ FirstSweep(f) \/ LastSweep(f)
        PROVE  WholeInv'
    BY <1>1, <2>5 DEF ResetTimes, FirstSweep, LastSweep
  <2>6. ASSUME NEW f \in Frames, NEW command \in Commands, NEW auto \in BOOLEAN,
               DoIt(f, command, auto)
        PROVE  WholeInv'
    BY <2>6, DoItOK
  <2>7. ASSUME NEW f \in Frames, Undo(f)
        PROVE  WholeInv'
    BY <2>7, UndoOK
  <2>8. QED
    BY <1>6, <2>1, <2>2, <2>3, <2>4, <2>5, <2>6, <2>7 DEF Gesture
<1>7. QED
  BY <1>3, <1>4, <1>5, <1>6 DEF Next

LEMMA RecordedHeld == ASSUME RecordedWhole PROVE \A p \in Paths : Holds(p, InitFiles[p])
<1> TAKE p \in Paths
<1>1. InitFiles[p] \in Seq(Ray)
  BY SessionAssumption
<1>2. Ray \subseteq AnyRay
  BY RadarIOAssumption DEF Ray, AnyRay
<1>3. InitFiles[p] \in Volumes
  BY <1>1, <1>2, SeqMonotonic DEF Volumes
<1>4. QED
  BY <1>3 DEF Holds, RecordedWhole

(* The first plot finds a file, as the directory has one.                  *)
LEMMA WholeStart == ASSUME RecordedWhole PROVE Init => WholeInv
<1> SUFFICES ASSUME Init PROVE WholeInv
  OBVIOUS
<1> DEFINE found == Search(Listing(InitDir), 0, TIME_NEAREST, LatestVersion)
<1>1. PICK c : c = Listing(InitDir)
  OBVIOUS
<1>2. InitDir \in Seq(Paths) /\ InitDir # << >>
  BY SessionAssumption
<1>3. c \in Seq(Entry) /\ DOMAIN c = DOMAIN InitDir
  BY <1>1, <1>2, ListingOK
<1>4. \A p \in Paths : Holds(p, InitFiles[p])
  BY RecordedHeld
<1>5. PICK first : first = c[CHOOSE i \in DOMAIN c : i \in found]
  OBVIOUS
<1>6. first.file \in Paths /\ first.stamp \in Times
  <2>1. DOMAIN c # {}
    BY <1>2, <1>3, LenProperties, EmptySeq
  <2>2. TIME_NEAREST = 0 /\ LatestVersion \in Int
    BY DEF TIME_NEAREST, LatestVersion
  <2>3. found \subseteq DOMAIN c /\ found # {}
    BY <1>1, <1>3, <2>1, <2>2, SearchFinds
  <2> HIDE DEF found
  <2>4. PICK i \in DOMAIN c : first = c[i]
    BY <1>5, <2>3
  <2>5. first \in Entry
    BY <1>3, <2>4, StampsOK
  <2>6. QED
    BY <2>5 DEF Entry
<1>7. PICK p, s : p = first.file /\ s = first.stamp
  OBVIOUS
<1>8. PICK st : st = HeaderRead(ClosedState, p, 0, InitFiles)
  OBVIOUS
<1>9. PICK t : t = [st EXCEPT !.cursor = st.nrays]
  OBVIOUS
<1>10. /\ disk = InitFiles /\ dir = InitDir /\ wio = ClosedWrite /\ undo = << >>
       /\ io = [w \in Windows |-> IF w \in {Lead(f) : f \in Frames} THEN t ELSE ClosedState]
       /\ name = [f \in Frames |-> IF Lead(f) = f THEN p ELSE NoPath]
       /\ req = [w \in Windows |-> 0]
       /\ cat = [f \in Frames |-> IF Lead(f) = f THEN c ELSE << >>]
       /\ sweep = [f \in Frames |-> [file |-> p, stamp |-> s, version |-> LATEST_VERSION,
                                     changed |-> Lead(f) # f]]
       /\ se.pc = "idle"
  BY <1>1, <1>5, <1>7, <1>8, <1>9 DEF Init, EditorIdle
<1>11. p \in Paths /\ s \in Times
  BY <1>6, <1>7
<1>12. HeldOK(t) /\ HeldOK(ClosedState)
  <2>1. IsState(ClosedState) /\ ClosedState.vol = NoVolume
    BY DEF IsState, ClosedState
  <2>2. PICK closed : closed = ClosedState
    OBVIOUS
  <2>3. HeldOK(closed)
    BY <2>1, <2>2, NoVolumeHeld
  <2>4. Holds(p, InitFiles[p])
    BY <1>4, <1>11
  <2>5. st = HeaderRead(closed, p, 0, InitFiles) /\ 0 \in Int
    BY <1>8, <2>2
  <2>6. HeldOK(st)
    BY <1>11, <2>3, <2>4, <2>5, HeaderHeld
  <2>7. PICK n : n = st.nrays
    OBVIOUS
  <2>8. t = [st EXCEPT !.cursor = n] /\ (st.vol # NoVolume => n \in Nat)
    BY <1>9, <2>6, <2>7, HeldSweep
  <2>9. HeldOK(t)
    BY <2>6, <2>8, CursorHeld
  <2>10. QED
    BY <2>2, <2>3, <2>9
<1>13. ViewOK
  <2>1. << >> \in Seq(Entry)
    BY EmptySeq
  <2>2. cat \in [Frames -> Seq(Entry)]
    BY <1>3, <1>10, <2>1
  <2>3. name \in [Frames -> Paths \cup {NoPath}]
    BY <1>10, <1>11
  <2>4. req \in [Windows -> Int]
    BY <1>10
  <2>5. sweep \in [Frames -> SweepInfo]
    BY <1>10, <1>11 DEF SweepInfo, LATEST_VERSION
  <2>6. \A w \in Windows : HeldOK(io[w])
    BY <1>10, <1>12
  <2>7. QED
    BY <2>2, <2>3, <2>4, <2>5, <2>6 DEF ViewOK
<1>14. NamesOK
  BY <1>2, <1>10 DEF NamesOK, ClosedWrite
<1>15. FilesOK
  <2>1. disk = [q \in Paths |-> disk[q]] /\ \A q \in Paths : Holds(q, disk[q])
    <3>1. InitFiles = [q \in Paths |-> InitFiles[q]]
      BY SessionAssumption
    <3>2. QED
      BY <1>4, <1>10, <3>1
  <2>2. undo \in Seq([path : Paths, image : Volumes]) /\ DOMAIN undo = {}
    BY <1>10, EmptySeq
  <2>3. QED
    BY <2>1, <2>2 DEF FilesOK
<1>16. LoopOK
  BY <1>10 DEF LoopOK
<1>17. QED
  BY <1>13, <1>14, <1>15, <1>16 DEF WholeInv

LEMMA SessionWhole ==
  ASSUME FieldsKept, RecordedWhole
  PROVE  Spec => [](Shape /\ WriteInv /\ WholeInv)
<1>1. Init => Shape /\ WriteInv /\ WholeInv
  BY ShapeStart, WriteStart, WholeStart
<1>2. Shape /\ WriteInv /\ WholeInv /\ [Next]_vars => (Shape /\ WriteInv /\ WholeInv)'
  BY ShapeStep, WriteStep, WholeStep
<1>3. QED
  BY <1>1, <1>2, PTL DEF Spec

(* Whatever the user does and whatever stops a Do It - a halt, a file that *)
(* is gone, a write that fails, a command that gives up - a file of the    *)
(* directory holds whole sweeps, each edited as a whole, and is named      *)
(* after what it holds (dd_edd, rio_write_ray, rio_write_sweep_end,        *)
(* se_undo_pop_restore).                                                   *)
THEOREM FilesStayWhole ==
  ASSUME FieldsKept, RecordedWhole
  PROVE  Spec => []WholeSweeps
<1>1. WholeInv => WholeSweeps
  <2> SUFFICES ASSUME WholeInv, NEW p \in Paths, disk[p] # NoVolume
               PROVE  Whole(p, disk[p])
    BY DEF WholeSweeps, Whole
  <2>1. QED
    BY DEF WholeInv, FilesOK, Holds
<1>2. QED
  BY <1>1, SessionWhole, PTL

----------------------------------------------------------------------------
(* Where the files and the entries of the undo stack come from.            *)

(* Where the entries of the stack come from: the stack as it was, or the   *)
(* file a frame names.                                                     *)
EntriesFrom(v) ==
  \A i \in DOMAIN v :
    \/ \E j \in DOMAIN undo : v[i] = undo[j]
    \/ \E p \in Paths :
         (\E f \in Frames : name[f] = p) /\ v[i] = [path |-> p, image |-> disk[p]]

LEMMA TopRemoved ==
  ASSUME FilesOK, undo # << >>, NEW v, v = SubSeq(undo, 1, Len(undo) - 1)
  PROVE  EntriesFrom(v)
<1>1. undo \in Seq([path : Paths, image : Volumes])
  BY DEF FilesOK
<1>2. PICK n \in Nat : n = Len(undo) /\ DOMAIN undo = 1 .. n /\ n >= 1
  BY <1>1, LenProperties, EmptySeq
<1>3. SubSeq(undo, 1, n - 1) = [i \in 1 .. n - 1 |-> undo[1 + i - 1]]
  BY <1>1, <1>2
<1>4. \A i \in 1 .. n - 1 : 1 + i - 1 = i
  OBVIOUS
<1>5. DOMAIN v = 1 .. n - 1 /\ \A i \in 1 .. n - 1 : v[i] = undo[i]
  BY <1>2, <1>3, <1>4
<1>6. \A i \in 1 .. n - 1 : i \in DOMAIN undo
  BY <1>2
<1>7. QED
  BY <1>5, <1>6 DEF EntriesFrom

LEMMA EntriesKept == ASSUME NEW v, v = undo PROVE EntriesFrom(v)
BY DEF EntriesFrom

LEMMA UndoEntries ==
  ASSUME Shape, WholeInv, [Next]_vars, NEW v, v = undo'
  PROVE  EntriesFrom(v)
<1>0. FilesOK /\ ViewOK
  BY DEF WholeInv
<1>1. CASE Untouched \/ Looks \/ ReplotReads \/ LoopEnds
  BY <1>1, EntriesKept DEF Untouched, Looks, ReplotReads, LoopEnds
<1>2. CASE EndDoIt
  <2>1. undo' = IF se.snapshot /\ ~se.modified THEN SubSeq(undo, 1, Len(undo) - 1) ELSE undo
    BY <1>2, DoItEnds
  <2>2. CASE undo = << >>
    <3>1. SubSeq(undo, 1, Len(undo) - 1) = << >>
      BY <2>2
    <3>2. QED
      BY <2>1, <2>2, <3>1, EntriesKept
  <2>3. QED
    BY <1>0, <2>1, <2>2, EntriesKept, TopRemoved
<1>3. ASSUME NEW ok \in WriteResults, EditRay(ok)
      PROVE  EntriesFrom(v)
  BY <1>3, EditRayReads, EntriesKept
<1>4. ASSUME NEW f \in Frames, NEW command \in Commands, NEW auto \in BOOLEAN,
             DoIt(f, command, auto)
      PROVE  EntriesFrom(v)
  <2>1. undo' = IF name[f] = NoPath THEN undo ELSE Pushed(name[f])
    BY <1>4, DoItStarts
  <2>2. PICK p : p = name[f]
    OBVIOUS
  <2>3. CASE p = NoPath
    BY <2>1, <2>2, <2>3, EntriesKept
  <2>4. CASE p # NoPath
    <3>1. p \in Paths
      BY <1>0, <2>2, <2>4 DEF ViewOK
    <3>2. v = Pushed(p)
      BY <2>1, <2>2, <2>4
    <3>3. PICK e : e = [path |-> p, image |-> disk[p]]
      OBVIOUS
    <3>4. SavedOK(undo) /\ disk[p] \in Volumes
      BY <1>0, <3>1 DEF FilesOK, SavedOK, Holds
    <3>5. PushedOnto(v, e)
      BY <3>1, <3>2, <3>3, <3>4, PushedEntries
    <3>6. QED
      BY <2>2, <3>1, <3>3, <3>5 DEF EntriesFrom, PushedOnto
  <2>5. QED
    BY <2>3, <2>4
<1>5. ASSUME NEW f \in Frames, Undo(f)
      PROVE  EntriesFrom(v)
  <2>1. undo # << >> /\ v = SubSeq(undo, 1, Len(undo) - 1)
    BY <1>5, UndoDone
  <2>2. QED
    BY <1>0, <2>1, TopRemoved
<1>6. QED
  BY <1>1, <1>2, <1>3, <1>4, <1>5, Steps

(* What a file becomes: a sweep of its own, or what the stack has of it.   *)
Becomes(p, image) ==
  \/ image = disk[p]
  \/ NSweeps(image) = 1
  \/ \E j \in DOMAIN undo : undo[j].path = p /\ undo[j].image = image

LEMMA FilesBecome ==
  ASSUME Shape, WriteInv, WholeInv, [Next]_vars, NEW d, d = disk'
  PROVE  \A p \in Paths : Becomes(p, d[p])
<1>0. FilesOK /\ ViewOK /\ LoopOK
  BY DEF WholeInv
<1>1. CASE Untouched \/ Looks \/ ReplotReads \/ LoopEnds
  BY <1>1 DEF Untouched, Looks, ReplotReads, LoopEnds, Becomes
<1>2. CASE EndDoIt
  BY <1>2, DoItEnds DEF Becomes
<1>3. ASSUME NEW ok \in WriteResults, EditRay(ok)
      PROVE  \A p \in Paths : Becomes(p, d[p])
  <2>1. \A p \in Paths : disk'[p] # disk[p] => NSweeps(disk'[p]) = 1
    BY <1>0, <1>3, DiskWritten
  <2>2. \A p \in Paths : d[p] # disk[p] => NSweeps(d[p]) = 1
    BY <2>1
  <2>3. QED
    BY <2>2 DEF Becomes
<1>4. ASSUME NEW f \in Frames, NEW command \in Commands, NEW auto \in BOOLEAN,
             DoIt(f, command, auto)
      PROVE  \A p \in Paths : Becomes(p, d[p])
  BY <1>4, DoItStarts DEF Becomes
<1>5. ASSUME NEW f \in Frames, Undo(f)
      PROVE  \A p \in Paths : Becomes(p, d[p])
  <2>1. PICK top : top = Len(undo)
    OBVIOUS
  <2>2. undo # << >> /\ d = [disk EXCEPT ![undo[top].path] = undo[top].image]
    BY <1>5, <2>1, UndoDone
  <2>3. PICK q, image : q = undo[top].path /\ image = undo[top].image
    OBVIOUS
  <2>4. \A p \in Paths : d[p] = IF p = q THEN image ELSE disk[p]
    BY <1>0, <2>2, <2>3 DEF FilesOK
  <2>5. top \in DOMAIN undo
    BY <1>0, <2>1, <2>2, LenProperties, EmptySeq DEF FilesOK
  <2>6. QED
    BY <2>3, <2>4, <2>5 DEF Becomes
<1>6. QED
  BY <1>1, <1>2, <1>3, <1>4, <1>5, Steps

----------------------------------------------------------------------------
(* The files of volumes.                                                   *)

(* Two whole volumes of one name are cut into sweeps alike.                *)
LEMMA CutAlike ==
  ASSUME NEW p, NEW v \in Volumes, NEW w \in Volumes, Whole(p, v), Whole(p, w)
  PROVE  NSweeps(v) = NSweeps(w)
<1>1. PICK n \in Nat : n = Len(v)
  BY VolumeFacts
<1>2. Len(w) = n /\ DOMAIN v = 1 .. n /\ DOMAIN w = 1 .. n
  BY <1>1, VolumeFacts DEF Whole
<1>3. \A i \in 1 .. n : v[i].time = w[i].time
  BY <1>2 DEF Whole
<1>4. \A i \in 1 .. n : SweepOf(v[i]) = SweepOf(w[i])
  BY <1>3 DEF SweepOf
<1>5. \A i \in 1 .. n : i = 1 \/ i - 1 \in 1 .. n
  BY <1>1
<1>6. ASSUME NEW i \in 1 .. n
      PROVE  (i = 1 \/ SweepOf(v[i]) # SweepOf(v[i - 1]))
               <=> (i = 1 \/ SweepOf(w[i]) # SweepOf(w[i - 1]))
  BY <1>4, <1>5
<1>7. SweepStarts(v) = SweepStarts(w)
  BY <1>1, <1>2, <1>6 DEF SweepStarts
<1>8. QED
  BY <1>7 DEF NSweeps

Recorded(p) == NSweeps(InitFiles[p]) > 1

(* An undo would bring back what was recorded, too.                        *)
VolumesInv ==
  /\ \A p \in Paths : Recorded(p) => disk[p] = InitFiles[p]
  /\ \A i \in DOMAIN undo : Recorded(undo[i].path) => undo[i].image = InitFiles[undo[i].path]

(* A sweep goes to a file of its own, as the name of a volume spans more,  *)
(* and what the stack has of a volume is what was recorded.                *)
LEMMA VolumesStep ==
  Shape /\ WriteInv /\ WholeInv /\ VolumesInv /\ [Next]_vars => VolumesInv'
<1> SUFFICES ASSUME Shape, WriteInv, WholeInv, VolumesInv, [Next]_vars PROVE VolumesInv'
  OBVIOUS
<1>1. PICK d, v : d = disk' /\ v = undo'
  OBVIOUS
<1>2. FilesOK /\ \A p \in Paths : Holds(p, d[p])
  BY <1>1, WholeStep DEF WholeInv, FilesOK, Holds
<1>3. ASSUME NEW p \in Paths, Recorded(p)
      PROVE  d[p] = InitFiles[p]
  <2>1. disk[p] = InitFiles[p] /\ NSweeps(disk[p]) > 1
    BY <1>3 DEF VolumesInv, Recorded
  <2>2. NSweeps(d[p]) # 1
    <3>1. SUFFICES ASSUME NSweeps(d[p]) = 1 PROVE FALSE
      OBVIOUS
    <3>2. disk[p] # NoVolume /\ d[p] # NoVolume
      BY <2>1, <3>1, CountedSweeps
    <3>3. Holds(p, disk[p]) /\ Holds(p, d[p])
      BY <1>2 DEF FilesOK
    <3>4. NSweeps(disk[p]) = NSweeps(d[p])
      BY <3>2, <3>3, CutAlike DEF Holds
    <3>5. QED
      BY <2>1, <3>1, <3>4
  <2>3. Becomes(p, d[p])
    BY <1>1, FilesBecome
  <2>4. QED
    BY <1>3, <2>1, <2>2, <2>3 DEF Becomes, VolumesInv
<1>4. ASSUME NEW i \in DOMAIN v, Recorded(v[i].path)
      PROVE  v[i].image = InitFiles[v[i].path]
  <2>1. EntriesFrom(v)
    BY <1>1, UndoEntries
  <2>2. QED
    BY <1>4, <2>1 DEF EntriesFrom, VolumesInv
<1>5. QED
  BY <1>1, <1>3, <1>4 DEF VolumesInv, Recorded

(* The files of volumes stay as they were recorded, whatever is edited of  *)
(* them and undone: an edited sweep goes to a file of its own              *)
(* (rio_wvol_write_path, tests/test_multisweep_edit_safe.c).               *)
THEOREM VolumesStay ==
  ASSUME FieldsKept, RecordedWhole
  PROVE  Spec => []VolumesUntouched
<1>1. Init => VolumesInv
  BY DEF Init, VolumesInv
<1>2. VolumesInv => VolumesUntouched
  BY DEF VolumesInv, VolumesUntouched, Recorded
<1>3. Shape /\ WriteInv /\ WholeInv /\ VolumesInv /\ [Next]_vars => VolumesInv'
  BY VolumesStep
<1>4. QED
  BY <1>1, <1>2, <1>3, SessionWhole, PTL DEF Spec
=============================================================================
