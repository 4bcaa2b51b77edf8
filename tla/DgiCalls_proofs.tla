--------------------------- MODULE DgiCalls_proofs ---------------------------
(***************************************************************************)
(* Theorems about DgiCalls, for any number of dgis, any files and any      *)
(* bounds.                                                                 *)
(***************************************************************************)
EXTENDS DgiCalls, RadarIO_proofs

Selected(st) == st.start .. st.start + st.nrays - 1

(* What every read state satisfies: it is typed, and when it holds a       *)
(* volume, its selection is a part of one sweep of it.                     *)
SweepSelected(st) ==
  /\ st.start + st.nrays <= Len(st.vol) + 1
  /\ st.cursor <= st.nrays
  /\ \A i, j \in Selected(st) : SweepOf(st.vol[i]) = SweepOf(st.vol[j])

ReadStateOK(st) ==
  /\ st \in ReadState(Seq(Ray))
  /\ st.vol # NoVolume => SweepSelected(st)

(* The inductive invariant.  ReadsInBounds and OneImagePerPass need each   *)
(* other, and that a selection is of one sweep.                            *)
IInv ==
  /\ TypeOK
  /\ \A d \in Dgis : ReadStateOK(io[d])
  /\ OneImagePerPass
  /\ LastWrittenOnDisk

----------------------------------------------------------------------------
(* The operators of RadarIO keep read and write states in order.           *)

LEMMA ClampInRange ==
  ASSUME NEW vol \in Seq(Ray), vol # NoVolume, NEW req \in Int
  PROVE  Clamp(req, vol) \in Nat /\ Clamp(req, vol) < NSweeps(vol)
BY StartsOfVolume DEF Clamp

LEMMA SelectOK ==
  ASSUME NEW st \in ReadState(Seq(Ray)), st.vol # NoVolume,
         NEW k \in Nat, k < NSweeps(st.vol)
  PROVE  ReadStateOK(Select(st, k))
<1> DEFINE s == Select(st, k)
           a == SweepStart(st.vol, k)
           b == SweepEnd(st.vol, k)
<1>1. st.vol \in Seq(Ray) /\ Len(st.vol) \in Nat
  BY LenProperties DEF ReadState
<1>2. a \in 1 .. Len(st.vol) /\ b \in a .. Len(st.vol)
  BY <1>1, SweepIsRun
<1>3. \A i \in a .. b : SweepOf(st.vol[i]) = SweepOf(st.vol[a])
  BY <1>1, SweepHasOneNumber
<1>4. /\ s.vol = st.vol /\ s.path = st.path /\ s.swp_index = k
      /\ s.start = a /\ s.nrays = b - a + 1 /\ s.cursor = 0
  BY DEF Select, ReadState
<1>5. s \in ReadState(Seq(Ray))
  <2>1. a \in Nat \ {0} /\ b - a + 1 \in Nat
    BY <1>1, <1>2
  <2>2. s = [st EXCEPT !.swp_index = k, !.start = a, !.nrays = b - a + 1, !.cursor = 0]
    BY DEF Select
  <2> HIDE DEF s, a, b
  <2>3. QED
    BY <2>1, <2>2 DEF ReadState
<1> HIDE DEF s, a, b
<1>6. s.start + s.nrays <= Len(s.vol) + 1 /\ s.cursor <= s.nrays
  BY <1>1, <1>2, <1>4
<1>7. Selected(s) = a .. b
  BY <1>1, <1>2, <1>4 DEF Selected
<1>8. QED
  BY <1>3, <1>4, <1>5, <1>6, <1>7 DEF ReadStateOK, SweepSelected, s

LEMMA HeaderReadOK ==
  ASSUME NEW st, ReadStateOK(st), NEW p \in Paths, NEW req \in Int,
         NEW dsk \in [Paths -> Seq(Ray)]
  PROVE  ReadStateOK(HeaderRead(st, p, req, dsk))
<1> DEFINE vol == IF st.vol # NoVolume /\ st.path = p THEN st.vol ELSE dsk[p]
           opened == [st EXCEPT !.vol = vol, !.path = p]
<1>1. st \in ReadState(Seq(Ray)) /\ vol \in Seq(Ray)
  BY DEF ReadStateOK, ReadState
<1>2. CASE vol = NoVolume
  <2>1. HeaderRead(st, p, req, dsk) = [st EXCEPT !.vol = NoVolume]
    BY <1>2 DEF HeaderRead
  <2>2. [st EXCEPT !.vol = NoVolume] \in ReadState(Seq(Ray))
    BY <1>1, EmptySeq DEF ReadState, NoVolume
  <2>3. [st EXCEPT !.vol = NoVolume].vol = NoVolume
    BY <1>1 DEF ReadState
  <2>4. QED
    BY <2>1, <2>2, <2>3 DEF ReadStateOK
<1>3. CASE vol # NoVolume
  <2>1. HeaderRead(st, p, req, dsk) = Select(opened, Clamp(req, vol))
    BY <1>3 DEF HeaderRead
  <2> HIDE DEF vol
  <2>2. opened \in ReadState(Seq(Ray)) /\ opened.vol = vol
    BY <1>1 DEF ReadState
  <2>3. Clamp(req, vol) \in Nat /\ Clamp(req, vol) < NSweeps(vol)
    BY <1>1, <1>3, ClampInRange
  <2> HIDE DEF opened
  <2>4. QED
    BY <1>3, <2>1, <2>2, <2>3, SelectOK
<1>4. QED
  BY <1>2, <1>3

(* Moving the cursor within the selection changes nothing else.            *)
LEMMA CursorMoved ==
  ASSUME NEW st, ReadStateOK(st), NEW c \in Nat, c <= st.nrays
  PROVE  ReadStateOK([st EXCEPT !.cursor = c])
<1> DEFINE s == [st EXCEPT !.cursor = c]
<1>1. /\ s.vol = st.vol /\ s.start = st.start /\ s.nrays = st.nrays /\ s.cursor = c
      /\ s \in ReadState(Seq(Ray))
  BY DEF ReadStateOK, ReadState
<1> HIDE DEF s
<1>2. QED
  BY <1>1 DEF ReadStateOK, SweepSelected, Selected, s

LEMMA PathOfVolume ==
  ASSUME NEW vol \in Seq(Ray), vol # NoVolume
  PROVE  PathOf(vol) \in Paths /\ PathOf(vol) # NoPath
<1>1. Len(vol) \in Nat \ {0}
  BY EmptySeq DEF NoVolume
<1>2. vol[1] \in Ray /\ vol[Len(vol)] \in Ray
  BY <1>1, ElementOfSeq
<1>3. \A r \in Ray : r.time \in Times
  BY DEF Ray
<1>4. 0 \notin Times
  BY RadarIOAssumption DEF Times
<1>5. QED
  BY <1>2, <1>3, <1>4 DEF PathOf, Paths, NoPath

(* Both parts of the invariant about a dgi, d's read state and the rays it *)
(* returned, in one.                                                       *)
DgiOK(st, rays) ==
  /\ ReadStateOK(st)
  /\ \A r, q \in rays : SweepOf(r) = SweepOf(q)
  /\ st.vol # NoVolume => rays \subseteq {st.vol[i] : i \in Selected(st)}

LEMMA IInvIsDgiOK ==
  IInv <=> TypeOK /\ (\A d \in Dgis : DgiOK(io[d], got[d])) /\ LastWrittenOnDisk
BY DEF IInv, OneImagePerPass, DgiOK, Selected

(* A dgi that has closed its volume, or never had one.                     *)
LEMMA ClosedOK ==
  ASSUME NEW st \in ReadState(Seq(Ray)), st.vol = NoVolume,
         NEW rays, \A r, q \in rays : SweepOf(r) = SweepOf(q)
  PROVE  DgiOK(st, rays)
BY DEF DgiOK, ReadStateOK

(* The next ray of a selection is one of its rays.                         *)
LEMMA RayReadOK ==
  ASSUME NEW st, NEW rays, DgiOK(st, rays), HasRay(st)
  PROVE  /\ NextRay(st) \in Ray
         /\ DgiOK(RayRead(st), rays \cup {NextRay(st)})
<1>1. /\ st \in ReadState(Seq(Ray)) /\ st.vol # NoVolume /\ st.cursor < st.nrays
      /\ SweepSelected(st) /\ st.cursor \in Nat /\ st.start \in Nat \ {0} /\ st.nrays \in Nat
      /\ st.vol \in Seq(Ray) /\ Len(st.vol) \in Nat
  BY LenProperties DEF DgiOK, ReadStateOK, ReadState, HasRay
<1>2. st.start + st.cursor \in Selected(st) /\ st.start + st.cursor \in 1 .. Len(st.vol)
  BY <1>1 DEF Selected, SweepSelected
<1>3. NextRay(st) \in Ray /\ NextRay(st) \in {st.vol[i] : i \in Selected(st)}
  BY <1>1, <1>2, ElementOfSeq DEF NextRay
<1>4. ReadStateOK(RayRead(st))
  <2>1. RayRead(st) = [st EXCEPT !.cursor = st.cursor + 1]
    BY <1>1 DEF RayRead
  <2>2. st.cursor + 1 \in Nat /\ st.cursor + 1 <= st.nrays
    BY <1>1
  <2>3. QED
    BY <2>1, <2>2, CursorMoved DEF DgiOK
<1>5. RayRead(st).vol = st.vol /\ Selected(RayRead(st)) = Selected(st)
  BY <1>1 DEF RayRead, ReadState, Selected
<1>6. rays \cup {NextRay(st)} \subseteq {st.vol[i] : i \in Selected(st)}
  BY <1>1, <1>3 DEF DgiOK
<1>7. \A r, q \in rays \cup {NextRay(st)} : SweepOf(r) = SweepOf(q)
  BY <1>1, <1>6 DEF SweepSelected
<1>8. QED
  BY <1>3, <1>4, <1>5, <1>6, <1>7 DEF DgiOK

(* Seeking and rewinding.                                                  *)
LEMMA SeekOK ==
  ASSUME NEW st, NEW rays, DgiOK(st, rays), NEW k \in Int
  PROVE  DgiOK(SeekRay(st, k), rays) /\ DgiOK(Rewind(st), rays)
<1> DEFINE at(c) == [st EXCEPT !.cursor = c]
<1>1. st \in ReadState(Seq(Ray)) /\ st.nrays \in Nat
  BY DEF DgiOK, ReadStateOK, ReadState
<1>2. ASSUME NEW c \in Nat, c <= st.nrays
      PROVE  DgiOK(at(c), rays)
  <2>1. ReadStateOK(at(c))
    BY <1>2, CursorMoved DEF DgiOK
  <2>2. at(c).vol = st.vol /\ Selected(at(c)) = Selected(st)
    BY <1>1 DEF ReadState, Selected
  <2> HIDE DEF at
  <2>3. QED
    BY <2>1, <2>2 DEF DgiOK
<1>3. \E c \in Nat : c <= st.nrays /\ SeekRay(st, k) = at(c)
  <2>1. CASE k < 0
    BY <1>1, <2>1 DEF SeekRay
  <2>2. CASE k > st.nrays
    BY <1>1, <2>2 DEF SeekRay
  <2>3. CASE k >= 0 /\ k <= st.nrays
    BY <1>1, <2>3 DEF SeekRay
  <2>4. QED
    BY <1>1, <2>1, <2>2, <2>3
<1>4. Rewind(st) = at(0)
  BY DEF Rewind
<1> HIDE DEF at
<1>5. QED
  BY <1>1, <1>2, <1>3, <1>4

----------------------------------------------------------------------------
(* The invariant is inductive.                                             *)

LEMMA InitIInv == Init => IInv
<1> SUFFICES ASSUME Init PROVE IInv
  OBVIOUS
<1>1. /\ ClosedState \in ReadState(Seq(Ray)) /\ ClosedState.vol = NoVolume
      /\ ClosedWrite \in WriteState(Seq(Ray)) /\ ClosedWrite.last_path = NoPath
  BY EmptySeq DEF ClosedState, ClosedWrite, ReadState, WriteState, NoVolume
<1>2. disk \in [Paths -> Seq(Ray)]
  <2>1. NoVolume \in Seq(Ray) /\ \A v \in InitFiles : v \in Seq(Ray)
    BY EmptySeq, DgiCallsAssumption DEF NoVolume
  <2>2. ASSUME NEW p \in Paths
        PROVE  (IF \E v \in InitFiles : PathOf(v) = p
                THEN CHOOSE v \in InitFiles : PathOf(v) = p ELSE NoVolume) \in Seq(Ray)
    BY <2>1
  <2>3. disk = [p \in Paths |-> IF \E v \in InitFiles : PathOf(v) = p
                               THEN CHOOSE v \in InitFiles : PathOf(v) = p ELSE NoVolume]
    BY DEF Init
  <2>4. QED
    BY <2>2, <2>3
<1>3. TypeOK
  BY <1>1, <1>2, DgiCallsAssumption DEF Init, TypeOK
<1>4. \A d \in Dgis : DgiOK(io[d], got[d])
  <2>1. \A r, q \in {} : SweepOf(r) = SweepOf(q)
    OBVIOUS
  <2>2. DgiOK(ClosedState, {})
    BY <1>1, <2>1, ClosedOK
  <2>3. QED
    BY <2>2 DEF Init
<1>5. LastWrittenOnDisk
  BY <1>1 DEF Init, LastWrittenOnDisk
<1>6. QED
  BY <1>3, <1>4, <1>5, IInvIsDgiOK

(* What a step on one dgi leaves of the invariant when it keeps that dgi   *)
(* in order and touches neither the files nor the write states.            *)
LEMMA ReadStep ==
  ASSUME IInv, NEW d \in Dgis, NEW st, NEW rays \in SUBSET Ray,
         DgiOK(st, rays),
         io' = [io EXCEPT ![d] = st], got' = [got EXCEPT ![d] = rays],
         ray' \in [Dgis -> {<< >>} \cup {<<r>> : r \in Ray}],
         UNCHANGED <<disk, wio, writes>>
  PROVE  IInv'
<1>1. TypeOK /\ (\A c \in Dgis : DgiOK(io[c], got[c])) /\ LastWrittenOnDisk
  BY IInvIsDgiOK
<1>2. st \in ReadState(Seq(Ray))
  BY DEF DgiOK, ReadStateOK
<1>3. TypeOK'
  BY <1>1, <1>2 DEF TypeOK
<1>4. \A c \in Dgis : DgiOK(io'[c], got'[c])
  BY <1>1 DEF TypeOK
<1>5. LastWrittenOnDisk'
  BY <1>1 DEF LastWrittenOnDisk
<1>6. QED
  BY <1>3, <1>4, <1>5 DEF IInv, OneImagePerPass, DgiOK, Selected

(* What a step leaves of it that changes only write states and files.      *)
LEMMA WriteStep ==
  ASSUME IInv, TypeOK', LastWrittenOnDisk', UNCHANGED <<io, got>>
  PROVE  IInv'
BY DEF IInv, OneImagePerPass

LEMMA NextIInv == IInv /\ [Next]_vars => IInv'
<1> SUFFICES ASSUME IInv, [Next]_vars PROVE IInv'
  OBVIOUS
<1>0. /\ TypeOK /\ LastWrittenOnDisk
      /\ \A d \in Dgis : DgiOK(io[d], got[d]) /\ got[d] \in SUBSET Ray
  BY IInvIsDgiOK DEF TypeOK
<1>1. ASSUME NEW d \in Dgis, NEW p \in Names, NEW req \in Requests, ReadHeader(d, p, req)
      PROVE  IInv'
  <2>1. p \in Paths /\ req \in Int /\ disk \in [Paths -> Seq(Ray)]
    BY <1>0, DgiCallsAssumption DEF TypeOK
  <2>2. DgiOK(HeaderRead(io[d], p, req, disk), {})
    BY <1>0, <2>1, HeaderReadOK DEF DgiOK
  <2>3. /\ io' = [io EXCEPT ![d] = HeaderRead(io[d], p, req, disk)]
        /\ got' = [got EXCEPT ![d] = {}] /\ {} \in SUBSET Ray
        /\ ray' \in [Dgis -> {<< >>} \cup {<<r>> : r \in Ray}]
        /\ UNCHANGED <<disk, wio, writes>>
    BY <1>0, <1>1 DEF ReadHeader, TypeOK
  <2>4. QED
    BY <2>2, <2>3, ReadStep
<1>2. ASSUME NEW d \in Dgis, ReadRay(d)
      PROVE  IInv'
  <2>1. NextRay(io[d]) \in Ray /\ DgiOK(RayRead(io[d]), got[d] \cup {NextRay(io[d])})
    BY <1>0, <1>2, RayReadOK DEF ReadRay
  <2>2. ray' \in [Dgis -> {<< >>} \cup {<<r>> : r \in Ray}]
    BY <1>0, <1>2, <2>1 DEF ReadRay, TypeOK
  <2>3. /\ io' = [io EXCEPT ![d] = RayRead(io[d])]
        /\ got' = [got EXCEPT ![d] = got[d] \cup {NextRay(io[d])}]
        /\ got[d] \cup {NextRay(io[d])} \in SUBSET Ray
        /\ UNCHANGED <<disk, wio, writes>>
    BY <1>0, <1>2, <2>1 DEF ReadRay
  <2>4. QED
    BY <2>1, <2>2, <2>3, ReadStep
<1>3. ASSUME NEW d \in Dgis, NEW k \in Sought, Seek(d, k)
      PROVE  IInv'
  <2>1. DgiOK(SeekRay(io[d], k), got[d])
    BY <1>0, SeekOK, DgiCallsAssumption
  <2>2. got' = [got EXCEPT ![d] = got[d]]
    BY <1>0, <1>3 DEF Seek, TypeOK
  <2>3. QED
    BY <1>0, <1>3, <2>1, <2>2, ReadStep DEF Seek, TypeOK
<1>4. ASSUME NEW d \in Dgis, RewindRays(d)
      PROVE  IInv'
  <2>1. DgiOK(Rewind(io[d]), got[d])
    BY <1>0, SeekOK
  <2>2. got' = [got EXCEPT ![d] = got[d]]
    BY <1>0, <1>4 DEF RewindRays, TypeOK
  <2>3. QED
    BY <1>0, <1>4, <2>1, <2>2, ReadStep DEF RewindRays, TypeOK
<1>5. ASSUME NEW d \in Dgis, Invalidate(d)
      PROVE  IInv'
  <2>1. InvalidateRead(io[d]) \in ReadState(Seq(Ray)) /\ InvalidateRead(io[d]).vol = NoVolume
    BY <1>0, EmptySeq DEF TypeOK, ReadState, InvalidateRead, NoVolume
  <2>2. DgiOK(InvalidateRead(io[d]), got[d])
    BY <1>0, <2>1, ClosedOK DEF DgiOK
  <2>3. got' = [got EXCEPT ![d] = got[d]]
    BY <1>0, <1>5 DEF Invalidate, TypeOK
  <2>4. QED
    BY <1>0, <1>5, <2>2, <2>3, ReadStep DEF Invalidate, TypeOK
<1>6. ASSUME NEW d \in Dgis, Close(d)
      PROVE  IInv'
  <2>1. /\ ClosedState \in ReadState(Seq(Ray)) /\ ClosedState.vol = NoVolume
        /\ ClosedWrite \in WriteState(Seq(Ray)) /\ ClosedWrite.last_path = NoPath
    BY EmptySeq DEF ClosedState, ClosedWrite, ReadState, WriteState, NoVolume
  <2>2. DgiOK(ClosedState, got[d])
    BY <1>0, <2>1, ClosedOK DEF DgiOK
  <2>3. TypeOK'
    BY <1>0, <1>6, <2>1 DEF Close, TypeOK
  <2>4. \A c \in Dgis : DgiOK(io'[c], got'[c])
    BY <1>0, <1>6, <2>2 DEF Close, TypeOK
  <2>5. LastWrittenOnDisk'
    BY <1>0, <1>6, <2>1 DEF Close, TypeOK, LastWrittenOnDisk
  <2>6. QED
    BY <2>3, <2>4, <2>5 DEF IInv, OneImagePerPass, DgiOK, Selected
<1>7. ASSUME NEW d \in Dgis, NEW edits \in 0 .. 1, WriteRay(d, edits)
      PROVE  IInv'
  <2> DEFINE r == [ray[d][1] EXCEPT !.gen = @ + edits]
             ws == RayWritten(wio[d], r)
  <2>1. r \in Ray
    <3>1. ray[d][1] \in Ray /\ ray[d][1].gen + edits <= MaxGen
      BY <1>0, <1>7 DEF TypeOK, WriteRay
    <3>2. QED
      BY <3>1, RadarIOAssumption DEF Ray
  <2>2. ws \in WriteState(Seq(Ray)) /\ ws.last_path = wio[d].last_path
    <3> HIDE DEF r
    <3>1. wio[d] \in WriteState(Seq(Ray))
      BY <1>0 DEF TypeOK
    <3>2. Append(wio[d].wvol, r) \in Seq(Ray)
      BY <2>1, <3>1, AppendProperties DEF WriteState
    <3>3. QED
      BY <3>1, <3>2 DEF WriteState, RayWritten
  <2> wio' = [wio EXCEPT ![d] = ws] /\ UNCHANGED <<disk, io, ray, got, writes>>
    BY <1>7 DEF WriteRay
  <2> HIDE DEF ws
  <2>3. TypeOK'
    BY <1>0, <2>2 DEF TypeOK
  <2>4. LastWrittenOnDisk'
    BY <1>0, <2>2 DEF LastWrittenOnDisk, TypeOK
  <2>5. QED
    BY <2>3, <2>4, WriteStep
<1>8. ASSUME NEW d \in Dgis, NEW ok \in BOOLEAN, EndSweep(d, ok)
      PROVE  IInv'
  <2> DEFINE ws == wio[d]
             after == SweepEnded(ws, ok)
  <2>1. wio[d] \in WriteState(Seq(Ray)) /\ ws.wvol \in Seq(Ray)
        /\ ws.last_path \in Paths \cup {NoPath}
    BY <1>0 DEF TypeOK, WriteState
  <2>2. ws.wvol # NoVolume => PathOf(ws.wvol) \in Paths /\ PathOf(ws.wvol) # NoPath
    BY <2>1, PathOfVolume
  <2>3. after \in WriteState(Seq(Ray))
    BY <2>1, <2>2, EmptySeq DEF SweepEnded, WriteState, NoVolume
  <2>4. disk' \in [Paths -> Seq(Ray)]
    BY <1>0, <1>8, <2>1, <2>2 DEF EndSweep, DiskAfterSweepEnd, TypeOK
  <2>5. \A p \in Paths : disk[p] # NoVolume => disk'[p] # NoVolume
    BY <1>0, <1>8, <2>2 DEF EndSweep, DiskAfterSweepEnd, TypeOK
  <2>6. after.last_path # NoPath => disk'[after.last_path] # NoVolume
    <3>1. CASE ws.wvol # NoVolume /\ ok
      BY <1>0, <1>8, <2>2, <3>1 DEF SweepEnded, EndSweep, DiskAfterSweepEnd, TypeOK
    <3>2. CASE ws.wvol # NoVolume /\ ~ok
      BY <3>2 DEF SweepEnded
    <3>3. CASE ws.wvol = NoVolume
      BY <1>0, <2>1, <2>5, <3>3 DEF SweepEnded, LastWrittenOnDisk
    <3>4. QED
      BY <3>1, <3>2, <3>3
  <2>7. /\ wio' = [wio EXCEPT ![d] = after] /\ writes' = writes + 1
        /\ writes < MaxWrites /\ UNCHANGED <<io, ray, got>>
    BY <1>8 DEF EndSweep
  <2> HIDE DEF after
  <2>8. TypeOK'
    BY <1>0, <2>3, <2>4, <2>7, DgiCallsAssumption DEF TypeOK
  <2>9. LastWrittenOnDisk'
    <3>1. \A c \in Dgis : wio[c].last_path \in Paths \cup {NoPath}
      BY <1>0 DEF TypeOK, WriteState
    <3>2. QED
      BY <1>0, <2>5, <2>6, <2>7, <3>1 DEF LastWrittenOnDisk, TypeOK
  <2>10. QED
    BY <2>7, <2>8, <2>9, WriteStep
<1>9. CASE UNCHANGED vars
  BY <1>9 DEF vars, IInv, TypeOK, OneImagePerPass, LastWrittenOnDisk
<1>10. QED
  BY <1>1, <1>2, <1>3, <1>4, <1>5, <1>6, <1>7, <1>8, <1>9 DEF Next

LEMMA SpecIInv == Spec => []IInv
BY InitIInv, NextIInv, PTL DEF Spec

----------------------------------------------------------------------------
(* Every read and write state, file and ray stays well formed under any    *)
(* sequence of radar_io.c calls.                                           *)
THEOREM DgisTyped == Spec => []TypeOK
<1>1. IInv => TypeOK
  BY DEF IInv
<1>2. QED
  BY <1>1, SpecIInv, PTL

(* No sequence of calls brings a reader to read outside the volume its dgi *)
(* has cached (rio_read_header, rio_seek_ray, rio_read_ray).               *)
THEOREM ReadsStayInBounds == Spec => []ReadsInBounds
<1>1. IInv => ReadsInBounds
  BY DEF IInv, ReadStateOK, SweepSelected, ReadsInBounds
<1>2. QED
  BY <1>1, SpecIInv, PTL

(* A pass over a sweep returns rays of one sweep of one image of the file, *)
(* whatever is written to that file during the pass (rio_read_ray).        *)
THEOREM PassesReadOneImage == Spec => []OneImagePerPass
<1>1. IInv => OneImagePerPass
  BY DEF IInv
<1>2. QED
  BY <1>1, SpecIInv, PTL

(* rio_last_written_path never names a file that is not there.             *)
THEOREM LastWrittenExists == Spec => []LastWrittenOnDisk
<1>1. IInv => LastWrittenOnDisk
  BY DEF IInv
<1>2. QED
  BY <1>1, SpecIInv, PTL
=============================================================================
