------------------------------ MODULE RadarIO ------------------------------
(***************************************************************************)
(* What translate/radar_io.c keeps in a dgi, and what its entry points do  *)
(* to it.  A dgi (one per window, one for the editor) owns a read state    *)
(* (struct rio_state, in gpptr7) and a write state (struct                 *)
(* rio_write_state, in gpptr6).  Both are records here and each C function *)
(* is an operator from the old record to the new one, so that the modules  *)
(* that compose several dgis can use them side by side.                    *)
(*                                                                         *)
(* A ray is [time, gen]: when it was recorded, and how many edits its data *)
(* has been through.  A volume is the sequence of its rays; a sweep of it  *)
(* is a maximal run of rays with the same sweep number.                    *)
(***************************************************************************)
EXTENDS Integers, Sequences, FiniteSets

CONSTANTS LastTime,       \* rays are recorded at times 1 .. LastTime
          RaysPerSweep,   \* the antenna starts a new sweep after so many
          MaxGen          \* bound: edits one ray can go through

ASSUME RadarIOAssumption ==
  /\ LastTime \in Nat \ {0}
  /\ RaysPerSweep \in Nat \ {0}
  /\ MaxGen \in Nat

Times == 1 .. LastTime
Ray   == [time : Times, gen : 0 .. MaxGen]

(* The sweep number a ray carries in the file.                             *)
SweepOf(ray) == (ray.time - 1) \div RaysPerSweep

----------------------------------------------------------------------------
(* Volumes, as the Radx library holds and names them.                      *)

NoVolume == << >>                   \* a NULL handle, or no such file

(* Where the sweeps of a volume begin: the library cuts it where the sweep *)
(* number changes.                                                         *)
SweepStarts(vol) ==
  {i \in 1 .. Len(vol) : i = 1 \/ SweepOf(vol[i]) # SweepOf(vol[i - 1])}

NSweeps(vol) == Cardinality(SweepStarts(vol))

(* The first ray of sweep k (counted from 0) and of the sweep after it.    *)
SweepStart(vol, k) ==
  CHOOSE i \in SweepStarts(vol) :
    Cardinality({j \in SweepStarts(vol) : j < i}) = k

(* Mutant of SweepEnd: a sweep reaches to the end of its volume.           *)
SweepEndAtVolumeEnd(vol, k) == Len(vol)

SweepEnd(vol, k) ==
  IF k + 1 < NSweeps(vol) THEN SweepStart(vol, k + 1) - 1 ELSE Len(vol)

(* A file is named after the times of its first and its last ray.          *)
NoPath == <<0, 0>>
Paths  == Times \X Times
PathOf(vol) == <<vol[1].time, vol[Len(vol)].time>>

----------------------------------------------------------------------------
(* The read state.                                                         *)

ClosedState == [vol |-> NoVolume, path |-> NoPath, swp_index |-> 0,
                start |-> 1, nrays |-> 0, cursor |-> 0]

(* Sweep requests are clamped to the sweeps the volume has.                *)
Clamp(req, vol) ==
  LET nsw == IF NSweeps(vol) < 1 THEN 1 ELSE NSweeps(vol)
  IN  IF req < 0 THEN 0 ELSE IF req >= nsw THEN nsw - 1 ELSE req

(* Mutant of Select: the cursor is left where the pass before left it.     *)
SelectKeepingCursor(st, k) ==
  [st EXCEPT !.swp_index = k,
             !.start     = SweepStart(st.vol, k),
             !.nrays     = SweepEnd(st.vol, k) - SweepStart(st.vol, k) + 1]

(* Point the state at sweep k of its volume, at its first ray.             *)
Select(st, k) ==
  [st EXCEPT !.swp_index = k,
             !.start     = SweepStart(st.vol, k),
             !.nrays     = SweepEnd(st.vol, k) - SweepStart(st.vol, k) + 1,
             !.cursor    = 0]

(* rio_read_header of path p for sweep request req: the cached volume is   *)
(* used when it was read under the same path, else the file is read anew.  *)
(* A file that cannot be opened leaves no volume and everything else as it *)
(* was, the name of the previous file included.                            *)
HeaderRead(st, p, req, disk) ==
  LET vol == IF st.vol # NoVolume /\ st.path = p THEN st.vol ELSE disk[p]
  IN  IF vol = NoVolume
      THEN [st EXCEPT !.vol = NoVolume]
      ELSE Select([st EXCEPT !.vol = vol, !.path = p], Clamp(req, vol))

(* rio_read_ray: whether there is a next ray, which one, and the state     *)
(* after it.                                                               *)
HasRay(st)  == st.vol # NoVolume /\ st.cursor < st.nrays
NextRay(st) == st.vol[st.start + st.cursor]
RayRead(st) == [st EXCEPT !.cursor = @ + 1]

(* The rays of the selected sweep: what a pass over the sweep returns.     *)
SelectedRays(st) ==
  IF st.vol = NoVolume THEN << >>
  ELSE SubSeq(st.vol, st.start, st.start + st.nrays - 1)

(* Mutant of SeekRay: no clamp.                                            *)
SeekRayAnywhere(st, k) == [st EXCEPT !.cursor = k]

SeekRay(st, k) ==
  [st EXCEPT !.cursor = IF k < 0 THEN 0 ELSE IF k > st.nrays THEN st.nrays ELSE k]

Rewind(st) == [st EXCEPT !.cursor = 0]

(* rio_invalidate_read: the sweep selection stays behind, without a volume.*)
InvalidateRead(st) == [st EXCEPT !.vol = NoVolume, !.path = NoPath]

----------------------------------------------------------------------------
(* The write state: the volume being assembled, and the name of the file   *)
(* the last completed write produced.                                      *)

ClosedWrite == [wvol |-> NoVolume, last_path |-> NoPath]

(* Mutant of RayWritten: a fresh volume for every ray.                     *)
RayWrittenAfresh(ws, ray) == [ws EXCEPT !.wvol = <<ray>>]

(* rio_write_ray: a fresh volume when there is none, then one more ray.    *)
RayWritten(ws, ray) == [ws EXCEPT !.wvol = Append(@, ray)]

(* Mutants of SweepEnded: the name is set before the library is asked to   *)
(* write; a volume that could not be written is kept.                      *)
SweepEndedNamedFirst(ws, ok) ==
  [wvol |-> NoVolume,
   last_path |-> IF ws.wvol = NoVolume THEN ws.last_path ELSE PathOf(ws.wvol)]

SweepEndedKeepingFailed(ws, ok) ==
  [wvol |-> IF ok THEN NoVolume ELSE ws.wvol,
   last_path |-> IF ws.wvol = NoVolume THEN ws.last_path
                 ELSE IF ok THEN PathOf(ws.wvol) ELSE NoPath]

(* rio_write_sweep_end: the assembled volume is released whether or not    *)
(* the library could write it; only a file that was written leaves a name. *)
SweepEnded(ws, ok) ==
  [wvol |-> NoVolume,
   last_path |-> IF ws.wvol = NoVolume THEN ws.last_path
                 ELSE IF ok THEN PathOf(ws.wvol) ELSE NoPath]

DiskAfterSweepEnd(ws, ok, disk) ==
  IF ws.wvol # NoVolume /\ ok
  THEN [disk EXCEPT ![PathOf(ws.wvol)] = ws.wvol] ELSE disk
=============================================================================
