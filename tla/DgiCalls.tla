------------------------------ MODULE DgiCalls ------------------------------
(***************************************************************************)
(* Several dgis making radar_io.c calls on the files of one directory.     *)
(* The program is single-threaded: each call is one step, and calls on     *)
(* different dgis interleave as the user's events order them.  Callers may *)
(* make any call at any time, so what holds here holds for every caller.   *)
(***************************************************************************)
EXTENDS RadarIO

CONSTANTS Dgis,         \* the dgis of the program
          Writers,      \* those the editing code writes through
          InitFiles,    \* the volumes in the directory at the start
          Names,        \* bound: the file names a caller may ask for
          Requests,     \* bound: the sweep requests a caller may make
          Sought,       \* bound: the ray numbers a caller may seek
          MaxRays,      \* bound: rays assembled for one output file
          MaxWrites     \* bound: output files written

ASSUME DgiCallsAssumption ==
  /\ Writers \subseteq Dgis
  /\ InitFiles \subseteq Seq(Ray) \ {NoVolume}
  /\ Names \subseteq Paths /\ Requests \subseteq Int /\ Sought \subseteq Int
  /\ MaxRays \in Nat /\ MaxWrites \in Nat

VARIABLES disk,    \* what each file name holds
          io,      \* read state of each dgi
          wio,     \* write state of each dgi
          ray,     \* the ray each dgi holds (<< >> or <<ray>>)
          got,     \* history: the rays each dgi returned since its last header
          writes   \* history: output files completed
vars == <<disk, io, wio, ray, got, writes>>

Init ==
  /\ disk = [p \in Paths |->
               IF \E v \in InitFiles : PathOf(v) = p
               THEN CHOOSE v \in InitFiles : PathOf(v) = p ELSE NoVolume]
  /\ io = [d \in Dgis |-> ClosedState]
  /\ wio = [d \in Dgis |-> ClosedWrite]
  /\ ray = [d \in Dgis |-> << >>]
  /\ got = [d \in Dgis |-> {}]
  /\ writes = 0

----------------------------------------------------------------------------
(* rio_read_header, whether or not a volume can be had: a new pass begins. *)
ReadHeader(d, p, req) ==
  /\ io' = [io EXCEPT ![d] = HeaderRead(@, p, req, disk)]
  /\ got' = [got EXCEPT ![d] = {}]
  /\ UNCHANGED <<disk, wio, ray, writes>>

(* rio_read_ray, when it returns a ray.                                    *)
ReadRay(d) ==
  /\ HasRay(io[d])
  /\ io' = [io EXCEPT ![d] = RayRead(@)]
  /\ ray' = [ray EXCEPT ![d] = <<NextRay(io[d])>>]
  /\ got' = [got EXCEPT ![d] = @ \cup {NextRay(io[d])}]
  /\ UNCHANGED <<disk, wio, writes>>

(* rio_seek_ray, rio_rewind.                                               *)
Seek(d, k) ==
  /\ io' = [io EXCEPT ![d] = SeekRay(@, k)]
  /\ UNCHANGED <<disk, wio, ray, got, writes>>

RewindRays(d) ==
  /\ io' = [io EXCEPT ![d] = Rewind(@)]
  /\ UNCHANGED <<disk, wio, ray, got, writes>>

(* rio_invalidate_read, rio_close.                                         *)
Invalidate(d) ==
  /\ io' = [io EXCEPT ![d] = InvalidateRead(@)]
  /\ UNCHANGED <<disk, wio, ray, got, writes>>

Close(d) ==
  /\ io' = [io EXCEPT ![d] = ClosedState]
  /\ wio' = [wio EXCEPT ![d] = ClosedWrite]
  /\ UNCHANGED <<disk, ray, got, writes>>

(* rio_write_ray of the ray the dgi holds, edited or as it was read.       *)
WriteRay(d, edits) ==
  /\ d \in Writers /\ ray[d] # << >>
  /\ Len(wio[d].wvol) < MaxRays
  /\ ray[d][1].gen + edits <= MaxGen
  /\ wio' = [wio EXCEPT ![d] =
               RayWritten(@, [ray[d][1] EXCEPT !.gen = @ + edits])]
  /\ UNCHANGED <<disk, io, ray, got, writes>>

(* rio_write_sweep_end; the library may fail to write the file.            *)
EndSweep(d, ok) ==
  /\ d \in Writers /\ writes < MaxWrites
  /\ wio' = [wio EXCEPT ![d] = SweepEnded(@, ok)]
  /\ disk' = DiskAfterSweepEnd(wio[d], ok, disk)
  /\ writes' = writes + 1
  /\ UNCHANGED <<io, ray, got>>

Next ==
  \E d \in Dgis :
    \/ \E p \in Names, req \in Requests : ReadHeader(d, p, req)
    \/ ReadRay(d)
    \/ \E k \in Sought : Seek(d, k)
    \/ RewindRays(d)
    \/ Invalidate(d)
    \/ Close(d)
    \/ \E edits \in 0 .. 1 : WriteRay(d, edits)
    \/ \E ok \in BOOLEAN : EndSweep(d, ok)

Spec == Init /\ [][Next]_vars

----------------------------------------------------------------------------
ReadState(volumes) ==
  [vol : volumes, path : Paths \cup {NoPath}, swp_index : Nat,
   start : Nat \ {0}, nrays : Nat, cursor : Nat]

WriteState(volumes) == [wvol : volumes, last_path : Paths \cup {NoPath}]

(* Every variable has its type.                                            *)
TypeOK ==
  /\ disk \in [Paths -> Seq(Ray)]
  /\ io \in [Dgis -> ReadState(Seq(Ray))]
  /\ wio \in [Dgis -> WriteState(Seq(Ray))]
  /\ ray \in [Dgis -> {<< >>} \cup {<<r>> : r \in Ray}]
  /\ got \in [Dgis -> SUBSET Ray]
  /\ writes \in 0 .. MaxWrites

(* A read can never run out of the volume: whatever sweep was asked for,   *)
(* whatever was sought, and whatever happened to the file in the meantime, *)
(* the selected sweep lies in the cached volume and the cursor in the      *)
(* selected sweep (rio_read_header's clamp, rio_seek_ray's clamp).         *)
ReadsInBounds ==
  \A d \in Dgis : io[d].vol # NoVolume =>
    /\ io[d].start + io[d].nrays <= Len(io[d].vol) + 1
    /\ io[d].cursor <= io[d].nrays

(* A pass over a sweep is a pass over one sweep of one image of the file:  *)
(* the rays returned since a header read carry one sweep number, and as    *)
(* long as the volume is cached they are all in its selected sweep,        *)
(* however often the file is rewritten meanwhile (rio_read_header,         *)
(* rio_read_ray, rio_invalidate_read).                                     *)
OneImagePerPass ==
  \A d \in Dgis :
    /\ \A r, q \in got[d] : SweepOf(r) = SweepOf(q)
    /\ io[d].vol # NoVolume =>
         got[d] \subseteq {io[d].vol[i] : i \in io[d].start .. io[d].start + io[d].nrays - 1}

(* The name rio_last_written_path answers with is that of a file that is   *)
(* there, through failed writes too.                                       *)
LastWrittenOnDisk ==
  \A d \in Dgis : wio[d].last_path # NoPath => disk[wio[d].last_path] # NoVolume
=============================================================================
