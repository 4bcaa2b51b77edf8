------------------------------ MODULE Boundaries ------------------------------
(***************************************************************************)
(* The boundaries drawn around gates: editor/se_bnd.c, the buttons of the  *)
(* edit window that call it (perusal/sii_edit_widgets.c, the boundary      *)
(* requests of editor/se_wgt_stf.c) and the queue of boundary sets that    *)
(* dd_edd keeps (editor/se_proc_data.c:402-451).                           *)
(*                                                                         *)
(* A boundary is a list of points and the set being drawn is a list of     *)
(* boundaries.  Both lists are closed through "last" (the first element    *)
(* points to the last one) and end in NULL through "next".  Points are     *)
(* recycled through a free list.  The sets used by earlier Do Its hang in  *)
(* a ring.  "store" holds what the pointers reach; "prev" and what follows *)
(* it hold the ring.                                                       *)
(*                                                                         *)
(* A packed set starts every structure with its name and its size.  The    *)
(* size of a boundary header is written as a long and read back, where the *)
(* descriptor has it, as the 32 bits after the name: with eight-byte longs *)
(* those are padding, zero, and a loop that adds them stays where it is.   *)
(***************************************************************************)
EXTENDS Integers, Sequences, SequencesExt

CONSTANTS
  Points,       \* the places that can be clicked
  NoPoint,      \* the origin before anything is clicked
  NumBpms,      \* bound: points allocated (struct bnd_point_mgmt)
  NumObs,       \* bound: boundaries allocated (struct one_boundary)
  SetsKept,     \* the length of the ring: seven in the code
  ImportFiles,  \* the boundaries in the latitude-longitude files
  LongBytes     \* the size of a long

ASSUME PointsAssumption == NoPoint \notin Points
ASSUME LimitsAssumption == /\ NumBpms \in Nat \ {0} /\ NumObs \in Nat \ {0}
                           /\ SetsKept \in Nat \ {0}
ASSUME LongAssumption == LongBytes \in {4, 8}

VARIABLES
  store,          \* [pt, spairs, ob, obs, first, current]
  origin,         \* sebs->origin, a copy of the last first point
  lastOperation,  \* sebs->last_operation: the two that matter, or "other"
  prev,           \* the ring: [last, next, at] of each set kept
  numPrev,        \* seds->num_prev_bnd_sets
  lastPbs,        \* seds->last_pbs, 0 is NULL
  pbs,            \* seds->pbs
  file,           \* the boundary file saved last, <<>> if none
  job             \* "idle", or the loop that is running

vars == <<store, origin, lastOperation, prev, numPrev, lastPbs, pbs, file, job>>
ring == <<prev, numPrev, lastPbs, pbs>>

Bpms == 1..NumBpms
Obs == 1..NumObs
Nil == 0

----------------------------------------------------------------------------
(* Points: the free list and the lists of the boundaries.                  *)

(* The points from b on along "next", at most n of them. *)
RECURSIVE Follow(_, _, _)
Follow(pt, b, n) == IF b = Nil \/ n = 0 THEN <<>> ELSE <<b>> \o Follow(pt, pt[b].next, n - 1)

Bound(st, o) == Follow(st.pt, st.ob[o].top, NumBpms + 1)
PointsOf(st, o) ==
  LET bs == Bound(st, o)
      n == Len(bs)
  IN  [i \in 1..n |-> st.pt[bs[i]].at]

Blank == [at |-> NoPoint, last |-> Nil, next |-> Nil]

(* What a spare point held is forgotten here; the code clears it later.    *)
PushAll(st, o) ==
  LET top == st.ob[o].top
      tail == st.pt[top].last
      freed == ToSet(Bound(st, o))
      spare(b) == [Blank EXCEPT !.next = IF b = tail THEN st.spairs ELSE st.pt[b].next]
  IN  IF top = Nil THEN st
      ELSE [st EXCEPT !.pt = [b \in Bpms |-> IF b \in freed THEN spare(b) ELSE @[b]],
                      !.spairs = top, !.ob[o].top = Nil]

ClrBnd(st, o) == [PushAll(st, o) EXCEPT !.ob[o].num = 0]

(* Points no list holds: not allocated yet, or dropped by the "d" key. *)
Unused(st) == Bpms \ (ToSet(Follow(st.pt, st.spairs, NumBpms))
                        \union UNION {ToSet(Bound(st, o)) : o \in 1..st.obs})

HasSpare(st) == st.spairs # Nil \/ Unused(st) # {}

(* The point se_pop_bpms hands out, and the store without it. *)
Popped(st) == IF st.spairs = Nil THEN Min(Unused(st)) ELSE st.spairs
AfterPop(st) == IF st.spairs = Nil THEN st ELSE [st EXCEPT !.spairs = st.pt[@].next]

Appended(st, o, b, p) ==
  LET top == st.ob[o].top
      tail == st.pt[top].last
  IN  IF top = Nil
      THEN [st EXCEPT !.pt[b] = [at |-> p, last |-> b, next |-> Nil], !.ob[o].top = b]
      ELSE [st EXCEPT !.pt = [@ EXCEPT ![b] = [at |-> p, last |-> tail, next |-> Nil],
                                       ![tail].next = b,
                                       ![top].last = b]]

(* Mutant of Deleted: the closing link still reaches the deleted point. *)
DeletedLeavingTail(st, b) ==
  LET unlinked == [st.pt EXCEPT ![st.pt[b].last].next = Nil]
  IN  [st EXCEPT !.pt = [unlinked EXCEPT ![b] = [Blank EXCEPT !.next = st.spairs]],
                 !.spairs = b]

(* Takes the last point of the current boundary off again. *)
Deleted(st, b) ==
  LET before == st.pt[b].last
      top == st.ob[st.current].top
      unlinked == [st.pt EXCEPT ![before].next = Nil, ![top].last = before]
  IN  [st EXCEPT !.pt = [unlinked EXCEPT ![b] = [Blank EXCEPT !.next = st.spairs]],
                 !.spairs = b]

(* A point on top of the one before it is not kept. *)
AddPoint(st, o, p) ==
  LET b == Popped(st)
      new == Appended(AfterPop(st), o, b, p)
      repeats == st.ob[o].num > 0 /\ new.pt[new.pt[b].last].at = p
  IN  IF repeats THEN Deleted(new, b) ELSE [new EXCEPT !.ob[o].num = @ + 1]

Counted(n) == IF n > 0 THEN n - 1 ELSE n

(* The "d" key: the point goes to no list. *)
Zapped(st, o) ==
  LET top == st.ob[o].top
      tail == st.pt[top].last
      before == st.pt[tail].last
      shorter == IF top = Nil THEN st
                 ELSE IF tail = top THEN [st EXCEPT !.ob[o].top = Nil, !.pt[top] = Blank]
                 ELSE [st EXCEPT !.pt = [[@ EXCEPT ![top].last = before]
                                           EXCEPT ![before].next = Nil, ![tail] = Blank]]
  IN  [shorter EXCEPT !.ob[o].num = Counted(@)]

----------------------------------------------------------------------------
(* Boundaries: the list being drawn.                                       *)

RECURSIVE BoundariesFrom(_, _, _)
BoundariesFrom(st, o, n) ==
  IF o = Nil \/ n = 0 THEN <<>> ELSE <<o>> \o BoundariesFrom(st, st.ob[o].next, n - 1)
Boundaries(st) == BoundariesFrom(st, st.first, NumObs + 1)

ClrAll(st) == FoldLeft(ClrBnd, [st EXCEPT !.current = st.first], Boundaries(st))

HasNext(st) == st.ob[st.current].next # Nil \/ st.obs < NumObs

ReturnNext(st) ==
  LET c == st.current
      new == st.obs + 1
  IN  IF st.ob[c].next # Nil THEN [st EXCEPT !.current = st.ob[c].next]
      ELSE [st EXCEPT !.obs = new, !.current = new,
                      !.ob = [@ EXCEPT ![c].next = new,
                                       ![new] = [top |-> Nil, num |-> 0, last |-> c, next |-> Nil],
                                       ![st.first].last = new]]

(* A cleared boundary that others follow goes to the end of the list. *)
PutAtEnd(st, o) ==
  LET out == IF o = st.first THEN [st EXCEPT !.ob[st.ob[o].next].last = st.ob[o].last,
                                             !.first = st.ob[o].next]
             ELSE [st EXCEPT !.ob = [@ EXCEPT ![st.ob[o].last].next = st.ob[o].next,
                                              ![st.ob[o].next].last = st.ob[o].last]]
      tail == out.ob[out.first].last
  IN  [out EXCEPT !.ob = [@ EXCEPT ![tail].next = o, ![out.first].last = o,
                                   ![o].last = tail, ![o].next = Nil]]

Cycled(st) ==
  LET o == st.current
      next == st.ob[o].next
  IN  IF st.ob[o].num # 0 THEN ReturnNext(st)
      ELSE IF next # Nil /\ st.ob[next].num # 0
           THEN PutAtEnd([st EXCEPT !.current = next], o)
      ELSE [st EXCEPT !.current = st.first]

----------------------------------------------------------------------------
(* Packed sets.                                                            *)

HeaderBytes == IF LongBytes = 8 THEN 128 ELSE 76
PointBytes == 128

(* What the loops over a packed set read as the size of a header. *)
Stride == IF LongBytes = 8 THEN 0 ELSE HeaderBytes

Packs(n) == n > 1

Packed(st) ==
  LET kept == SelectSeq(Boundaries(st), LAMBDA o : Packs(st.ob[o].num))
  IN  [i \in 1..Len(kept) |-> [origin |-> origin, points |-> PointsOf(st, kept[i])]]

SizeOf(set) ==
  FoldLeft(LAMBDA n, b : n + HeaderBytes + PointBytes * (1 + Len(b.points)), 0, set)

(* The i-th boundary of the set goes into the i-th of the list, which is   *)
(* cleared first; boundaries behind the last one are left alone.           *)
UnpackOne(st, i, b) ==
  LET at == IF i = 1 THEN [st EXCEPT !.current = st.first] ELSE ReturnNext(st)
      clear == ClrBnd(at, at.current)
  IN  FoldLeft(LAMBDA s, p : AddPoint(s, s.current, p), clear, b.points)

Unpacked(st, set) == FoldLeftDomain(LAMBDA s, i : UnpackOne(s, i, set[i]), st, set)

(* Bound: enough points are left for the set, others than the first k      *)
(* boundaries being left alone.                                            *)
RoomFor(st, set) ==
  LET n(i) == st.ob[Boundaries(st)[i]].num
      others == FoldLeftDomain(LAMBDA m, i : IF i <= Len(set) THEN m ELSE m + n(i), 0, Boundaries(st))
  IN  others + FoldLeft(LAMBDA m, b : m + Len(b.points), 0, set) <= NumBpms

----------------------------------------------------------------------------
Init ==
  /\ store = [pt |-> [b \in Bpms |-> Blank], spairs |-> Nil,
              ob |-> [o \in Obs |-> [top |-> Nil, num |-> 0,
                                     last |-> IF o = 1 THEN 1 ELSE Nil, next |-> Nil]],
              obs |-> 1, first |-> 1, current |-> 1]
  /\ origin = NoPoint
  /\ lastOperation = "other"
  /\ prev = [s \in 1..SetsKept |-> [last |-> Nil, next |-> Nil, at |-> <<>>]]
  /\ numPrev = 0 /\ lastPbs = Nil /\ pbs = Nil
  /\ file = <<>>
  /\ job = "idle"

Idle == job = "idle"

(* A click in the data.  The first point of a boundary is the new origin. *)
Click(p) ==
  /\ Idle /\ HasSpare(store)
  /\ store' = AddPoint(store, store.current, p)
  /\ origin' = IF store.ob[store.current].num = 0 THEN p ELSE origin
  /\ lastOperation' = "other"
  /\ UNCHANGED <<ring, file, job>>

ZapLast ==
  /\ Idle
  /\ store' = Zapped(store, store.current)
  /\ lastOperation' = "other"
  /\ UNCHANGED <<origin, ring, file, job>>

AddNextBnd ==
  /\ Idle /\ (store.ob[store.current].num # 0 => HasNext(store))
  /\ store' = Cycled(store)
  /\ lastOperation' = "other"
  /\ UNCHANGED <<origin, ring, file, job>>

(* Once for the current boundary, at once again for all of them. *)
ClearBnd ==
  /\ Idle
  /\ IF lastOperation = "cleared"
     THEN store' = ClrAll(store) /\ lastOperation' = "other"
     ELSE store' = ClrBnd(store, store.current) /\ lastOperation' = "cleared"
  /\ UNCHANGED <<origin, ring, file, job>>

(* Only draws. *)
RedrawBnd ==
  /\ Idle
  /\ lastOperation' = "other"
  /\ UNCHANGED <<store, origin, ring, file, job>>

----------------------------------------------------------------------------
(* Sets retrieved.                                                         *)

(* Reads a packed set into the list, or never gets past its first header. *)
Unpack(st, set) ==
  IF Stride = 0
  THEN /\ job' = "unpacking"
       /\ store' = [st EXCEPT !.current = st.first]
       /\ UNCHANGED origin
  ELSE /\ store' = Unpacked(st, set)
       /\ origin' = set[Len(set)].origin
       /\ UNCHANGED job

(* Mutant of Older: starts from the set after the newest. *)
OlderFromOldest == IF lastOperation = "prev" THEN prev[pbs].last ELSE prev[lastPbs].next

Older == IF lastOperation = "prev" THEN prev[pbs].last ELSE lastPbs

PrevBndSet ==
  /\ Idle
  /\ IF lastPbs = Nil THEN UNCHANGED <<store, origin, pbs, job>>
     ELSE /\ pbs' = Older
          /\ Unpack(ClrAll(store), prev[Older].at)
  /\ lastOperation' = "prev"
  /\ UNCHANGED <<prev, numPrev, lastPbs, file>>

(* A saved boundary file picked from the list. *)
NabBoundary ==
  /\ Idle /\ file # <<>>
  /\ Unpack(ClrAll(store), file)
  /\ lastOperation' = "other"
  /\ UNCHANGED <<ring, file>>

(* A file of latitudes and longitudes: nothing is cleared first. *)
ImportBnd(f) ==
  /\ Idle /\ RoomFor(store, <<f>>)
  /\ Unpack(store, <<f>>)
  /\ UNCHANGED <<lastOperation, ring, file>>

(* With nothing drawn the last used set is retrieved, saved and cleared.  *)
SaveBoundary ==
  /\ Idle
  /\ LET drawn == Packed(store) IN
     IF drawn # <<>> THEN file' = drawn /\ UNCHANGED <<store, origin, pbs, job>>
     ELSE IF lastPbs = Nil THEN UNCHANGED <<store, origin, pbs, job, file>>
     ELSE LET newest == prev[lastPbs].at IN
          /\ pbs' = lastPbs
          /\ IF Stride = 0 THEN Unpack(ClrAll(store), newest) /\ UNCHANGED file
             ELSE /\ store' = ClrAll(Unpacked(ClrAll(store), newest))
                  /\ origin' = newest[Len(newest)].origin
                  /\ file' = newest
                  /\ UNCHANGED job
  /\ lastOperation' = "other"
  /\ UNCHANGED <<prev, numPrev, lastPbs>>

----------------------------------------------------------------------------
(* Sets used.                                                              *)

(* The ring with s put behind the newest set. *)
Linked(s) ==
  LET after == prev[lastPbs].next
      put == [prev EXCEPT ![s] = [@ EXCEPT !.last = lastPbs, !.next = after],
                          ![after].last = s]
  IN  [put EXCEPT ![lastPbs].next = s]

Remember(set) ==
  LET s == IF numPrev < SetsKept THEN numPrev + 1 ELSE prev[lastPbs].next
      links == IF numPrev = SetsKept THEN prev
               ELSE IF lastPbs = Nil THEN [prev EXCEPT ![s] = [@ EXCEPT !.last = s, !.next = s]]
               ELSE Linked(s)
  IN  /\ prev' = [links EXCEPT ![s].at = set]
      /\ numPrev' = IF numPrev < SetsKept THEN numPrev + 1 ELSE numPrev
      /\ lastPbs' = s /\ pbs' = s

Encloses == \E i \in 1..Len(Boundaries(store)) : store.ob[Boundaries(store)[i]].num > 2

(* A Do It.  One that is refused before the first ray, and one with        *)
(* nothing enclosed, leave the boundaries alone; one that is punted keeps  *)
(* what was drawn, with the first boundary, where the rays start, current. *)
(* Sets of different sizes differ; of equal sizes they are compared        *)
(* structure by structure, which never ends when a header has no size.     *)
(* (SOLO_DONT_CLEAR_BOUNDARIES is taken not to be set.)                    *)
DoIt(outcome) ==
  LET st == [store EXCEPT !.current = store.first]
      set == Packed(store)
      known == lastPbs # Nil /\ SizeOf(prev[lastPbs].at) = SizeOf(set)
      kept == UNCHANGED <<prev, numPrev, lastPbs>> /\ pbs' = Nil
  IN  /\ Idle /\ (outcome = "refused" \/ Encloses)
      /\ lastOperation' = "other"
      /\ IF outcome = "refused" THEN store' = store /\ kept /\ UNCHANGED job
         ELSE IF outcome = "punted" THEN store' = st /\ kept /\ UNCHANGED job
         ELSE IF known /\ Stride = 0 THEN store' = st /\ kept /\ job' = "comparing"
         ELSE /\ store' = ClrAll(store)
              /\ IF known /\ prev[lastPbs].at = set THEN kept ELSE Remember(set)
              /\ UNCHANGED job
      /\ UNCHANGED <<origin, file>>

(* One turn of a loop that reads the same header again: unpacking, it      *)
(* moves on to one more boundary every time.                               *)
Turn ==
  /\ job # "idle"
  /\ store' = IF job = "unpacking" /\ HasNext(store) THEN ReturnNext(store) ELSE store
  /\ UNCHANGED <<origin, lastOperation, ring, file, job>>

Next ==
  \/ \E p \in Points : Click(p)
  \/ ZapLast
  \/ AddNextBnd
  \/ ClearBnd
  \/ RedrawBnd
  \/ PrevBndSet
  \/ NabBoundary
  \/ \E f \in ImportFiles : ImportBnd(f)
  \/ SaveBoundary
  \/ \E outcome \in {"done", "punted", "refused"} : DoIt(outcome)

Spec == Init /\ [][Next]_vars

(* With longs of eight bytes there are turns to take. *)
LongSpec == Init /\ [][Next \/ Turn]_vars /\ WF_vars(Turn)

=============================================================================
