--------------------------- MODULE RayEdit_proofs ---------------------------
(***************************************************************************)
(* What the commands on the rays leave alone, for rays and sweeps of any   *)
(* size, any fields, values, boundaries and lists of commands.             *)
(***************************************************************************)
EXTENDS RayProperties, IntegerSets, SequenceTheorems
LOCAL INSTANCE FiniteSetsExt

FileNames    == {FileFields[i].name : i \in FileSlots}
ListNames(l) == {l[j].dst : j \in DOMAIN l}

(* There is a slot for every field that a list writes to.                  *)
SlotsSuffice ==
  \A l \in Lists : Cardinality(FileNames \cup ListNames(l)) <= MaxSlots

(* No list writes to a name that begins the name of another field of the   *)
(* file: the commands would take that field for the one meant.             *)
NamesClear ==
  \A l \in Lists, n \in FileNames :
    \A m \in ListNames(l) : <<m, n>> \notin Prefixes

----------------------------------------------------------------------------
(* The inductive invariant.                                                *)

IsHeader(p) == p = [name |-> p.name, scale |-> p.scale, bias |-> p.bias]

Shape ==
  /\ parm = [i \in Slots |-> parm[i]] /\ data = [i \in Slots |-> data[i]]
  /\ \A i \in Slots : IsHeader(parm[i])
  /\ present \subseteq Slots
  /\ \E S : written \in Seq(S)
  /\ file \in [1 .. NRays -> Rays] /\ cmds \in Lists /\ modified \in BOOLEAN

(* Slots in use have names of their own, from the file or the list.        *)
SlotsNamed ==
  /\ \A i, j \in present : parm[i].name = parm[j].name => i = j
  /\ \A i \in present : parm[i].name \in FileNames \cup ListNames(cmds)

Progress ==
  /\ ray \in 0 .. NRays /\ next \in 1 .. Len(cmds) + 1
  /\ Len(written) <= ray
  /\ pc \in {"read", "perform", "punt", "done"}
  /\ pc = "read" => ray < NRays
  /\ pc = "perform" => ray >= 1

(* The gates of a field of the file as ray r brings them.                  *)
AsRead(r, i) ==
  [g \in Gates |-> Quantized(file[r][FileFields[i].name][g], FileFields[i])]

(* A field that is spared stays in its slot, as it was read.               *)
InPlace ==
  \A i \in FileSlots : Spared(FileFields[i].name) =>
    /\ i \in present /\ parm[i] = FileFields[i]
    /\ pc = "perform" => data[i] = AsRead(ray, i)

(* The commands that do nothing and do not mark the sweep.                 *)
Idle(c) ==
  \/ c.op \in {"clear-bad-flags", "complement-bad-flags"}
  \/ c.op = "ignore-field" /\ ~Has(c.dst)
  \/ c.op = "unconditional-delete" /\ ~drawn

(* The rays written are those read, from the first one on: a list that has *)
(* not marked the sweep on its first ray never will.                       *)
WrittenSoFar == Len(written) = IF pc = "perform" THEN ray - 1 ELSE ray

Passed(j) == ray > 1 \/ (ray = 1 /\ (pc = "perform" => j < next))
AllIdle   == \A j \in DOMAIN cmds : Passed(j) => Idle(cmds[j])

NothingYet ==
  /\ written = << >> /\ present = FileSlots
  /\ \A i \in FileSlots : parm[i] = FileFields[i]
  /\ AllIdle

Aligned == pc # "punt" => /\ modified => WrittenSoFar
                          /\ ~modified => NothingYet

WrittenAsRead ==
  \A r \in DOMAIN written, i \in FileSlots : Spared(FileFields[i].name) =>
    /\ FileFields[i].name \in DOMAIN written[r]
    /\ written[r][FileFields[i].name] =
         [g \in Gates |-> Physical(AsRead(r, i)[g], FileFields[i])]

RayInv == Shape /\ SlotsNamed /\ Progress /\ InPlace /\ Aligned /\ WrittenAsRead

----------------------------------------------------------------------------
(* Slots.                                                                  *)

LEMMA SlotsFinite == IsFiniteSet(Slots) /\ Slots \subseteq Int /\ MaxSlots \in Nat \ {0}
<1>1. MaxSlots \in Nat \ {0}
  BY RayEditAssumption
<1>2. QED
  BY <1>1, FS_Interval DEF Slots

LEMMA FileSlotsAre == FileSlots = 1 .. Len(FileFields) /\ FileSlots \subseteq Slots
<1>1. FileSlots = 1 .. Len(FileFields) /\ Len(FileFields) \in Nat
  BY RayEditAssumption, LenProperties DEF FileSlots
<1>2. QED
  BY <1>1, RayEditAssumption DEF Slots

LEMMA LeastSlot ==
  ASSUME NEW S \in SUBSET Slots, S # {}
  PROVE  Min(S) \in S
<1>1. IsFiniteSet(S) /\ S \in SUBSET Int
  BY SlotsFinite, FS_Subset
<1>2. \E m \in S : \A x \in S : m <= x
  BY <1>1, LeastElement
<1>3. QED
  BY <1>2 DEF Min

LEMMA FieldFound ==
  ASSUME Shape, NEW n, Has(n)
  PROVE  Field(n) \in present /\ Field(n) \in Slots /\ parm[Field(n)].name = n
<1> DEFINE S == {i \in present : parm[i].name = n}
<1>1. S \in SUBSET Slots /\ S # {}
  BY DEF Shape, Has
<1>2. Min(S) \in S
  BY <1>1, LeastSlot
<1>3. QED
  BY <1>1, <1>2 DEF Field

(* A name that is not in use finds a free slot.                            *)
LEMMA FreeSlot ==
  ASSUME Shape, SlotsNamed, SlotsSuffice, NEW n \in ListNames(cmds), ~Has(n)
  PROVE  Slots \ present # {}
<1> DEFINE All == FileNames \cup ListNames(cmds)
           f == [i \in present |-> parm[i].name]
<1>1. SUFFICES ASSUME present = Slots
               PROVE  FALSE
  BY DEF Shape
<1>2. cmds \in Lists /\ Cardinality(All) <= MaxSlots
  BY DEF Shape, SlotsSuffice
<1>3. IsFiniteSet(All)
  <2>1. IsFiniteSet(FileNames)
    <3>1. IsFiniteSet(FileSlots)
      BY FileSlotsAre, SlotsFinite, FS_Subset
    <3> DEFINE g == [i \in FileSlots |-> FileFields[i].name]
    <3>2. /\ FileNames = {g[i] : i \in FileSlots}
          /\ g = [i \in FileSlots |-> g[i]]
      BY DEF FileNames
    <3> HIDE DEF g
    <3>3. QED
      BY <3>1, <3>2, ImageFinite
  <2>2. IsFiniteSet(ListNames(cmds))
    <3>1. IsFiniteSet(DOMAIN cmds)
      <4>1. DOMAIN cmds = 1 .. Len(cmds) /\ Len(cmds) \in Nat
        BY <1>2, RayEditAssumption, LenProperties
      <4>2. QED
        BY <4>1, FS_Interval
    <3> DEFINE g == [j \in DOMAIN cmds |-> cmds[j].dst]
    <3>2. /\ ListNames(cmds) = {g[j] : j \in DOMAIN cmds}
          /\ g = [j \in DOMAIN cmds |-> g[j]]
      BY DEF ListNames
    <3> HIDE DEF g
    <3>3. QED
      BY <3>1, <3>2, ImageFinite
  <2>3. QED
    BY <2>1, <2>2, FS_Union
<1>4. n \in All /\ IsFiniteSet(All \ {n}) /\ Cardinality(All \ {n}) = Cardinality(All) - 1
  BY <1>3, FS_RemoveElement
<1>5. /\ f \in [present -> All \ {n}]
      /\ \A i, j \in present : f[i] = f[j] => i = j
  <2>1. \A i \in present : f[i] \in All \ {n}
    BY DEF SlotsNamed, Has
  <2>2. QED
    BY <2>1 DEF SlotsNamed
<1> HIDE DEF All, f
<1>6. Cardinality(present) <= Cardinality(All \ {n})
  BY <1>4, <1>5, NoMoreThanNames
<1>7. Cardinality(present) = MaxSlots
  BY <1>1, SlotsFinite, FS_Interval DEF Slots
<1>8. Cardinality(All) \in Nat
  BY <1>3, FS_CardinalityType
<1>9. QED
  BY <1>2, <1>4, <1>6, <1>7, <1>8, SlotsFinite

LEMMA DestinationFound ==
  ASSUME Shape, SlotsNamed, SlotsSuffice, NEW n \in ListNames(cmds),
         NEW d, d = Destination(n)
  PROVE  /\ d \in Slots
         /\ d \in present => parm[d].name = n \/ <<n, parm[d].name>> \in Prefixes
         /\ d \notin present => ~Has(n)
<1> DEFINE Alike == {i \in present : parm[i].name = n \/ <<n, parm[i].name>> \in Prefixes}
<1>1. d = Min(IF Alike # {} THEN Alike ELSE Slots \ present)
  BY DEF Destination
<1>2. Alike \in SUBSET Slots /\ present \subseteq Slots
  BY DEF Shape
<1>3. CASE Alike # {}
  <2>1. d \in Alike
    BY <1>1, <1>2, <1>3, LeastSlot
  <2>2. QED
    BY <1>2, <2>1
<1>4. CASE Alike = {}
  <2>1. ~Has(n)
    BY <1>4 DEF Has
  <2>2. Slots \ present # {}
    BY <2>1, FreeSlot
  <2>3. Min(Slots \ present) \in Slots \ present
    BY <2>2, LeastSlot
  <2>4. QED
    BY <1>1, <1>4, <2>1, <2>3
<1>5. QED
  BY <1>3, <1>4

----------------------------------------------------------------------------
(* What any command does, as far as fields and slots go.                   *)

(* Nothing changes outside slot k.                                         *)
OnlySlot(k) ==
  /\ parm' = [parm EXCEPT ![k] = parm'[k]]
  /\ data' = [data EXCEPT ![k] = data'[k]]

InField(n) ==
  /\ Has(n) /\ OnlySlot(Field(n)) /\ present' = present
  /\ Field(n) \in Slots =>
       IsHeader(parm'[Field(n)]) /\ parm'[Field(n)].name = parm[Field(n)].name

IntoField(src, dst) ==
  /\ Has(src) /\ OnlySlot(Destination(dst))
  /\ present' = present \cup {Destination(dst)}
  /\ Destination(dst) \in Slots => parm'[Destination(dst)] = Header(src, dst)

Dropped(n) ==
  /\ Has(n) /\ present' = present \ {Field(n)} /\ UNCHANGED <<parm, data>>

Worked(c) ==
  \/ UNCHANGED <<parm, present, data>>
  \/ InField(c.dst) \/ IntoField(c.src, c.dst) \/ Dropped(c.dst)

Stops ==
  /\ pc' = "punt" /\ next' = next /\ UNCHANGED <<parm, present, data>>
  /\ modified' = TRUE \/ modified' = modified

Changes(c) == Stops \/ (pc' = pc /\ next' = next + 1 /\ modified' = TRUE /\ Worked(c))

Rests == pc' = pc /\ next' = next + 1 /\ UNCHANGED <<parm, present, data, modified>>

Performed(c) ==
  /\ pc = "perform" /\ next <= Len(cmds) /\ c = cmds[next]
  /\ UNCHANGED <<session, bnd, ray, written>>

LEMMA ChangeWorks ==
  ASSUME Shape, NEW c, \E new : Change(c.dst, new)
  PROVE  Changes(c)
<1>0. PICK n, new : n = c.dst /\ Change(n, new)
  OBVIOUS
<1>1. CASE Has(n)
  <2>1. PICK k : k = Field(n)
    OBVIOUS
  <2>2. k \in Slots
    BY <1>1, <2>1, FieldFound
  <2>3. /\ data' = [data EXCEPT ![k] = Over(data[k], new)]
        /\ parm' = parm /\ present' = present
        /\ pc' = pc /\ next' = next + 1 /\ modified' = TRUE
    BY <1>0, <1>1, <2>1 DEF Change, GoOn
  <2>4. OnlySlot(k)
    BY <2>2, <2>3 DEF OnlySlot, Shape
  <2>5. IsHeader(parm'[k])
    BY <2>2, <2>3 DEF Shape
  <2>6. QED
    BY <1>0, <1>1, <2>1, <2>3, <2>4, <2>5 DEF InField, Changes, Worked
<1>2. CASE ~Has(n)
  BY <1>0, <1>2 DEF Change, Punt, GivesUp, Stops, Changes
<1>3. QED
  BY <1>1, <1>2

LEMMA PutWorks ==
  ASSUME Shape, NEW c, \E new : Put(c.src, c.dst, new)
  PROVE  Changes(c)
<1>0. PICK src, dst, new : src = c.src /\ dst = c.dst /\ Put(src, dst, new)
  OBVIOUS
<1>1. CASE Has(src)
  <2>1. PICK k, h : k = Destination(dst) /\ h = Header(src, dst)
    OBVIOUS
  <2>2. /\ data' = [data EXCEPT ![k] = Over(data[k], new)]
        /\ parm' = [parm EXCEPT ![k] = h] /\ present' = present \cup {k}
        /\ pc' = pc /\ next' = next + 1 /\ modified' = TRUE
    BY <1>0, <1>1, <2>1 DEF Put, GoOn
  <2>3. OnlySlot(k)
    BY <2>2 DEF OnlySlot, Shape
  <2>4. k \in Slots => parm'[k] = h
    BY <2>2 DEF Shape
  <2>5. QED
    BY <1>0, <1>1, <2>1, <2>2, <2>3, <2>4 DEF IntoField, Changes, Worked
<1>2. CASE ~Has(src)
  BY <1>0, <1>2 DEF Put, Punt, GivesUp, Stops, Changes
<1>3. QED
  BY <1>1, <1>2

LEMMA FlagWorks ==
  ASSUME NEW c, \E new : Flag(c.src, new)
  PROVE  Changes(c)
<1>1. PICK n, new : Flag(n, new)
  OBVIOUS
<1>2. QED
  BY <1>1 DEF Flag, Punt, GivesUp, Stops, GoOn, Changes, Worked

LEMMA PuntWorks == ASSUME NEW c, Punt \/ PuntUnmarked PROVE Changes(c)
BY DEF Punt, PuntUnmarked, GivesUp, Stops, Changes

(* A command is performed by its own action only; the ones that may rest   *)
(* have their own.                                                         *)
LEMMA PerformsOne ==
  ASSUME NEW c, NEW ops, Performs(c, ops)
  PROVE  Performed(c) /\ c.op \in ops
BY DEF Performs, Performed

Busy(c) == c.op \notin {"clear-bad-flags", "complement-bad-flags", "ignore-field",
                        "unconditional-delete"}

LEMMA BusyNotIdle == ASSUME NEW c, Busy(c) PROVE ~Idle(c)
BY DEF Busy, Idle

(* The commands on a field in place.                                       *)
LEMMA InPlaceCommands ==
  ASSUME Shape, NEW c,
         \/ AbsoluteValue(c) \/ AssignValue(c) \/ AssertBadFlags(c) \/ FlaggedAdd(c)
         \/ Funfold(c) \/ ThresholdField(c) \/ RingZap(c)
  PROVE  Performed(c) /\ ~Idle(c) /\ Changes(c)
<1>1. CASE AbsoluteValue(c)
  <2>1. Performed(c) /\ ~Idle(c)
    BY <1>1, PerformsOne, BusyNotIdle DEF AbsoluteValue, Busy
  <2>2. Changes(c)
    BY <1>1, ChangeWorks DEF AbsoluteValue
  <2>3. QED
    BY <2>1, <2>2
<1>2. CASE AssignValue(c)
  <2>1. Performed(c) /\ ~Idle(c)
    BY <1>2, PerformsOne, BusyNotIdle DEF AssignValue, Busy
  <2>2. Changes(c)
    BY <1>2, ChangeWorks, PuntWorks DEF AssignValue
  <2>3. QED
    BY <2>1, <2>2
<1>3. CASE AssertBadFlags(c)
  <2>1. Performed(c) /\ ~Idle(c)
    BY <1>3, PerformsOne, BusyNotIdle DEF AssertBadFlags, Busy
  <2>2. Changes(c)
    BY <1>3, ChangeWorks DEF AssertBadFlags
  <2>3. QED
    BY <2>1, <2>2
<1>4. CASE FlaggedAdd(c)
  <2>1. Performed(c) /\ ~Idle(c)
    BY <1>4, PerformsOne, BusyNotIdle DEF FlaggedAdd, Busy
  <2>2. Changes(c)
    BY <1>4, ChangeWorks DEF FlaggedAdd
  <2>3. QED
    BY <2>1, <2>2
<1>5. CASE Funfold(c)
  <2>1. Performed(c) /\ ~Idle(c)
    BY <1>5, PerformsOne, BusyNotIdle DEF Funfold, Busy
  <2>2. Changes(c)
    BY <1>5, ChangeWorks DEF Funfold
  <2>3. QED
    BY <2>1, <2>2
<1>6. CASE ThresholdField(c)
  <2>1. Performed(c) /\ ~Idle(c)
    BY <1>6, PerformsOne, BusyNotIdle DEF ThresholdField, Busy
  <2>2. Changes(c)
    BY <1>6, ChangeWorks, PuntWorks DEF ThresholdField
  <2>3. QED
    BY <2>1, <2>2
<1>7. CASE RingZap(c)
  <2>1. Performed(c) /\ ~Idle(c)
    BY <1>7, PerformsOne, BusyNotIdle DEF RingZap, Busy
  <2>2. Changes(c)
    BY <1>7, ChangeWorks DEF RingZap
  <2>3. QED
    BY <2>1, <2>2
<1>8. QED
  BY <1>1, <1>2, <1>3, <1>4, <1>5, <1>6, <1>7

(* The commands from one field into another.                               *)
LEMMA IntoCommands ==
  ASSUME Shape, NEW c,
         AddConst(c) \/ AddFields(c) \/ MultConst(c) \/ CpyField(c) \/ RadialShear(c)
  PROVE  Performed(c) /\ ~Idle(c) /\ Changes(c)
<1>1. CASE AddConst(c)
  <2>1. Performed(c) /\ ~Idle(c)
    BY <1>1, PerformsOne, BusyNotIdle DEF AddConst, Busy
  <2>2. Changes(c)
    BY <1>1, PutWorks, PuntWorks DEF AddConst
  <2>3. QED
    BY <2>1, <2>2
<1>2. CASE AddFields(c)
  <2>1. Performed(c) /\ ~Idle(c)
    BY <1>2, PerformsOne, BusyNotIdle DEF AddFields, Busy
  <2>2. Changes(c)
    BY <1>2, PutWorks, PuntWorks DEF AddFields
  <2>3. QED
    BY <2>1, <2>2
<1>3. CASE MultConst(c)
  <2>1. Performed(c) /\ ~Idle(c)
    BY <1>3, PerformsOne, BusyNotIdle DEF MultConst, Busy
  <2>2. Changes(c)
    BY <1>3, PutWorks DEF MultConst
  <2>3. QED
    BY <2>1, <2>2
<1>4. CASE CpyField(c)
  <2>1. Performed(c) /\ ~Idle(c)
    BY <1>4, PerformsOne, BusyNotIdle DEF CpyField, Busy
  <2>2. Changes(c)
    BY <1>4, PutWorks DEF CpyField
  <2>3. QED
    BY <2>1, <2>2
<1>5. CASE RadialShear(c)
  <2>1. Performed(c) /\ ~Idle(c)
    BY <1>5, PerformsOne, BusyNotIdle DEF RadialShear, Busy
  <2>2. Changes(c)
    BY <1>5, PutWorks DEF RadialShear
  <2>3. QED
    BY <2>1, <2>2
<1>6. QED
  BY <1>1, <1>2, <1>3, <1>4, <1>5

(* The commands on the flags, and rewrite.                                 *)
LEMMA FlagCommands ==
  ASSUME NEW c,
         BadFlagsLogic(c) \/ SetBadFlags(c) \/ CopyBadFlags(c) \/ Rewrite(c)
  PROVE  Performed(c) /\ ~Idle(c) /\ Changes(c)
<1>1. CASE BadFlagsLogic(c)
  <2>1. Performed(c) /\ ~Idle(c)
    BY <1>1, PerformsOne, BusyNotIdle DEF BadFlagsLogic, Busy
  <2>2. Changes(c)
    BY <1>1, FlagWorks DEF BadFlagsLogic
  <2>3. QED
    BY <2>1, <2>2
<1>2. CASE SetBadFlags(c)
  <2>1. Performed(c) /\ ~Idle(c)
    BY <1>2, PerformsOne, BusyNotIdle DEF SetBadFlags, Busy
  <2>2. Changes(c)
    BY <1>2, FlagWorks DEF SetBadFlags
  <2>3. QED
    BY <2>1, <2>2
<1>3. CASE CopyBadFlags(c)
  <2>1. Performed(c) /\ ~Idle(c)
    BY <1>3, PerformsOne, BusyNotIdle DEF CopyBadFlags, Busy
  <2>2. Changes(c)
    BY <1>3, FlagWorks DEF CopyBadFlags
  <2>3. QED
    BY <2>1, <2>2
<1>4. CASE Rewrite(c)
  BY <1>4, PerformsOne, BusyNotIdle DEF Rewrite, GoOn, Busy, Changes, Worked
<1>5. QED
  BY <1>1, <1>2, <1>3, <1>4

LEMMA RescaleWorks ==
  ASSUME Shape, NEW c, RescaleField(c)
  PROVE  Performed(c) /\ ~Idle(c) /\ Changes(c)
<1>1. Performed(c) /\ ~Idle(c)
  BY PerformsOne, BusyNotIdle DEF RescaleField, Busy
<1>2. CASE Has(c.dst)
  <2>1. PICK k : k = Field(c.dst)
    OBVIOUS
  <2>2. k \in Slots
    BY <1>2, <2>1, FieldFound
  <2>3. /\ \E new : data' = [data EXCEPT ![k] = new]
        /\ parm' = [parm EXCEPT ![k].scale = c.k, ![k].bias = c.k2] \/ parm' = parm
        /\ present' = present /\ pc' = pc /\ next' = next + 1 /\ modified' = TRUE
    BY <1>2, <2>1 DEF RescaleField, GoOn
  <2>4. IsHeader(parm[k])
    BY <2>2 DEF Shape
  <2>5. IsHeader(parm'[k]) /\ parm'[k].name = parm[k].name
    BY <2>2, <2>3, <2>4 DEF IsHeader, Shape
  <2>6. OnlySlot(k)
    BY <2>2, <2>3 DEF OnlySlot, Shape
  <2>7. QED
    BY <1>1, <1>2, <2>1, <2>3, <2>5, <2>6 DEF InField, Changes, Worked
<1>3. CASE ~Has(c.dst)
  BY <1>1, <1>3, PuntWorks DEF RescaleField, Changes
<1>4. QED
  BY <1>2, <1>3

(* The commands that may rest.                                             *)
LEMMA RestingCommands ==
  ASSUME Shape, NEW c, ClearBadFlags(c) \/ RemoveField(c) \/ HardZap(c)
  PROVE  Performed(c) /\ IF Idle(c) THEN Rests ELSE Changes(c)
<1>1. CASE ClearBadFlags(c)
  BY <1>1, PerformsOne DEF ClearBadFlags, Idle, Rests
<1>2. CASE RemoveField(c)
  <2>1. Performed(c) /\ c.op = "ignore-field"
    BY <1>2, PerformsOne DEF RemoveField
  <2>2. Idle(c) <=> ~Has(c.dst)
    BY <2>1 DEF Idle
  <2>3. CASE Has(c.dst)
    BY <1>2, <2>1, <2>2, <2>3 DEF RemoveField, Changes, Worked, Dropped
  <2>4. CASE ~Has(c.dst)
    <3>1. modified' = modified
      BY <1>2, <2>4 DEF RemoveField, Shape
    <3>2. QED
      BY <1>2, <2>1, <2>2, <2>4, <3>1 DEF RemoveField, Rests
  <2>5. QED
    BY <2>3, <2>4
<1>3. CASE HardZap(c)
  <2>1. Performed(c) /\ c.op = "unconditional-delete"
    BY <1>3, PerformsOne DEF HardZap
  <2>2. Idle(c) <=> ~drawn
    BY <2>1 DEF Idle
  <2>3. CASE drawn
    BY <1>3, <2>1, <2>2, <2>3, ChangeWorks DEF HardZap, Changes, Worked
  <2>4. CASE ~drawn
    BY <1>3, <2>1, <2>2, <2>4 DEF HardZap, Rests
  <2>5. QED
    BY <2>3, <2>4
<1>4. QED
  BY <1>1, <1>2, <1>3

LEMMA CommandDoes ==
  ASSUME Shape, NEW c, Command(c)
  PROVE  Performed(c) /\ IF Idle(c) THEN Rests ELSE Changes(c)
BY InPlaceCommands, IntoCommands, FlagCommands, RescaleWorks, RestingCommands DEF Command

----------------------------------------------------------------------------
(* A command keeps the slots in order.                                     *)

LEMMA ListFacts ==
  ASSUME Shape
  PROVE  DOMAIN cmds = 1 .. Len(cmds) /\ Len(cmds) \in Nat
BY RayEditAssumption, LenProperties DEF Shape

LEMMA DestinationListed ==
  ASSUME Shape, Progress, NEW c, Performed(c)
  PROVE  c.dst \in ListNames(cmds) /\ next \in DOMAIN cmds
<1>1. next \in DOMAIN cmds
  BY ListFacts DEF Performed, Progress
<1>2. QED
  BY <1>1 DEF Performed, ListNames

LEMMA HeaderIs ==
  ASSUME Shape, NEW src, Has(src), NEW dst, Destination(dst) \in Slots
  PROVE  /\ IsHeader(Header(src, dst))
         /\ Destination(dst) \notin present => Header(src, dst).name = dst
<1>1. PICK p : p = Parm(src)
  OBVIOUS
<1>2. IsHeader(p)
  BY <1>1, FieldFound DEF Parm, Shape
<1>3. PICK q : q = [p EXCEPT !.name = dst]
  OBVIOUS
<1>4. q = [name |-> dst, scale |-> p.scale, bias |-> p.bias]
  BY <1>2, <1>3 DEF IsHeader
<1>5. IsHeader(q) /\ q.name = dst
  BY <1>4 DEF IsHeader
<1>6. CASE Destination(dst) \in present
  BY <1>6 DEF Header, Shape
<1>7. CASE Destination(dst) \notin present
  BY <1>1, <1>3, <1>5, <1>7 DEF Header
<1>8. QED
  BY <1>6, <1>7

(* A command into a field either finds the field, with its header, or      *)
(* takes a free slot for it.                                               *)
Found(d)      == d \in present /\ UNCHANGED <<parm, present>>
Taken(d, n)   == /\ d \notin present /\ ~Has(n) /\ present' = present \cup {d}
                 /\ parm' = [parm EXCEPT ![d] = parm'[d]]
                 /\ IsHeader(parm'[d]) /\ parm'[d].name = n

LEMMA IntoFieldFinds ==
  ASSUME Shape, SlotsNamed, SlotsSuffice, NEW c, c.dst \in ListNames(cmds),
         IntoField(c.src, c.dst), NEW d, d = Destination(c.dst)
  PROVE  d \in Slots /\ (Found(d) \/ Taken(d, c.dst))
<1>1. PICK n, src : n = c.dst /\ src = c.src
  OBVIOUS
<1>2. /\ d \in Slots /\ (d \notin present => ~Has(n))
      /\ d \in present => parm[d].name = n \/ <<n, parm[d].name>> \in Prefixes
  BY <1>1, DestinationFound
<1>3. /\ parm' = [parm EXCEPT ![d] = parm'[d]] /\ present' = present \cup {d}
      /\ parm'[d] = Header(src, n) /\ Has(src)
  BY <1>1, <1>2 DEF IntoField, OnlySlot
<1>4. CASE d \in present
  <2>1. parm'[d] = parm[d]
    BY <1>1, <1>3, <1>4 DEF Header
  <2>2. parm' = parm /\ present' = present
    BY <1>3, <1>4, <2>1 DEF Shape
  <2>3. QED
    BY <1>2, <1>4, <2>2 DEF Found
<1>5. CASE d \notin present
  <2>1. IsHeader(parm'[d]) /\ parm'[d].name = n
    BY <1>1, <1>2, <1>3, <1>5, HeaderIs
  <2>2. QED
    BY <1>1, <1>2, <1>3, <1>5, <2>1 DEF Taken
<1>6. QED
  BY <1>4, <1>5

SlotsShape ==
  /\ parm = [i \in Slots |-> parm[i]] /\ data = [i \in Slots |-> data[i]]
  /\ \A i \in Slots : IsHeader(parm[i])
  /\ present \subseteq Slots

LEMMA WorkKeepsShape ==
  ASSUME Shape, SlotsNamed, SlotsSuffice, NEW c, c.dst \in ListNames(cmds), Worked(c)
  PROVE  SlotsShape'
<1>1. SlotsShape
  BY DEF Shape, SlotsShape
<1>2. CASE UNCHANGED <<parm, present, data>>
  BY <1>1, <1>2 DEF SlotsShape
<1>3. CASE InField(c.dst)
  <2>1. PICK k : k = Field(c.dst)
    OBVIOUS
  <2>2. /\ parm' = [parm EXCEPT ![k] = parm'[k]] /\ data' = [data EXCEPT ![k] = data'[k]]
        /\ present' = present /\ k \in Slots /\ IsHeader(parm'[k])
    BY <1>3, <2>1, FieldFound DEF InField, OnlySlot
  <2>3. \A i \in Slots : i # k => parm'[i] = parm[i]
    BY <1>1, <2>2 DEF SlotsShape
  <2>4. QED
    BY <1>1, <2>2, <2>3 DEF SlotsShape
<1>4. CASE IntoField(c.src, c.dst)
  <2>1. PICK d : d = Destination(c.dst)
    OBVIOUS
  <2>2. d \in Slots /\ (Found(d) \/ Taken(d, c.dst))
    BY <1>4, <2>1, IntoFieldFinds
  <2>3. data' = [i \in Slots |-> data'[i]]
    BY <1>1, <1>4, <2>1 DEF IntoField, OnlySlot, SlotsShape
  <2>4. CASE Found(d)
    BY <1>1, <2>3, <2>4 DEF Found, SlotsShape
  <2>5. CASE Taken(d, c.dst)
    <3>1. \A i \in Slots : i # d => parm'[i] = parm[i]
      BY <1>1, <2>5 DEF Taken, SlotsShape
    <3>2. QED
      BY <1>1, <2>2, <2>3, <2>5, <3>1 DEF Taken, SlotsShape
  <2>6. QED
    BY <2>2, <2>4, <2>5
<1>5. CASE Dropped(c.dst)
  BY <1>1, <1>5 DEF Dropped, SlotsShape
<1>6. QED
  BY <1>2, <1>3, <1>4, <1>5 DEF Worked

LEMMA WorkKeepsNames ==
  ASSUME Shape, SlotsNamed, SlotsSuffice, NEW c, c.dst \in ListNames(cmds), Worked(c),
         cmds' = cmds
  PROVE  SlotsNamed'
<1>1. CASE UNCHANGED <<parm, present, data>>
  BY <1>1 DEF SlotsNamed
<1>2. CASE InField(c.dst)
  <2>1. PICK k : k = Field(c.dst)
    OBVIOUS
  <2>2. /\ parm' = [parm EXCEPT ![k] = parm'[k]] /\ present' = present
        /\ k \in Slots /\ parm'[k].name = parm[k].name
    BY <1>2, <2>1, FieldFound DEF InField, OnlySlot
  <2>3. \A i \in present : parm'[i].name = parm[i].name
    BY <2>2 DEF Shape
  <2>4. QED
    BY <2>2, <2>3 DEF SlotsNamed
<1>3. CASE IntoField(c.src, c.dst)
  <2>1. PICK d, n : d = Destination(c.dst) /\ n = c.dst
    OBVIOUS
  <2>2. d \in Slots /\ (Found(d) \/ Taken(d, n))
    BY <1>3, <2>1, IntoFieldFinds
  <2>3. CASE Found(d)
    BY <2>3 DEF Found, SlotsNamed
  <2>4. CASE Taken(d, n)
    <3>1. \A i \in present : parm'[i] = parm[i] /\ parm[i].name # n
      BY <2>4 DEF Taken, Shape, Has
    <3>2. QED
      BY <2>1, <2>4, <3>1 DEF Taken, SlotsNamed
  <2>5. QED
    BY <2>2, <2>3, <2>4
<1>4. CASE Dropped(c.dst)
  BY <1>4 DEF Dropped, SlotsNamed
<1>5. QED
  BY <1>1, <1>2, <1>3, <1>4 DEF Worked

(* It works on no field that the list spares.                              *)
LEMMA SparedStays ==
  ASSUME Shape, SlotsNamed, SlotsSuffice, NamesClear,
         NEW c, c.dst \in ListNames(cmds), Worked(c),
         NEW i \in FileSlots, i \in present, parm[i] = FileFields[i],
         Spared(FileFields[i].name)
  PROVE  i \in present' /\ parm'[i] = parm[i] /\ data'[i] = data[i]
<1>1. PICK n, s : n = c.dst /\ s = FileFields[i].name
  OBVIOUS
<1>2. /\ n # s /\ <<n, s>> \notin Prefixes /\ parm[i].name = s /\ i \in Slots
  BY <1>1, FileSlotsAre DEF Spared, ListNames, NamesClear, FileNames, Shape
<1>3. CASE UNCHANGED <<parm, present, data>>
  BY <1>3
<1>4. CASE InField(n)
  <2>1. PICK k : k = Field(n)
    OBVIOUS
  <2>2. k # i
    BY <1>2, <1>4, <2>1, FieldFound DEF InField
  <2>3. /\ parm' = [parm EXCEPT ![k] = parm'[k]] /\ data' = [data EXCEPT ![k] = data'[k]]
        /\ present' = present
    BY <1>4, <2>1 DEF InField, OnlySlot
  <2>4. QED
    BY <1>2, <2>2, <2>3 DEF Shape
<1>5. CASE IntoField(c.src, n)
  <2>1. PICK d : d = Destination(n)
    OBVIOUS
  <2>2. d # i
    <3>1. d \in present => parm[d].name = n \/ <<n, parm[d].name>> \in Prefixes
      BY <1>1, <2>1, DestinationFound
    <3>2. QED
      BY <1>2, <3>1
  <2>3. /\ parm' = [parm EXCEPT ![d] = parm'[d]] /\ data' = [data EXCEPT ![d] = data'[d]]
        /\ present' = present \cup {d}
    BY <1>5, <2>1 DEF IntoField, OnlySlot
  <2>4. QED
    BY <1>2, <2>2, <2>3 DEF Shape
<1>6. CASE Dropped(n)
  BY <1>2, <1>6, FieldFound DEF Dropped
<1>7. QED
  BY <1>1, <1>3, <1>4, <1>5, <1>6 DEF Worked

----------------------------------------------------------------------------
(* A command preserves the invariant.                                      *)

LEMMA CommandKeepsShape ==
  ASSUME RayInv, SlotsSuffice, NEW c, Command(c)
  PROVE  Shape' /\ SlotsNamed' /\ Progress'
<1>0. Shape /\ SlotsNamed /\ Progress
  BY DEF RayInv
<1>1. Performed(c) /\ IF Idle(c) THEN Rests ELSE Changes(c)
  BY <1>0, CommandDoes
<1>2. c.dst \in ListNames(cmds) /\ next \in DOMAIN cmds
  BY <1>0, <1>1, DestinationListed
<1>3. UNCHANGED <<file, drawn, cmds, bnd, ray, written>>
  BY <1>1 DEF Performed, session
<1>4. SlotsShape' /\ SlotsNamed'
  <2>1. CASE UNCHANGED <<parm, present, data>>
    BY <1>0, <1>3, <2>1 DEF Shape, SlotsShape, SlotsNamed
  <2>2. CASE Worked(c)
    BY <1>0, <1>2, <1>3, <2>2, WorkKeepsShape, WorkKeepsNames
  <2>3. QED
    BY <1>1, <2>1, <2>2 DEF Rests, Changes, Stops
<1>5. Shape'
  <2>1. modified' \in BOOLEAN
    BY <1>0, <1>1 DEF Rests, Changes, Stops, Shape
  <2>2. (\E S : written \in Seq(S))' /\ file' \in [1 .. NRays -> Rays] /\ cmds' \in Lists
    BY <1>0, <1>3 DEF Shape
  <2>3. QED
    BY <1>4, <2>1, <2>2 DEF SlotsShape, Shape
<1>6. Progress'
  <2>1. pc = "perform" /\ next \in 1 .. Len(cmds) /\ Len(cmds) \in Nat
    BY <1>0, <1>1, <1>2, ListFacts DEF Performed
  <2>2. \/ pc' = "perform" /\ next' = next + 1
        \/ pc' = "punt" /\ next' = next
    BY <1>1, <2>1 DEF Rests, Changes, Stops
  <2>3. QED
    BY <1>0, <1>3, <2>1, <2>2 DEF Progress
<1>7. QED
  BY <1>4, <1>5, <1>6

LEMMA CommandKeepsSpared ==
  ASSUME RayInv, SlotsSuffice, NamesClear, NEW c, Command(c)
  PROVE  InPlace'
<1>0. Shape /\ SlotsNamed /\ Progress /\ InPlace
  BY DEF RayInv
<1>1. Performed(c) /\ IF Idle(c) THEN Rests ELSE Changes(c)
  BY <1>0, CommandDoes
<1>2. c.dst \in ListNames(cmds)
  BY <1>0, <1>1, DestinationListed
<1>3. UNCHANGED <<file, cmds, ray>> /\ pc = "perform"
  BY <1>1 DEF Performed, session
<1>4. SUFFICES ASSUME NEW i \in FileSlots, Spared(FileFields[i].name)
               PROVE  /\ i \in present' /\ parm'[i] = FileFields[i]
                      /\ data'[i] = AsRead(ray, i)
  BY <1>3 DEF InPlace, Spared, AsRead
<1>5. i \in present /\ parm[i] = FileFields[i] /\ data[i] = AsRead(ray, i)
  BY <1>0, <1>3, <1>4 DEF InPlace
<1>6. CASE UNCHANGED <<parm, present, data>>
  BY <1>5, <1>6
<1>7. CASE Worked(c)
  BY <1>0, <1>2, <1>4, <1>5, <1>7, SparedStays
<1>8. QED
  BY <1>1, <1>6, <1>7 DEF Rests, Changes, Stops

(* The first command that marks the sweep does so on its first ray: on a   *)
(* later one it would have marked it on the first.                         *)
LEMMA StillIdle ==
  ASSUME NothingYet, UNCHANGED <<drawn, cmds, parm, present, written>>,
         NEW k, \A j \in DOMAIN cmds : Passed(j)' => Passed(j) \/ j = k,
         k \in DOMAIN cmds => Idle(cmds[k])
  PROVE  NothingYet'
<1>1. \A j \in DOMAIN cmds : Passed(j)' => Idle(cmds[j])
  BY DEF NothingYet, AllIdle
<1>2. AllIdle'
  BY <1>1 DEF AllIdle, Idle, Has
<1>3. QED
  BY <1>2 DEF NothingYet

LEMMA CommandKeepsAligned ==
  ASSUME RayInv, NEW c, Command(c)
  PROVE  Aligned' /\ WrittenAsRead'
<1>0. Shape /\ SlotsNamed /\ Progress /\ Aligned /\ WrittenAsRead
  BY DEF RayInv
<1>1. Performed(c) /\ IF Idle(c) THEN Rests ELSE Changes(c)
  BY <1>0, CommandDoes
<1>2. next \in DOMAIN cmds
  BY <1>0, <1>1, DestinationListed
<1>3. UNCHANGED <<file, drawn, cmds, ray, written>> /\ pc = "perform" /\ c = cmds[next]
  BY <1>1 DEF Performed, session
<1>4. WrittenAsRead'
  BY <1>0, <1>3 DEF WrittenAsRead, Spared, AsRead
<1> SUFFICES Aligned'
  BY <1>4
<1>5. CASE Idle(c)
  <2>1. pc' = pc /\ next' = next + 1 /\ UNCHANGED <<parm, present, modified>>
    BY <1>1, <1>5 DEF Rests
  <2>2. CASE modified
    BY <1>0, <1>3, <2>1, <2>2 DEF Aligned, WrittenSoFar
  <2>3. CASE ~modified
    <3>1. NothingYet
      BY <1>0, <1>3, <2>3 DEF Aligned
    <3>2. ASSUME NEW j \in DOMAIN cmds, Passed(j)'
          PROVE  Passed(j) \/ j = next
      BY <1>0, <1>2, <1>3, <2>1, <3>2, ListFacts DEF Passed
    <3>3. NothingYet'
      BY <1>3, <1>5, <2>1, <3>1, <3>2, StillIdle
    <3>4. QED
      BY <2>1, <2>3, <3>3 DEF Aligned
  <2>4. QED
    BY <2>2, <2>3
<1>6. CASE ~Idle(c)
  <2>1. \/ pc' = "punt"
        \/ pc' = pc /\ modified' = TRUE
    BY <1>1, <1>6 DEF Changes, Stops
  <2>2. CASE modified
    BY <1>0, <1>3, <2>1, <2>2 DEF Aligned, WrittenSoFar
  <2>3. CASE ~modified
    <3>1. NothingYet
      BY <1>0, <1>3, <2>3 DEF Aligned
    <3>2. ~Passed(next) /\ Len(written) = 0
      BY <1>2, <1>3, <1>6, <3>1 DEF NothingYet, AllIdle
    <3>3. ray = 1
      <4>1. ray \in Nat /\ ray >= 1
        BY <1>0, <1>3, RayEditAssumption DEF Progress
      <4>2. QED
        BY <3>2, <4>1 DEF Passed
    <3>4. pc' = "punt" \/ (modified' = TRUE /\ WrittenSoFar')
      BY <1>3, <2>1, <3>2, <3>3 DEF WrittenSoFar
    <3>5. QED
      BY <3>4 DEF Aligned
  <2>4. QED
    BY <2>2, <2>3
<1>7. QED
  BY <1>5, <1>6

LEMMA CommandStep ==
  ASSUME RayInv, SlotsSuffice, NamesClear, NEW c, Command(c)
  PROVE  RayInv'
BY CommandKeepsShape, CommandKeepsSpared, CommandKeepsAligned DEF RayInv

----------------------------------------------------------------------------
(* A ray is read, and written.                                             *)

LEMMA ReadStep ==
  ASSUME RayInv, ReadRay
  PROVE  RayInv'
<1>0. Shape /\ SlotsNamed /\ Progress /\ InPlace /\ Aligned /\ WrittenAsRead
  BY DEF RayInv
<1>1. /\ pc = "read" /\ ray' = ray + 1 /\ pc' = "perform" /\ next' = 1
      /\ UNCHANGED <<file, drawn, cmds, parm, present, old, flag, modified, written>>
  BY DEF ReadRay, session
<1>2. data' = [i \in Slots |->
                IF i \in FileSlots
                THEN [g \in Gates |-> Quantized(file[ray + 1][FileFields[i].name][g], parm[i])]
                ELSE data[i]]
  BY <1>1 DEF ReadRay
<1>3. Shape'
  <2>1. data' = [i \in Slots |-> data'[i]]
    BY <1>2
  <2>2. QED
    BY <1>0, <1>1, <2>1 DEF Shape
<1>4. SlotsNamed'
  BY <1>0, <1>1 DEF SlotsNamed
<1>5. Progress'
  <2>1. /\ ray \in Nat /\ NRays \in Nat /\ ray < NRays /\ Len(cmds) \in Nat
        /\ Len(written) <= ray /\ Len(written) \in Nat
    BY <1>0, <1>1, ListFacts, RayEditAssumption, LenProperties DEF Progress, Shape
  <2>2. QED
    BY <1>1, <2>1 DEF Progress
<1>6. InPlace'
  <2>1. SUFFICES ASSUME NEW i \in FileSlots, Spared(FileFields[i].name)
                 PROVE  /\ i \in present /\ parm[i] = FileFields[i]
                        /\ data'[i] = AsRead(ray + 1, i)
    BY <1>1 DEF InPlace, Spared, AsRead
  <2>2. i \in present /\ parm[i] = FileFields[i] /\ i \in Slots
    BY <1>0, <2>1, FileSlotsAre DEF InPlace
  <2>3. QED
    BY <1>2, <2>2 DEF AsRead
<1>7. Aligned'
  <2>1. ray \in Nat
    BY <1>0, RayEditAssumption DEF Progress
  <2>2. CASE modified
    BY <1>0, <1>1, <2>1, <2>2 DEF Aligned, WrittenSoFar
  <2>3. CASE ~modified
    <3>1. NothingYet
      BY <1>0, <1>1, <2>3 DEF Aligned
    <3>2. ASSUME NEW j \in DOMAIN cmds, Passed(j)'
          PROVE  Passed(j)
      BY <1>0, <1>1, <2>1, <3>2, ListFacts DEF Passed
    <3>3. \E k : k \notin DOMAIN cmds
      <4>1. 0 \notin DOMAIN cmds
        BY <1>0, ListFacts
      <4>2. QED
        BY <4>1
    <3>4. NothingYet'
      BY <1>1, <3>1, <3>2, <3>3, StillIdle
    <3>5. QED
      BY <1>1, <2>3, <3>4 DEF Aligned
  <2>4. QED
    BY <2>2, <2>3
<1>8. WrittenAsRead'
  BY <1>0, <1>1 DEF WrittenAsRead, Spared, AsRead
<1>9. QED
  BY <1>3, <1>4, <1>5, <1>6, <1>7, <1>8 DEF RayInv

(* What a ray that is written holds of a field: the slot of its name.      *)
SlotOf(n) == Min({i \in WrittenFields : parm[i].name = n})

Dump ==
  [n \in {parm[i].name : i \in WrittenFields} |->
     [g \in Gates |-> Physical(data[SlotOf(n)][g], parm[SlotOf(n)])]]

LEMMA DumpIs ==
  ASSUME DumpRay
  PROVE  /\ pc = "perform" /\ next = Len(cmds) + 1
         /\ written' = IF modified THEN Append(written, Dump) ELSE written
         /\ pc' = IF ray < NRays THEN "read" ELSE "done"
         /\ UNCHANGED <<file, drawn, cmds, parm, present, data, ray, next, modified>>
BY DEF DumpRay, Dump, SlotOf, session

LEMMA DumpHasSpared ==
  ASSUME RayInv, pc = "perform", NEW i \in FileSlots, Spared(FileFields[i].name)
  PROVE  /\ FileFields[i].name \in DOMAIN Dump
         /\ Dump[FileFields[i].name] =
              [g \in Gates |-> Physical(AsRead(ray, i)[g], FileFields[i])]
<1>0. Shape /\ SlotsNamed /\ InPlace
  BY DEF RayInv
<1>1. PICK n : n = FileFields[i].name
  OBVIOUS
<1>2. i \in present /\ parm[i] = FileFields[i] /\ data[i] = AsRead(ray, i)
  BY <1>0 DEF InPlace
<1>3. i \in WrittenFields /\ parm[i].name = n
  BY <1>1, <1>2 DEF WrittenFields
<1>4. {k \in WrittenFields : parm[k].name = n} = {i}
  BY <1>0, <1>3 DEF SlotsNamed, WrittenFields
<1>5. SlotOf(n) = i
  <2>1. {i} \in SUBSET Slots
    BY FileSlotsAre
  <2>2. Min({i}) = i
    BY <2>1, LeastSlot
  <2>3. QED
    BY <1>4, <2>2 DEF SlotOf
<1>6. n \in DOMAIN Dump
  BY <1>3 DEF Dump
<1>7. Dump[n] = [g \in Gates |-> Physical(data[i][g], parm[i])]
  BY <1>3, <1>5 DEF Dump
<1>8. QED
  BY <1>1, <1>2, <1>6, <1>7

LEMMA DumpStep ==
  ASSUME RayInv, DumpRay
  PROVE  RayInv'
<1>0. Shape /\ SlotsNamed /\ Progress /\ InPlace /\ Aligned /\ WrittenAsRead
  BY DEF RayInv
<1>1. /\ pc = "perform" /\ next = Len(cmds) + 1
      /\ written' = IF modified THEN Append(written, Dump) ELSE written
      /\ pc' = IF ray < NRays THEN "read" ELSE "done"
      /\ UNCHANGED <<file, drawn, cmds, parm, present, data, ray, next, modified>>
  BY DumpIs
<1>2. PICK d, S, w : d = Dump /\ written \in Seq(S) /\ w = written'
  BY <1>0 DEF Shape
<1>3. w \in Seq(S \cup {d})
  BY <1>1, <1>2
<1>4. Shape'
  BY <1>0, <1>1, <1>2, <1>3 DEF Shape
<1>5. SlotsNamed' /\ InPlace'
  <2>1. pc' # "perform"
    BY <1>1
  <2>2. QED
    BY <1>0, <1>1, <2>1 DEF SlotsNamed, InPlace, Spared
<1>6. Progress'
  <2>1. Len(written') <= ray
    <3>1. CASE modified
      <4>1. Len(written) = ray - 1 /\ Len(written') = Len(written) + 1 /\ ray \in Nat
        BY <1>0, <1>1, <1>2, <3>1, RayEditAssumption DEF Aligned, WrittenSoFar, Progress
      <4>2. QED
        BY <4>1
    <3>2. CASE ~modified
      BY <1>0, <1>1, <3>2 DEF Progress
    <3>3. QED
      BY <3>1, <3>2
  <2>2. QED
    BY <1>0, <1>1, <2>1 DEF Progress
<1>7. CASE modified
  <2>1. Len(written) = ray - 1 /\ ray \in Nat
    BY <1>0, <1>1, <1>7, RayEditAssumption DEF Aligned, WrittenSoFar, Progress
  <2>2. w = Append(written, d)
    BY <1>1, <1>2, <1>7
  <2>3. /\ Len(w) = ray /\ DOMAIN w = DOMAIN written \cup {ray}
        /\ \A r \in DOMAIN written : w[r] = written[r]
        /\ w[ray] = d
    BY <1>2, <2>1, <2>2
  <2>4. Aligned'
    BY <1>1, <1>2, <1>7, <2>3 DEF Aligned, WrittenSoFar
  <2>5. ASSUME NEW r \in DOMAIN w, NEW i \in FileSlots, Spared(FileFields[i].name)
        PROVE  /\ FileFields[i].name \in DOMAIN w[r]
               /\ w[r][FileFields[i].name] =
                    [g \in Gates |-> Physical(AsRead(r, i)[g], FileFields[i])]
    <3>1. CASE r \in DOMAIN written
      BY <1>0, <2>3, <2>5, <3>1 DEF WrittenAsRead
    <3>2. CASE r = ray
      <4>1. /\ FileFields[i].name \in DOMAIN Dump
            /\ Dump[FileFields[i].name] =
                 [g \in Gates |-> Physical(AsRead(ray, i)[g], FileFields[i])]
        BY <1>1, <2>5, DumpHasSpared
      <4>2. w[r] = Dump
        BY <1>2, <2>3, <3>2
      <4>3. QED
        BY <3>2, <4>1, <4>2
    <3>3. QED
      BY <2>3, <2>5, <3>1, <3>2
  <2>6. WrittenAsRead'
    BY <1>1, <1>2, <2>5 DEF WrittenAsRead, Spared, AsRead
  <2>7. QED
    BY <1>4, <1>5, <1>6, <2>4, <2>6 DEF RayInv
<1>8. CASE ~modified
  <2>1. written' = written /\ UNCHANGED modified
    BY <1>1, <1>8
  <2>2. NothingYet
    BY <1>0, <1>1, <1>8 DEF Aligned
  <2>3. ASSUME NEW j \in DOMAIN cmds, Passed(j)'
        PROVE  Passed(j)
    BY <1>0, <1>1, <2>3, ListFacts DEF Passed
  <2>4. \E k : k \notin DOMAIN cmds
    <3>1. 0 \notin DOMAIN cmds
      BY <1>0, ListFacts
    <3>2. QED
      BY <3>1
  <2>5. Aligned'
    BY <1>1, <1>8, <2>1, <2>2, <2>3, <2>4, StillIdle DEF Aligned
  <2>6. WrittenAsRead'
    BY <1>0, <1>1, <2>1 DEF WrittenAsRead, Spared, AsRead
  <2>7. QED
    BY <1>4, <1>5, <1>6, <2>5, <2>6 DEF RayInv
<1>9. QED
  BY <1>7, <1>8

LEMMA RayInvInit == Init => RayInv
<1> SUFFICES ASSUME Init
             PROVE  RayInv
  OBVIOUS
<1>0. /\ file \in [1 .. NRays -> Rays] /\ cmds \in Lists /\ present = FileSlots
      /\ parm = [i \in Slots |-> IF i \in FileSlots THEN FileFields[i]
                                 ELSE [name |-> "", scale |-> 1, bias |-> 0]]
      /\ data = [i \in Slots |-> [g \in Gates |-> 0]]
      /\ ray = 0 /\ pc = "read" /\ next = 1 /\ modified = FALSE /\ written = << >>
  BY DEF Init
<1>s. ray = 0 /\ pc = "read" /\ next = 1
  BY <1>0
<1>1. \A i \in FileSlots : i \in Slots /\ parm[i] = FileFields[i]
  BY <1>0, FileSlotsAre
<1>2. \A i \in FileSlots : IsHeader(FileFields[i])
  <2>1. \A i \in FileSlots : FileFields[i] \in [name : STRING, scale : Nat \ {0}, bias : Int]
    BY RayEditAssumption, FileSlotsAre, ElementOfSeq
  <2>2. QED
    BY <2>1 DEF IsHeader
<1>3. Shape
  <2>1. \A i \in Slots : IsHeader(parm[i])
    BY <1>0, <1>2 DEF IsHeader
  <2>2. written \in Seq({})
    BY <1>0, EmptySeq
  <2>3. QED
    BY <1>0, <2>1, <2>2, FileSlotsAre DEF Shape
<1>4. SlotsNamed
  BY <1>0, <1>1, RayEditAssumption DEF SlotsNamed, FileNames, FileSlots
<1>5. Progress
  <2>1. NRays \in Nat \ {0} /\ Len(cmds) \in Nat /\ Len(written) = 0
    BY <1>0, <1>3, ListFacts, RayEditAssumption, EmptySeq
  <2>2. QED
    BY <1>s, <2>1 DEF Progress
<1>6. InPlace
  BY <1>0, <1>1 DEF InPlace
<1>7. Aligned
  <2>1. \A j : ~Passed(j)
    BY <1>s DEF Passed
  <2>2. NothingYet
    BY <1>0, <1>1, <2>1 DEF NothingYet, AllIdle
  <2>3. QED
    BY <1>0, <2>2 DEF Aligned
<1>8. WrittenAsRead
  <2>1. written = << >>
    BY <1>0
  <2>2. DOMAIN written = {}
    BY <2>1
  <2>3. QED
    BY <2>2 DEF WrittenAsRead
<1>9. QED
  BY <1>3, <1>4, <1>5, <1>6, <1>7, <1>8 DEF RayInv

LEMMA RayInvStep ==
  ASSUME RayInv, SlotsSuffice, NamesClear, [Next]_vars
  PROVE  RayInv'
<1>1. CASE ReadRay
  BY <1>1, ReadStep
<1>2. CASE DumpRay
  BY <1>2, DumpStep
<1>3. ASSUME NEW i \in DOMAIN cmds, Command(cmds[i])
      PROVE  RayInv'
  BY <1>3, CommandStep
<1>4. CASE UNCHANGED vars
  <2>1. Shape' /\ SlotsNamed' /\ Progress'
    BY <1>4 DEF vars, RayInv, Shape, SlotsNamed, Progress
  <2>2. InPlace' /\ WrittenAsRead'
    BY <1>4 DEF vars, RayInv, InPlace, WrittenAsRead, Spared, AsRead
  <2>3. Aligned'
    BY <1>4 DEF vars, RayInv, Aligned, WrittenSoFar, NothingYet, AllIdle, Passed, Idle, Has
  <2>4. QED
    BY <2>1, <2>2, <2>3 DEF RayInv
<1>5. QED
  BY <1>1, <1>2, <1>3, <1>4 DEF Next

----------------------------------------------------------------------------
(* A value that is read, and then written as it is.                        *)

LEMMA Quotient ==
  ASSUME NEW a \in Int, NEW b \in Nat \ {0}
  PROVE  /\ a \div b \in Int
         /\ b * (a \div b) <= a /\ a < b * (a \div b) + b
         /\ a % b = 0 => a = b * (a \div b)
OBVIOUS

LEMMA Clamped ==
  ASSUME NEW s \in Int
  PROVE  Max({-TOP, Min({TOP, s})}) = IF s > TOP THEN TOP ELSE IF s < -TOP THEN -TOP ELSE s
<1>0. TOP \in Nat \ {0}
  BY RayEditAssumption
<1>1. Min({TOP, s}) = IF s > TOP THEN TOP ELSE s
  BY <1>0 DEF Min
<1>2. PICK m : m = Min({TOP, s})
  OBVIOUS
<1>3. m \in Int
  BY <1>0, <1>1, <1>2
<1>4. Max({-TOP, m}) = IF m < -TOP THEN -TOP ELSE m
  BY <1>0, <1>3 DEF Max
<1>5. QED
  BY <1>0, <1>1, <1>2, <1>4

LEMMA Products ==
  ASSUME NEW x \in Int, NEW y \in Int, NEW u \in Nat \ {0}
  PROVE  /\ x <= y => x * u <= y * u
         /\ x * u < y * u => x < y
         /\ x * u \in Int
OBVIOUS

(* DD_SCALE and DD_UNSCALE: u divisions of the unit, sc counts to it, k    *)
(* divisions to a count, b the bias, t the largest count.                  *)
LEMMA Rounding ==
  ASSUME NEW u \in Nat \ {0}, NEW sc \in Nat \ {0}, NEW k \in Int, u = sc * k,
         NEW b \in Int, NEW t \in Nat \ {0}, NEW v \in Int,
         NEW s \in Int, s = (2 * v * sc + (2 * b + 1) * u) \div (2 * u)
  PROVE  /\ v > (t - b) * k => s >= t
         /\ v < (-t - b) * k => s <= -t
         /\ v <= (t - b) * k => s <= t
         /\ v >= (-t - b) * k => s >= -t
         /\ 2 * (((s - b) * k - v) * sc) <= u /\ -u <= 2 * (((s - b) * k - v) * sc)
<1>1. PICK N : N = 2 * v * sc + (2 * b + 1) * u
  OBVIOUS
<1>2. PICK vs, bu, su, tu : vs = v * sc /\ bu = b * u /\ su = s * u /\ tu = t * u
  OBVIOUS
<1>3. vs \in Int /\ bu \in Int /\ su \in Int /\ tu \in Int /\ N \in Int
  BY <1>1, <1>2, Products
<1>4. N = 2 * vs + 2 * bu + u
  BY <1>1, <1>2
<1>5. 2 * su <= N /\ N < 2 * su + 2 * u
  <2>1. 2 * u \in Nat \ {0}
    OBVIOUS
  <2>2. (2 * u) * s <= N /\ N < (2 * u) * s + 2 * u
    BY <1>1, <1>3, <2>1, Quotient
  <2>3. (2 * u) * s = 2 * su
    BY <1>2
  <2>4. QED
    BY <2>2, <2>3
<1>6. \A x \in Int : ((x - b) * k) * sc = x * u - bu
  BY <1>2
<1>7. ((t - b) * k) * sc = tu - bu /\ ((-t - b) * k) * sc = -tu - bu
  <2>1. -t \in Int /\ (-t) * u = -tu
    BY <1>2
  <2>2. QED
    BY <1>2, <1>6, <2>1
<1>8. (t - b) * k \in Int /\ (-t - b) * k \in Int /\ (s - b) * k \in Int
  OBVIOUS
<1>9. ASSUME NEW x \in Int, x * u < su + u
      PROVE  x <= s
  <2>1. su + u = (s + 1) * u
    BY <1>2
  <2>2. x < s + 1
    BY <1>9, <2>1, Products
  <2>3. QED
    BY <2>2
<1>10. ASSUME NEW x \in Int, su < x * u + u
       PROVE  s <= x
  <2>1. x * u + u = (x + 1) * u
    OBVIOUS
  <2>2. s < x + 1
    BY <1>2, <1>10, <2>1, Products
  <2>3. QED
    BY <2>2
<1>11. -t \in Int /\ (-t) * u = -tu
  BY <1>2
<1>12. ASSUME v >= (t - b) * k
       PROVE  s >= t
  <2>1. tu - bu <= vs
    BY <1>2, <1>7, <1>8, <1>12, Products
  <2>2. tu < su + u
    BY <1>3, <1>4, <1>5, <2>1
  <2>3. QED
    BY <1>2, <1>9, <2>2
<1>13. ASSUME v <= (-t - b) * k
       PROVE  s <= -t
  <2>1. vs <= -tu - bu
    BY <1>2, <1>7, <1>8, <1>13, Products
  <2>2. su < -tu + u
    BY <1>3, <1>4, <1>5, <2>1
  <2>3. QED
    BY <1>10, <1>11, <2>2
<1>14. ASSUME v <= (t - b) * k
       PROVE  s <= t
  <2>1. vs <= tu - bu
    BY <1>2, <1>7, <1>8, <1>14, Products
  <2>2. su < tu + u
    BY <1>3, <1>4, <1>5, <2>1
  <2>3. QED
    BY <1>2, <1>10, <2>2
<1>15. ASSUME v >= (-t - b) * k
       PROVE  s >= -t
  <2>1. -tu - bu <= vs
    BY <1>2, <1>7, <1>8, <1>15, Products
  <2>2. -tu < su + u
    BY <1>3, <1>4, <1>5, <2>1
  <2>3. QED
    BY <1>9, <1>11, <2>2
<1>16. PICK e : e = ((s - b) * k - v) * sc
  OBVIOUS
<1>17. e = su - bu - vs
  <2>1. e = ((s - b) * k) * sc - v * sc
    BY <1>8, <1>16
  <2>2. QED
    BY <1>2, <1>6, <2>1
<1>18. 2 * e <= u /\ -u <= 2 * e
  BY <1>3, <1>4, <1>5, <1>17
<1>19. QED
  BY <1>8, <1>12, <1>13, <1>14, <1>15, <1>16, <1>18

(* What comes of the values of a field that is read and written only.      *)
Kept(p, was, is) ==
  LET limit == Unscaled(TOP, p)
      least == Unscaled(-TOP, p)
  IN  /\ (was = Missing) <=> (is = Missing)
      /\ was # Missing =>
           CASE was > limit -> is = limit
             [] was < least -> is = least
             [] OTHER -> 2 * AbsOf(is - was) * p.scale <= UNIT

LEMMA ReadAndWritten ==
  ASSUME NEW i \in FileSlots, NEW p, p = FileFields[i], NEW v \in Int \cup {Missing}
  PROVE  Kept(p, v, Physical(Quantized(v, p), p))
<1>0. Missing \notin Int /\ TOP \in Nat \ {0} /\ UNIT \in Nat \ {0}
  BY RayEditAssumption
<1>1. p \in [name : STRING, scale : Nat \ {0}, bias : Int] /\ UNIT % p.scale = 0
  BY RayEditAssumption, FileSlotsAre, ElementOfSeq DEF FileSlots
<1>2. PICK sc, b, k, u, t : sc = p.scale /\ b = p.bias /\ k = UNIT \div p.scale
                            /\ u = UNIT /\ t = TOP
  OBVIOUS
<1>3. /\ sc \in Nat \ {0} /\ b \in Int /\ u \in Nat \ {0} /\ t \in Nat \ {0}
      /\ k \in Int /\ u = sc * k
  <2>1. sc \in Nat \ {0} /\ b \in Int /\ u \in Nat \ {0} /\ t \in Nat \ {0}
    BY <1>0, <1>1, <1>2
  <2>2. u % sc = 0 /\ k = u \div sc
    BY <1>1, <1>2
  <2>3. QED
    BY <2>1, <2>2, Quotient
<1>4. \A x \in Int : Unscaled(x, p) = (x - b) * k
  BY <1>2 DEF Unscaled
<1>5. CASE v = Missing
  BY <1>5 DEF Kept, Physical, Quantized
<1>6. CASE v # Missing
  <2>1. v \in Int
    BY <1>6
  <2>2. PICK s : s = (2 * v * sc + (2 * b + 1) * u) \div (2 * u)
    OBVIOUS
  <2>3. s \in Int
    <3>1. 2 * v * sc + (2 * b + 1) * u \in Int /\ 2 * u \in Nat \ {0}
      BY <1>3, <2>1
    <3>2. QED
      BY <2>2, <3>1, Quotient
  <2>4. PICK q : q = Quantized(v, p)
    OBVIOUS
  <2>5. q = IF s > t THEN t ELSE IF s < -t THEN -t ELSE s
    BY <1>2, <1>6, <2>2, <2>3, <2>4, Clamped DEF Quantized
  <2>6. q \in Int /\ q # Bad
    BY <1>2, <1>3, <2>3, <2>5 DEF Bad
  <2>7. PICK is : is = (q - b) * k
    OBVIOUS
  <2>8. Physical(q, p) = is /\ is \in Int
    BY <1>3, <1>4, <2>6, <2>7 DEF Physical
  <2>9. PICK limit, least : limit = (t - b) * k /\ least = (-t - b) * k
    OBVIOUS
  <2>10. /\ v > limit => s >= t
         /\ v < least => s <= -t
         /\ v <= limit => s <= t
         /\ v >= least => s >= -t
         /\ 2 * (((s - b) * k - v) * sc) <= u /\ -u <= 2 * (((s - b) * k - v) * sc)
    BY <1>3, <2>1, <2>2, <2>3, <2>9, Rounding
  <2>11. limit \in Int /\ least \in Int
    BY <1>3, <2>9
  <2>12. /\ v > limit => is = limit
         /\ v < least => is = least
    BY <1>3, <2>1, <2>3, <2>5, <2>7, <2>9, <2>10, <2>11
  <2>13. ASSUME v <= limit, v >= least
         PROVE  2 * AbsOf(is - v) * sc <= u
    <3>1. q = s
      BY <1>3, <2>3, <2>5, <2>10, <2>13
    <3>2. PICK e : e = is - v
      OBVIOUS
    <3>3. e \in Int /\ 2 * (e * sc) <= u /\ -u <= 2 * (e * sc)
      BY <2>1, <2>7, <2>8, <2>10, <3>1, <3>2
    <3>4. AbsOf(e) = IF e < 0 THEN -e ELSE e
      BY <3>3 DEF AbsOf, Sign
    <3>5. e * sc \in Int /\ (-e) * sc = -(e * sc)
      BY <1>3, <3>3
    <3>6. QED
      BY <1>3, <3>2, <3>3, <3>4, <3>5
  <2>14. limit = Unscaled(TOP, p) /\ least = Unscaled(-TOP, p)
    BY <1>2, <1>3, <1>4, <2>9
  <2>15. is # Missing
    BY <1>0, <2>8
  <2>16. QED
    BY <1>2, <1>6, <2>1, <2>4, <2>8, <2>11, <2>12, <2>13, <2>14, <2>15 DEF Kept
<1>7. QED
  BY <1>5, <1>6

LEMMA RayInvShows == RayInv => UneditedSurvive
<1> SUFFICES ASSUME RayInv,
                    NEW r \in DOMAIN written, NEW i \in FileSlots,
                    Spared(FileFields[i].name), NEW g \in Gates
             PROVE  /\ FileFields[i].name \in DOMAIN written[r]
                    /\ Kept(FileFields[i], file[r][FileFields[i].name][g],
                            written[r][FileFields[i].name][g])
  BY DEF UneditedSurvive, Kept
<1>0. Shape /\ Progress /\ WrittenAsRead
  BY DEF RayInv
<1>1. PICK p, was, is : /\ p = FileFields[i] /\ was = file[r][p.name][g]
                        /\ is = written[r][p.name][g]
  OBVIOUS
<1>2. /\ p.name \in DOMAIN written[r]
      /\ is = Physical(Quantized(was, p), p)
  <2>1. PICK w : w = written[r]
    OBVIOUS
  <2>2. p.name \in DOMAIN w /\ w[p.name] = [h \in Gates |-> Physical(AsRead(r, i)[h], p)]
    BY <1>0, <1>1, <2>1 DEF WrittenAsRead
  <2>3. AsRead(r, i)[g] = Quantized(was, p)
    BY <1>1 DEF AsRead
  <2>4. QED
    BY <1>1, <2>1, <2>2, <2>3
<1>3. was \in Int \cup {Missing}
  <2>1. r \in 1 .. NRays
    <3>1. DOMAIN written = 1 .. Len(written) /\ Len(written) \in Nat
      BY <1>0, LenProperties DEF Shape
    <3>2. NRays \in Nat
      BY RayEditAssumption
    <3>3. QED
      BY <1>0, <3>1, <3>2 DEF Progress
  <2>2. file[r] \in Rays
    BY <1>0, <2>1 DEF Shape
  <2>3. file[r][p.name] \in [Gates -> Int \cup {Missing}]
    BY <1>1, <2>2, RayEditAssumption DEF FileSlots
  <2>4. QED
    BY <1>1, <2>3
<1>4. QED
  BY <1>1, <1>2, <1>3, ReadAndWritten

(* UneditedSurvive, of the commands on the rays (se_defrkl.c, se_add_mult.c *)
(* and the others) and of rio_read_ray and rio_write_ray: a field that no   *)
(* command of the list names as its destination is written as it was read.  *)
THEOREM OthersSurvive ==
  ASSUME SlotsSuffice, NamesClear
  PROVE  Spec => []UneditedSurvive
<1>1. RayInv /\ [Next]_vars => RayInv'
  BY RayInvStep
<1>2. QED
  BY <1>1, RayInvInit, RayInvShows, PTL DEF Spec
=============================================================================
