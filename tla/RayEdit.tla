------------------------------ MODULE RayEdit ------------------------------
(***************************************************************************)
(* The editor on the gates: the for-each-ray commands, given to the rays   *)
(* of a sweep in turn.  The gates of a field are scaled 16-bit counts in a *)
(* slot of the dgi; a command may establish a field in a slot the file has *)
(* no field for.  The counts are made from the file's values as a ray is   *)
(* read (rio_read_ray), and made values again as it is written             *)
(* (rio_write_ray).  The mask of bad flags lives on from ray to ray.       *)
(*                                                                         *)
(* Physical values are counted in units of 1/UNIT.  There is an action for *)
(* each C function of the commands.  No altitude clips the rays.           *)
(***************************************************************************)
EXTENDS Integers, Sequences, FiniteSets
LOCAL INSTANCE FiniteSetsExt

CONSTANTS
  NGates,              \* gates of a ray
  NRays,               \* rays of the sweep
  UNIT,                \* divisions of the physical unit
  TOP,                 \* largest count, 32767 in the code
  MaxSlots,            \* MAX_PARMS
  FileFields,          \* sequence of the file's fields: name, scale, bias
  Prefixes,            \* pairs of names of which one begins the other
  Missing,             \* a gate without a value in the file
  Rays,                \* the rays a file may hold, by name and gate
  Masks,               \* boundary masks: the gates inside
  Lists,               \* the command lists given
  first_good_gate, gates_of_shift, gate_diff_interval,
  nyquist_velocity     \* scaled by UNIT

Gates == 0 .. NGates - 1
Slots == 1 .. MaxSlots
Bad   == -TOP - 1
Counts == Bad .. TOP

ASSUME RayEditAssumption ==
  /\ {NGates, NRays, UNIT, TOP, MaxSlots} \subseteq Nat \ {0}
  /\ FileFields \in Seq([name : STRING, scale : Nat \ {0}, bias : Int])
  /\ Len(FileFields) < MaxSlots
  /\ \A i \in DOMAIN FileFields : UNIT % FileFields[i].scale = 0
  /\ \A i, j \in DOMAIN FileFields :
       FileFields[i].name = FileFields[j].name => i = j
  /\ Missing \notin Int
  /\ \A r \in Rays, i \in DOMAIN FileFields :
       r[FileFields[i].name] \in [Gates -> Int \cup {Missing}]
  /\ Lists \subseteq Seq([op : STRING, src : STRING, add : STRING, dst : STRING,
                         k : Int, k2 : Int, where : STRING])
  /\ \A m \in Masks : m \subseteq Gates
  /\ first_good_gate \in 0 .. NGates /\ gate_diff_interval \in 0 .. NGates
  /\ gates_of_shift \in -NGates .. NGates /\ nyquist_velocity \in Nat

FileSlots == DOMAIN FileFields

VARIABLES
  file,      \* the rays of the sweep
  drawn,     \* boundary_exists
  cmds,      \* first_fer_cmd
  parm,      \* the parameter headers, one to a slot
  present,   \* field_present: the slots in use
  data,      \* qdat_ptrs: their gates
  old,       \* old_scale and old_bias, kept by rescale-field
  flag,      \* bad_flag_mask: the gates flagged
  bnd,       \* boundary_mask: the gates inside
  ray,       \* rays read so far
  pc,        \* "read", "perform", or how it ended: "punt", "done"
  next,      \* the number of the next command
  modified,
  written    \* the rays written

vars == <<file, drawn, cmds, parm, present, data, old, flag, bnd, ray, pc,
          next, modified, written>>

session == <<file, drawn, cmds>>

----------------------------------------------------------------------------
(* Counts and values.                                                      *)

TruncDiv(a, b) == IF a < 0 THEN -((-a) \div b) ELSE a \div b

Sign(a) == IF a < 0 THEN -1 ELSE 1
AbsOf(a) == Sign(a) * a

(* An int put into a short.                                                *)
Short(v) == Bad + ((v - Bad) % (2 * TOP + 2))

(* DD_SCALE of num/den units, put into an int: half a count is added, then *)
(* the fraction is cut off.                                                *)
Scaled(num, den, p) ==
  TruncDiv(2 * num * p.scale + (2 * p.bias + 1) * den * UNIT, 2 * den * UNIT)

(* DD_UNSCALE.  The scales divide UNIT.                                    *)
Unscaled(v, p) == (v - p.bias) * (UNIT \div p.scale)

Rescaled(v, from, to) == Short(Scaled(Unscaled(v, from), 1, to))

SameScale(p, q) == p.scale = q.scale /\ p.bias = q.bias

(* The count a value of the file is read as: the nearest one, kept clear   *)
(* of the bad-data value.                                                  *)
Quantized(v, p) ==
  IF v = Missing THEN Bad
  ELSE LET s == (2 * v * p.scale + (2 * p.bias + 1) * UNIT) \div (2 * UNIT)
       IN  Max({-TOP, Min({TOP, s})})

(* The value a count is written as.                                        *)
Physical(v, p) == IF v = Bad THEN Missing ELSE Unscaled(v, p)

----------------------------------------------------------------------------
(* Fields and slots.                                                       *)

Has(n)   == \E i \in present : parm[i].name = n
Field(n) == Min({i \in present : parm[i].name = n})
Parm(n)  == parm[Field(n)]
Data(n)  == data[Field(n)]
GoodIn(n) == {g \in bnd : Data(n)[g] # Bad}

(* The slot of a command's destination: of the first field whose name it   *)
(* begins, or else the first that is free.                                 *)
Destination(n) ==
  LET alike == {i \in present : parm[i].name = n \/ <<n, parm[i].name>> \in Prefixes}
  IN  Min(IF alike # {} THEN alike ELSE Slots \ present)

(* Its header, which a new field takes from the source field.              *)
Header(src, dst) ==
  IF Destination(dst) \in present THEN parm[Destination(dst)]
  ELSE [Parm(src) EXCEPT !.name = dst]

(* The gates of "new" put over those of a ray.                             *)
Over(old_gates, new) ==
  [g \in Gates |-> IF g \in DOMAIN new THEN new[g] ELSE old_gates[g]]

GoOn == next' = next + 1 /\ modified' = TRUE /\ UNCHANGED pc

GivesUp == pc' = "punt" /\ UNCHANGED <<parm, present, data, flag, old, next>>

(* A field is not there.  Most commands have marked the sweep by then; two *)
(* look for the field first.                                               *)
Punt         == GivesUp /\ modified' = TRUE
PuntUnmarked == GivesUp /\ UNCHANGED modified

(* A command on a field in place.                                          *)
Change(n, new) ==
  IF Has(n)
  THEN /\ data' = [data EXCEPT ![Field(n)] = Over(@, new)]
       /\ GoOn /\ UNCHANGED <<parm, present, flag, old>>
  ELSE Punt

(* A command from one field into another.                                  *)
Put(src, dst, new) ==
  IF Has(src)
  THEN /\ parm' = [parm EXCEPT ![Destination(dst)] = Header(src, dst)]
       /\ present' = present \cup {Destination(dst)}
       /\ data' = [data EXCEPT ![Destination(dst)] = Over(@, new)]
       /\ GoOn /\ UNCHANGED <<flag, old>>
  ELSE Punt

(* A command on the mask of bad flags, by a field.                         *)
Flag(n, new) ==
  IF Has(n)
  THEN flag' = new /\ GoOn /\ UNCHANGED <<parm, present, data, old>>
  ELSE Punt

Performs(c, ops) ==
  /\ pc = "perform" /\ next <= Len(cmds) /\ c = cmds[next] /\ c.op \in ops
  /\ UNCHANGED <<session, bnd, ray, written>>

----------------------------------------------------------------------------
(* The commands.  c.k and c.k2 are values in units of 1/UNIT.              *)

AbsoluteValue(c) ==
  /\ Performs(c, {"absolute-value"})
  /\ Change(c.dst, [g \in GoodIn(c.dst) |-> Short(AbsOf(Data(c.dst)[g]))])

AssignValue(c) ==
  /\ Performs(c, {"assign-value", "flagged-assign"})
  /\ IF Has(c.dst)
     THEN Change(c.dst, [g \in IF c.op = "flagged-assign" THEN bnd \cap flag ELSE bnd |->
                           Short(Scaled(c.k, 1, Parm(c.dst)))])
     ELSE PuntUnmarked

AddConst(c) ==
  /\ Performs(c, {"add-value"})
  /\ IF Has(c.src)
     THEN Put(c.src, c.dst,
              [g \in bnd |-> LET s == Data(c.src)[g]
                             IN  IF s = Bad THEN Bad
                                 ELSE Short(s + Scaled(c.k, 1, Parm(c.src)))])
     ELSE PuntUnmarked

(* Mutant of Mixed: a bad gate is taken for a value.                       *)
MixedBadToo(op, a, s, pa, ps, pd) ==
  Short(Scaled(Unscaled(a, pa) + Unscaled(s, ps), 1, pd))

(* One gate of two fields, computed from the counts if all three scales    *)
(* are the same and from the values they stand for otherwise.              *)
Mixed(op, a, s, pa, ps, pd) ==
  LET same == SameScale(pa, ps) /\ SameScale(ps, pd)
      x == IF same THEN a ELSE Unscaled(a, pa)
      y == IF same THEN s ELSE Unscaled(s, ps)
      To(v) == Short(IF same THEN v ELSE Scaled(v, 1, pd))
  IN  CASE a = Bad /\ s = Bad -> Bad
        [] a = Bad /\ s # Bad -> IF op \in {"add-field", "merge-field"} THEN To(y) ELSE Bad
        [] a # Bad /\ s = Bad -> IF op \in {"add-field", "merge-field"} THEN To(x) ELSE Bad
        [] OTHER -> CASE op = "add-field"   -> To(x + y)
                      [] op = "merge-field" -> To(x)
                      [] op = "subtract"    -> To(y - x)
                      [] op = "mult-fields" ->
                           Short(Scaled(Unscaled(a, pa) * Unscaled(s, ps), UNIT, pd))

AddFields(c) ==
  /\ Performs(c, {"add-field", "subtract", "mult-fields", "merge-field"})
  /\ IF Has(c.add)
     THEN Put(c.src, c.dst,
              [g \in bnd |-> Mixed(c.op, Data(c.add)[g], Data(c.src)[g], Parm(c.add),
                                   Parm(c.src), Header(c.src, c.dst))])
     ELSE Punt

(* rain-rate differs from exponentiate by its law.                         *)
Multiplied(op, v, k, from, to) ==
  LET e == k \div UNIT
  IN  CASE op = "exponentiate" ->
             Short(Scaled(Unscaled(v, from) ^ e, UNIT ^ (e - 1), to))
        [] op = "multiply" /\ SameScale(from, to) -> Short(TruncDiv(v * k, UNIT))
        [] OTHER -> Short(Scaled(Unscaled(v, from) * k, UNIT, to))

MultConst(c) ==
  /\ Performs(c, {"multiply", "exponentiate"})
  /\ Put(c.src, c.dst,
         [g \in bnd |-> LET s == Data(c.src)[g]
                        IN  IF s = Bad THEN Bad
                            ELSE Multiplied(c.op, s, c.k, Parm(c.src), Header(c.src, c.dst))])

AssertBadFlags(c) ==
  /\ Performs(c, {"assert-bad-flags"})
  /\ Change(c.dst, [g \in bnd \cap flag |-> Bad])

FlaggedAdd(c) ==
  /\ Performs(c, {"flagged-add", "flagged-multiply"})
  /\ Change(c.dst, [g \in GoodIn(c.dst) \cap flag |->
                      LET v == Data(c.dst)[g]
                      IN  Short(IF c.op = "flagged-add" THEN v + Scaled(c.k, 1, Parm(c.dst))
                                ELSE TruncDiv(v * c.k, UNIT))])

(* Whether a count is below, above or between the constants given.         *)
Meets(c, v, p) ==
  CASE c.where = "below"   -> v < Scaled(c.k, 1, p)
    [] c.where = "above"   -> v > Scaled(c.k, 1, p)
    [] c.where = "between" -> v >= Scaled(c.k, 1, p) /\ v <= Scaled(c.k2, 1, p)

Hits(c) == {g \in GoodIn(c.src) : Meets(c, Data(c.src)[g], Parm(c.src))}

BadFlagsLogic(c) ==
  /\ Performs(c, {"and-bad-flags", "or-bad-flags", "xor-bad-flags"})
  /\ Flag(c.src, CASE c.op = "and-bad-flags" -> flag \ (bnd \ Hits(c))
                   [] c.op = "or-bad-flags"  -> flag \cup Hits(c)
                   [] c.op = "xor-bad-flags" -> (flag \ Hits(c)) \cup (Hits(c) \ flag))

SetBadFlags(c) ==
  /\ Performs(c, {"set-bad-flags"})
  /\ Flag(c.src, Hits(c))

CopyBadFlags(c) ==
  /\ Performs(c, {"copy-bad-flags"})
  /\ Flag(c.src, (flag \ bnd) \cup (bnd \ GoodIn(c.src)))

(* These do not mark the sweep as modified.                                *)
ClearBadFlags(c) ==
  /\ Performs(c, {"clear-bad-flags", "complement-bad-flags"})
  /\ flag' = IF c.op = "clear-bad-flags" THEN {} ELSE Gates \ flag
  /\ next' = next + 1
  /\ UNCHANGED <<parm, present, data, old, pc, modified>>

Rewrite(c) ==
  /\ Performs(c, {"rewrite"})
  /\ GoOn /\ UNCHANGED <<parm, present, data, flag, old>>

(* ignore-field.                                                           *)
RemoveField(c) ==
  /\ Performs(c, {"ignore-field"})
  /\ present' = IF Has(c.dst) THEN present \ {Field(c.dst)} ELSE present
  /\ modified' = (modified \/ Has(c.dst))
  /\ next' = next + 1
  /\ UNCHANGED <<parm, data, flag, old, pc>>

(* A gate copied; between scales flagged-copy takes a bad one for a value. *)
Copied(op, v, from, to) ==
  IF SameScale(from, to) \/ (v = Bad /\ op # "flagged-copy") THEN v
  ELSE Rescaled(v, from, to)

(* Gate g of a shifted field; between scales it is computed from the       *)
(* first gate of the source.                                               *)
Shifted(g, s, from, to) ==
  LET h == g - gates_of_shift
  IN  IF h \notin Gates \/ s[h] = Bad THEN Bad
      ELSE IF SameScale(from, to) THEN s[h]
      ELSE Rescaled(s[0] + h, from, to)

CpyField(c) ==
  /\ Performs(c, {"duplicate", "copy", "flagged-copy", "establish-and-reset", "shift-field"})
  /\ Put(c.src, c.dst,
         [g \in CASE c.op = "copy" -> bnd [] c.op = "flagged-copy" -> bnd \cap flag
                  [] OTHER -> Gates |->
            CASE c.op = "establish-and-reset" -> Bad
              [] c.op = "shift-field" ->
                   Shifted(g, Data(c.src), Parm(c.src), Header(c.src, c.dst))
              [] OTHER -> Copied(c.op, Data(c.src)[g], Parm(c.src), Header(c.src, c.dst))])

(* forced-unfolding: a gate moved to within the Nyquist velocity of ctr.   *)
Unfolded(v, ctr, nyqv) ==
  LET idiff == ctr - v
  IN  IF AbsOf(idiff) <= nyqv THEN v
      ELSE v + TruncDiv(idiff + Sign(idiff) * nyqv, 2 * nyqv) * 2 * nyqv

Funfold(c) ==
  /\ Performs(c, {"forced-unfolding"})
  /\ Change(c.dst, [g \in IF nyquist_velocity = 0 THEN {} ELSE GoodIn(c.dst) |->
                      Short(Unfolded(Data(c.dst)[g], Scaled(c.k, 1, Parm(c.dst)),
                                     Scaled(nyquist_velocity, 1, Parm(c.dst))))])

(* unconditional-delete.                                                   *)
HardZap(c) ==
  /\ Performs(c, {"unconditional-delete"})
  /\ IF drawn THEN Change(c.dst, [g \in bnd |-> Bad])
     ELSE next' = next + 1 /\ UNCHANGED <<parm, present, data, flag, old, pc, modified>>

(* The gates before the first good one go whatever the boundary.           *)
ThresholdField(c) ==
  LET thr == Data(c.src)
  IN  /\ Performs(c, {"threshold"})
      /\ IF Has(c.src)
         THEN Change(c.dst,
                     [g \in 0 .. first_good_gate - 1
                            \cup {h \in bnd : thr[h] = Bad \/ Meets(c, thr[h], Parm(c.src))}
                        |-> Bad])
         ELSE Punt

RadialShear(c) ==
  LET n == gate_diff_interval
  IN  /\ Performs(c, {"radial-shear"})
      /\ Put(c.src, c.dst,
             [g \in {h \in bnd : h + n \in Gates} |->
                LET s == Data(c.src)
                IN  IF s[g + n] = Bad \/ s[g] = Bad THEN Bad ELSE Short(s[g + n] - s[g])])

(* The scale is changed on the first ray of the sweep, the gates of every  *)
(* ray are converted.                                                      *)
RescaleField(c) ==
  LET f    == Field(c.dst)
      to   == [scale |-> c.k, bias |-> c.k2]
      from == IF ray = 1 THEN [scale |-> parm[f].scale, bias |-> parm[f].bias] ELSE old[f]
  IN  /\ Performs(c, {"rescale-field"})
      /\ IF Has(c.dst)
         THEN /\ old' = [old EXCEPT ![f] = from]
              /\ parm' = IF ray = 1
                         THEN [parm EXCEPT ![f].scale = c.k, ![f].bias = c.k2] ELSE parm
              /\ data' = [data EXCEPT ![f] =
                            [g \in Gates |-> IF @[g] = Bad THEN Bad ELSE Rescaled(@[g], from, to)]]
              /\ GoOn /\ UNCHANGED <<present, flag>>
         ELSE Punt

(* remove-ring, its ranges given as gates.                                 *)
RingZap(c) ==
  /\ Performs(c, {"remove-ring"})
  /\ Change(c.dst, [g \in bnd \cap (c.k .. c.k2) |-> Bad])

----------------------------------------------------------------------------
(* The next ray: its mask is made, and the file's fields are read into     *)
(* their slots, also those no longer in use, by the scales that the slots  *)
(* have now.                                                               *)
ReadRay ==
  /\ pc = "read"
  /\ ray' = ray + 1
  /\ bnd' \in IF drawn THEN Masks ELSE {Gates}
  /\ data' = [i \in Slots |->
                IF i \in FileSlots
                THEN [g \in Gates |-> Quantized(file[ray'][FileFields[i].name][g], parm[i])]
                ELSE data[i]]
  /\ pc' = "perform" /\ next' = 1
  /\ UNCHANGED <<session, parm, present, old, flag, modified, written>>

(* Mutant of WrittenFields: the last field is forgotten.                   *)
WrittenFieldsButLast == (FileSlots \ {Len(FileFields)}) \cap present

(* rio_write_ray goes through as many slots as the file has fields.        *)
WrittenFields == FileSlots \cap present

DumpRay ==
  LET names == {parm[i].name : i \in WrittenFields}
      slot(n) == Min({i \in WrittenFields : parm[i].name = n})
  IN  /\ pc = "perform" /\ next = Len(cmds) + 1
      /\ written' = IF modified
                    THEN Append(written, [n \in names |->
                           [g \in Gates |-> Physical(data[slot(n)][g], parm[slot(n)])]])
                    ELSE written
      /\ pc' = IF ray < NRays THEN "read" ELSE "done"
      /\ UNCHANGED <<session, parm, present, data, old, flag, bnd, ray, next, modified>>

Init ==
  /\ file \in [1 .. NRays -> Rays]
  /\ drawn \in BOOLEAN
  /\ cmds \in Lists
  /\ parm = [i \in Slots |-> IF i \in FileSlots THEN FileFields[i]
                             ELSE [name |-> "", scale |-> 1, bias |-> 0]]
  /\ present = FileSlots
  /\ data = [i \in Slots |-> [g \in Gates |-> 0]]
  /\ old = [i \in Slots |-> [scale |-> 1, bias |-> 0]]
  /\ flag \in {{}, Gates}    \* what the last Do It left
  /\ bnd = {} /\ ray = 0 /\ pc = "read" /\ next = 1 /\ modified = FALSE /\ written = << >>

Command(c) ==
  \/ AbsoluteValue(c) \/ AssignValue(c) \/ AddConst(c) \/ AddFields(c)
  \/ MultConst(c) \/ AssertBadFlags(c) \/ FlaggedAdd(c) \/ BadFlagsLogic(c)
  \/ SetBadFlags(c) \/ CopyBadFlags(c) \/ ClearBadFlags(c) \/ Rewrite(c)
  \/ RemoveField(c) \/ CpyField(c) \/ Funfold(c) \/ HardZap(c)
  \/ ThresholdField(c) \/ RadialShear(c) \/ RescaleField(c) \/ RingZap(c)

Next == ReadRay \/ DumpRay \/ \E i \in DOMAIN cmds : Command(cmds[i])

Spec == Init /\ [][Next]_vars
=============================================================================
