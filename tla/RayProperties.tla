--------------------------- MODULE RayProperties ---------------------------
(* What the editor's commands and the rays written owe to the user.        *)
EXTENDS RayEdit
LOCAL INSTANCE FiniteSetsExt

Names == {parm[i].name : i \in present}

(* The values the counts of a ray stand for.                               *)
Values == [n \in Names |-> [g \in Gates |-> Physical(Data(n)[g], Parm(n))]]

Coarsest == Max({UNIT \div FileFields[i].scale : i \in FileSlots})
Holds    == Min({Unscaled(TOP, FileFields[i]) : i \in FileSlots})

Promise == INSTANCE FieldEdits WITH
  COUNT <- Coarsest, LIMIT <- Holds, NewRays <- Rays,
  fields <- Values, flags <- flag, inside <- bnd,
  todo <- IF pc = "perform" THEN SubSeq(cmds, next, Len(cmds)) ELSE << >>

(* Every command does to the values of the fields what the help says of    *)
(* it, and to no other field and no other gate, though it works on counts  *)
(* of different scales in slots that it may have to find first.            *)
CommandsKeepPromises == Promise!Spec

(* Every variable has its type; counts fit into a short.                   *)
TypeOK ==
  /\ parm \in [Slots -> [name : STRING, scale : Nat \ {0}, bias : Int]]
  /\ present \subseteq Slots /\ flag \subseteq Gates /\ bnd \subseteq Gates
  /\ data \in [Slots -> [Gates -> Counts]]
  /\ ray \in 0 .. NRays /\ Len(written) <= ray
  /\ pc \in {"read", "perform", "punt", "done"} /\ next \in 1 .. Len(cmds) + 1

(* A field that no command writes to comes out of the edit as it went in:  *)
(* every value to half a count, a value beyond the range as the limit, and *)
(* nothing turned into, or out of, a missing gate (rio_read_ray,           *)
(* rio_write_ray).                                                         *)
Spared(n) == \A i \in DOMAIN cmds : cmds[i].dst # n

UneditedSurvive ==
  \A r \in DOMAIN written, i \in FileSlots :
    Spared(FileFields[i].name) =>
      \A g \in Gates :
        LET p     == FileFields[i]
            limit == Unscaled(TOP, p)
            least == Unscaled(-TOP, p)
            was   == file[r][p.name][g]
            is    == written[r][p.name][g]
        IN  /\ p.name \in DOMAIN written[r]
            /\ (was = Missing) <=> (is = Missing)
            /\ was # Missing =>
                 CASE was > limit -> is = limit
                   [] was < least -> is = least
                   [] OTHER -> 2 * AbsOf(is - was) * p.scale <= UNIT

(* "If the put-in field does not exist it will be added": a field that is  *)
(* in use when a ray is written is in the ray.                             *)
NewFieldsWritten ==
  [][Len(written') > Len(written) => DOMAIN written'[ray] = Names]_vars
=============================================================================
