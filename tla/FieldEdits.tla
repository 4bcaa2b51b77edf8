----------------------------- MODULE FieldEdits -----------------------------
(***************************************************************************)
(* What the for-each-ray commands promise in the editor's help: operations *)
(* on named fields of values, inside the boundary, of which bad ones are   *)
(* missing.  No field has a scale here, a slot or a header.                *)
(*                                                                         *)
(* A value is computed to the nearest count, or, below zero, up to one and *)
(* a half counts too high: that much DD_SCALE, which adds half a count and *)
(* cuts off, takes from the promise.                                       *)
(***************************************************************************)
EXTENDS Integers, Sequences

CONSTANTS
  Gates, UNIT,
  COUNT,               \* the coarsest count of a field, in 1/UNIT
  LIMIT,               \* the largest value that every field can hold
  Missing,
  NewRays,             \* the rays that may come, by name and gate
  Masks,               \* what may lie inside the boundary
  Lists,               \* the command lists
  first_good_gate, gates_of_shift, gate_diff_interval, nyquist_velocity

VARIABLES
  fields,   \* the fields of the ray: by name, the value of every gate
  flags,    \* the gates in the mask of bad flags
  inside,   \* the gates inside the boundary
  drawn,    \* whether there is a boundary
  todo      \* the commands left for this ray

vars == <<fields, flags, inside, drawn, todo>>

----------------------------------------------------------------------------
(* v is num/den, as nearly as it is computed.                              *)
Near(v, num, den) ==
  LET e == v * den - num
  IN  IF num >= 0 THEN 2 * e <= den * COUNT /\ -2 * e <= den * COUNT
      ELSE 2 * e <= 3 * den * COUNT /\ -2 * e <= den * COUNT

(* Or it may be cut off.                                                   *)
Within(v, num, den) ==
  LET e == v * den - num
  IN  Near(v, num, den) \/ (e < den * COUNT /\ -e < den * COUNT)

Constants(k) == {t \in k - COUNT .. k + 2 * COUNT : Near(t, k, 1)}

(* The gates a command decides about.                                      *)
Reach(c) ==
  CASE c.op \in {"duplicate", "establish-and-reset", "shift-field", "rescale-field"} -> Gates
    [] c.op \in {"flagged-assign", "flagged-add", "flagged-multiply",
                 "flagged-copy", "assert-bad-flags"} -> inside \cap flags
    [] c.op = "remove-ring"  -> inside \cap (c.k .. c.k2)
    [] c.op = "threshold"    -> inside \cup 0 .. first_good_gate - 1
    [] c.op = "radial-shear" -> {g \in inside : g + gate_diff_interval \in Gates}
    [] c.op = "unconditional-delete" -> IF drawn THEN inside ELSE {}
    [] OTHER -> inside

Meets(c, v) ==
  CASE c.where = "below"   -> v < c.k
    [] c.where = "above"   -> v > c.k
    [] c.where = "between" -> c.k <= v /\ v <= c.k2

(* What one value may become,                                              *)
Computed(c, v, s) ==
  CASE c.op = "absolute-value" -> v = IF s < 0 THEN -s ELSE s
    [] c.op \in {"add-value", "flagged-add"} -> \E k \in Constants(c.k) : v = s + k
    [] c.op \in {"multiply", "flagged-multiply"} -> Within(v, s * c.k, UNIT)
    [] c.op = "exponentiate" -> Near(v, s ^ (c.k \div UNIT), UNIT ^ (c.k \div UNIT - 1))
    [] c.op \in {"duplicate", "copy", "flagged-copy", "rescale-field"} -> Near(v, s, 1)
    [] c.op = "forced-unfolding" ->
         /\ (v - s) % (2 * nyquist_velocity) = 0
         /\ \E k \in Constants(c.k) : v - k \in -nyquist_velocity .. nyquist_velocity

(* and what two may, a coming from the field named first.                  *)
Combined(c, v, a, s) ==
  CASE c.op = "add-field"    -> Near(v, s + a, 1)
    [] c.op = "merge-field"  -> Near(v, a, 1)
    [] c.op = "subtract"     -> Near(v, s - a, 1)
    [] c.op = "mult-fields"  -> Near(v, s * a, UNIT)
    [] c.op = "radial-shear" -> v = a - s

(* What gate g may become, v, of a field that holds old there.  A missing  *)
(* value is missing from the result, except that two fields added or       *)
(* merged make up for each other.                                          *)
Promised(c, g, v, old) ==
  LET src == fields[c.src]
      s   == src[g]
      a   == IF c.op = "radial-shear" THEN src[g + gate_diff_interval] ELSE fields[c.add][g]
      h   == g - gates_of_shift
  IN  CASE c.op \in {"assign-value", "flagged-assign"} -> Near(v, c.k, 1)
        [] c.op \in {"assert-bad-flags", "remove-ring", "unconditional-delete",
                     "establish-and-reset"} -> v = Missing
        [] c.op = "shift-field" -> v = IF h \in Gates THEN src[h] ELSE Missing
        [] c.op = "threshold" ->
             v = IF g < first_good_gate \/ s = Missing THEN Missing
                 ELSE IF Meets(c, s) THEN Missing ELSE old
        [] c.op \in {"add-field", "merge-field", "subtract", "mult-fields", "radial-shear"} ->
             IF a # Missing /\ s # Missing THEN v # Missing /\ Combined(c, v, a, s)
             ELSE IF c.op \notin {"add-field", "merge-field"} \/ a = s THEN v = Missing
             ELSE v # Missing /\ Near(v, IF a = Missing THEN s ELSE a, 1)
        [] OTHER -> IF s = Missing THEN v = Missing ELSE v # Missing /\ Computed(c, v, s)

----------------------------------------------------------------------------
Takes(c) == todo # << >> /\ c = Head(todo) /\ todo' = Tail(todo)

FlagCommands == {"set-bad-flags", "and-bad-flags", "or-bad-flags", "xor-bad-flags",
                 "copy-bad-flags", "clear-bad-flags", "complement-bad-flags"}

(* A command into a field: the other fields stay as they are, and so do    *)
(* the gates of this one it does not reach, if there was such a field.     *)
Edit(c) ==
  /\ Takes(c) /\ c.op \notin FlagCommands \cup {"ignore-field", "rewrite"}
  /\ {c.src, c.add} \subseteq DOMAIN fields
  /\ DOMAIN fields' = DOMAIN fields \cup {c.dst}
  /\ \A n \in DOMAIN fields \ {c.dst} : fields'[n] = fields[n]
  /\ \A g \in Reach(c) :
       Promised(c, g, fields'[c.dst][g],
                IF c.dst \in DOMAIN fields THEN fields[c.dst][g] ELSE Missing)
  /\ c.dst \in DOMAIN fields =>
       \A g \in Gates \ Reach(c) : fields'[c.dst][g] = fields[c.dst][g]
  /\ UNCHANGED <<flags, inside, drawn>>

(* A command on the mask of bad flags.  The ones that combine it with a    *)
(* condition leave it alone outside the boundary; what copy-bad-flags,     *)
(* which "effectively clears the flags mask", leaves there is not said.    *)
Mark(c) ==
  LET value(g) == fields[c.src][g]
      hits == {g \in inside : value(g) # Missing /\ Meets(c, value(g))}
  IN  /\ Takes(c) /\ c.op \in FlagCommands
      /\ \/ c.op \in {"clear-bad-flags", "complement-bad-flags"}
         \/ c.src \in DOMAIN fields
      /\ CASE c.op = "clear-bad-flags"      -> flags' = {}
           [] c.op = "complement-bad-flags" -> flags' = Gates \ flags
           [] c.op = "set-bad-flags"        -> flags' = hits
           [] c.op = "and-bad-flags" -> flags' = (flags \cap hits) \cup (flags \ inside)
           [] c.op = "or-bad-flags"  -> flags' = flags \cup hits
           [] c.op = "xor-bad-flags" -> flags' = (flags \ hits) \cup (hits \ flags)
           [] c.op = "copy-bad-flags" ->
                /\ flags' \subseteq Gates
                /\ flags' \cap inside = {g \in inside : value(g) = Missing}
      /\ UNCHANGED <<fields, inside, drawn>>

Ignore(c) ==
  /\ Takes(c) /\ c.op = "ignore-field"
  /\ fields' = [n \in DOMAIN fields \ {c.dst} |-> fields[n]]
  /\ UNCHANGED <<flags, inside, drawn>>

Rewrite(c) ==
  /\ Takes(c) /\ c.op = "rewrite" /\ UNCHANGED <<fields, flags, inside, drawn>>

(* The edit is given up, for want of a field a command names.              *)
GiveUp ==
  /\ todo # << >> /\ todo' = << >>
  /\ ~({Head(todo).src, Head(todo).add} \subseteq DOMAIN fields)
  /\ UNCHANGED <<fields, flags, inside, drawn>>

(* The next ray comes, as nearly as it can be read.  Fields it does not    *)
(* bring, and the flags, stay from the one before.                         *)
NewRay ==
  /\ todo = << >> /\ todo' \in Lists
  /\ inside' \in IF drawn THEN Masks ELSE {Gates}
  /\ DOMAIN fields' = DOMAIN fields
  /\ \E r \in NewRays : \A n \in DOMAIN fields, g \in Gates :
       IF n \notin DOMAIN r THEN fields'[n] = fields[n]
       ELSE IF r[n][g] = Missing THEN fields'[n][g] = Missing
       ELSE /\ fields'[n][g] # Missing
            /\ r[n][g] \in -LIMIT .. LIMIT => Near(fields'[n][g], r[n][g], 1)
  /\ UNCHANGED <<flags, drawn>>

Init ==
  /\ flags \subseteq Gates /\ inside = {} /\ drawn \in BOOLEAN /\ todo = << >>

Command == todo # << >> /\ LET c == Head(todo)
                          IN  Edit(c) \/ Mark(c) \/ Ignore(c) \/ Rewrite(c)

Next == Command \/ GiveUp \/ NewRay

Spec == Init /\ [][Next]_vars
=============================================================================
