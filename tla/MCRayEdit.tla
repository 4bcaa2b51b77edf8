----------------------------- MODULE MCRayEdit -----------------------------
(* A small sweep and the lists of commands for TLC.  Values are counted in *)
(* quarters: VE and RF are stored as halves, DZ as whole numbers.          *)
EXTENDS RayProperties, TLC

CONSTANT M

ThreeFields ==
  <<[name |-> "VE", scale |-> 2, bias |-> 0],
    [name |-> "DZ", scale |-> 1, bias |-> 0],
    [name |-> "RF", scale |-> 2, bias |-> 0]>>

Gates3(a, b, c) == 0 :> a @@ 1 :> b @@ 2 :> c
Ray(ve, dz, rf) == "VE" :> ve @@ "DZ" :> dz @@ "RF" :> rf

(* RF holds quarters, and values beyond the range of its counts.           *)
ThreeRays ==
  {Ray(Gates3(8, M, -6),  Gates3(20, 4, M),  Gates3(3, 999, -999)),
   Ray(Gates3(M, 2, 10),  Gates3(M, -8, 12), Gates3(M, -1, 1)),
   Ray(Gates3(-2, 0, 30), Gates3(M, 8, -4),  Gates3(-3, M, 4))}

ThreeMasks == {{0, 1}, {1, 2}, {}}

(* A command, with the fields it does not take made harmless.              *)
In(op, dst, k)          == [op |-> op, src |-> dst, add |-> dst, dst |-> dst,
                            k |-> k, k2 |-> 0, where |-> ""]
From(op, src, dst, k)   == [In(op, dst, k) EXCEPT !.src = src, !.add = src]
Two(op, add, src, dst)  == [From(op, src, dst, 0) EXCEPT !.add = add]
When(op, f, where, k, k2) == [In(op, f, k) EXCEPT !.where = where, !.k2 = k2]
On(dst, thr, where, k)  == [When("threshold", thr, where, k, 0) EXCEPT !.dst = dst]

Conditions(op) == {When(op, "VE", "below", 4, 0), When(op, "DZ", "above", 4, 0),
                   When(op, "VE", "between", 0, 8)}

Edits ==
  {In(op, f, 6) : op \in {"absolute-value", "assign-value", "flagged-assign", "flagged-add",
                          "flagged-multiply", "assert-bad-flags", "forced-unfolding",
                          "unconditional-delete", "ignore-field"}, f \in {"VE", "DZ", "XX"}}
  \cup {In(op, "VE", -6) : op \in {"assign-value", "flagged-add", "forced-unfolding"}}
  \cup {From(op, "VE", d, -6) : op \in {"add-value", "multiply"}, d \in {"VE", "VG"}}
  \cup {From(op, "VE", d, 8) : op \in {"multiply", "exponentiate", "duplicate", "copy"},
                               d \in {"VG", "DZ"}}
  \cup {From(op, "VE", "VG", 0) : op \in {"flagged-copy", "shift-field", "radial-shear",
                                          "establish-and-reset"}}
  \cup {Two(op, "DZ", "VE", d) : op \in {"add-field", "subtract", "mult-fields", "merge-field"},
                                 d \in {"VE", "VG", "DZ"}}
  \cup {Two(op, "VE", "VE", "VE") : op \in {"add-field", "subtract"}}
  \cup {On("VE", "DZ", w, 8) : w \in {"below", "above"}}
  \cup {[When("remove-ring", "VE", "", 1, 2) EXCEPT !.src = "VE"], In("rewrite", "VE", 0),
         In("rescale-field", "DZ", 1)}

Marks == UNION {Conditions(op) : op \in {"set-bad-flags", "and-bad-flags", "or-bad-flags",
                                         "xor-bad-flags"}}
         \cup {In("copy-bad-flags", "DZ", 0), In("clear-bad-flags", "VE", 0),
               In("complement-bad-flags", "VE", 0)}

Flagged == {In("assert-bad-flags", "VE", 0), In("assert-bad-flags", "DZ", 0),
            In("flagged-add", "VE", 6), From("flagged-copy", "VE", "VG", 0)}

(* Fields established by one command and used by the next.                 *)
Makers == {From("duplicate", "VE", "VG", 0), From("radial-shear", "VE", "VG", 0),
           From("add-value", "VE", "VG", 6)}
Users  == {From("copy", "VG", "VE", 0), From("duplicate", "VG", "VE", 0),
           On("VE", "VG", "below", 6), Two("merge-field", "DZ", "VG", "VE"),
           Two("add-field", "VG", "DZ", "VU"), In("absolute-value", "VG", 0),
           From("duplicate", "DZ", "VU", 0), In("ignore-field", "VE", 0)}

OneToThree ==
  {<<c>> : c \in Edits \cup Marks}
  \cup {<<a, b, c>> : a \in Conditions("set-bad-flags") \cup {In("copy-bad-flags", "DZ", 0)},
                      b \in Marks, c \in Flagged}
  \cup {<<a, b>> : a \in Makers, b \in Users}
  \cup {<<In("ignore-field", "VE", 0), a>> : a \in Makers}

(* "Is effectively a rename of field VE."                                  *)
Rename == {<<From("duplicate", "VE", "VG", 0), In("ignore-field", "VE", 0)>>}
=============================================================================
