---------------------------- MODULE PaletteShelf -----------------------------
(***************************************************************************)
(* The palettes of the display (perusal/sii_param_widgets.c).              *)
(*                                                                         *)
(* A shelf has the palettes, in the order they were made, which is how     *)
(* frames point at them, and palette_stack: the order in which they are    *)
(* looked through, the one touched last on top.  A palette has a name, the *)
(* fields it is usually used for, and what it says of colours and ranges.  *)
(***************************************************************************)
EXTENDS Integers, Sequences

CONSTANTS
  Items,  \* what a palette settles: colours, color table, range
  Values, \* what can be chosen for an item
  Plain   \* the values of a palette just made

ASSUME PlainAssumption == Plain \in [Items -> Values]

(* What no name is: the empty text, here and in the entries of a window.   *)
NoName == ""

(* Each palette has one place in the stack, and no field is listed by two. *)
ListedOnce(s) ==
  \A p, q \in DOMAIN s.pals : s.pals[p].usual \intersect s.pals[q].usual # {} => p = q

ShelfOK(s) ==
  /\ s = [pals |-> s.pals, stack |-> s.stack]
  /\ Len(s.pals) \in Nat /\ s.pals = [p \in 1..Len(s.pals) |-> s.pals[p]]
  /\ \A p \in DOMAIN s.pals : s.pals[p] = [name |-> s.pals[p].name,
                                          usual |-> s.pals[p].usual,
                                          items |-> s.pals[p].items]
  /\ s.stack \in Seq(DOMAIN s.pals)
  /\ \A i, j \in DOMAIN s.stack : s.stack[i] = s.stack[j] => i = j
  /\ \A p \in DOMAIN s.pals : \E i \in DOMAIN s.stack : s.stack[i] = p
  /\ ListedOnce(s)

----------------------------------------------------------------------------
(* The place nearest the top, 0 for none. *)
First(places) ==
  IF places = {} THEN 0 ELSE CHOOSE i \in places : \A j \in places : i <= j

palette_for_param(s, name) ==
  First({i \in DOMAIN s.stack : name \in s.pals[s.stack[i]].usual})

palette_seek(s, p_name) == First({i \in DOMAIN s.stack : s.pals[s.stack[i]].name = p_name})

(* The palette a field is drawn with the next time it is set up. *)
Lookup(s, name) ==
  LET i == palette_for_param(s, name) IN IF i = 0 THEN 0 ELSE s.stack[i]

Top(s) == s.stack[1]

(* sii_ll_remove and sii_ll_push of the palette at a place. *)
MovedToTop(s, i) ==
  [s EXCEPT !.stack = [k \in DOMAIN s.stack |-> IF k = 1 THEN s.stack[i]
                                                ELSE IF k <= i THEN s.stack[k - 1]
                                                ELSE s.stack[k]]]

(* sii_malloc_palette and sii_ll_push. *)
Made(s, p_name, usual) ==
  [pals |-> Append(s.pals, [name |-> p_name, usual |-> usual, items |-> Plain]),
   stack |-> [k \in 1..(Len(s.stack) + 1) |-> IF k = 1 THEN Len(s.pals) + 1
                                              ELSE s.stack[k - 1]]]

(* sii_set_palette: the palette of a field, made if there is none; it ends *)
(* on top.                                                                 *)
SetPalette(s, name) ==
  LET i == palette_for_param(s, name)
  IN  IF i = 0 THEN Made(s, "p_" \o name, {name}) ELSE MovedToTop(s, i)

(* The mutant leaves the field listed where it was.                        *)
SubscribedToo(s, id, name) == [s EXCEPT !.pals[id].usual = @ \union {name}]

(* sii_palette_prepend_usual_param, sii_palette_remove_usual_param: the    *)
(* field is listed by this palette and by no other.                        *)
Subscribed(s, id, name) ==
  [s EXCEPT !.pals = [p \in DOMAIN s.pals |->
     LET pal == s.pals[p]
     IN  [pal EXCEPT !.usual = IF p = id THEN @ \union {name} ELSE @ \ {name}]]]

(* sii_new_palette_for_param: a palette is chosen for a field.  A blank    *)
(* name leaves no token in a list.                                         *)
NewPaletteForParam(s, p_name, name) ==
  LET i == palette_seek(s, p_name)
      top == IF i = 0 THEN Made(s, p_name, {}) ELSE MovedToTop(s, i)
  IN  IF name = NoName THEN top ELSE Subscribed(top, Top(top), name)

(* Items typed in a window go into a palette. *)
Assigned(s, id, items) == [s EXCEPT !.pals[id].items = items]

=============================================================================
