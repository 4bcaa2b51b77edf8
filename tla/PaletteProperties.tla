-------------------------- MODULE PaletteProperties --------------------------
(***************************************************************************)
(* Which palette a field is drawn with, and who changes a palette.         *)
(***************************************************************************)
EXTENDS Palettes

Text == Names \union {NoName}

TypeOK ==
  /\ shelf.pals \in Seq([name : STRING, usual : SUBSET Names, items : [Items -> Values]])
  /\ ShelfOK(shelf)
  /\ \A fr \in Frames : LET f == frame[fr]
     IN  /\ f.window \in {"none", "up", "hidden"}
         /\ f.electric \in BOOLEAN /\ f.changed \in BOOLEAN
         /\ {f.param, f.shown.field, f.toggle, f.ent.name, f.orig.name} \subseteq Text
         /\ f.using \in DOMAIN shelf.pals
         /\ fr \in f.links /\ f.links \subseteq Frames /\ f.linkset \subseteq Frames
         /\ f.shown.items \in [Items -> Values]

(* The palette of a field is the one its user chose last: nothing else, no *)
(* plot of another field in another frame, which moves palettes to the top *)
(* of the stack the field is looked up in, gives it another one.           *)
ChosenPaletteStays ==
  [][\A name \in Names :
       LET was == Lookup(shelf, name)
           is == Lookup(shelf', name)
       IN  was # 0 /\ is # was =>
             \E fr \in Frames : /\ frame'[fr].window # "none"
                                /\ frame'[fr].ent.name = name
                                /\ frame'[fr].using = is]_vars

(* A frame that is set up for a plot is drawn with the palette of its      *)
(* field as it is then.  solo_hardware_color_table looks the palette up    *)
(* for a frame without a window, or for the field its window shows: a      *)
(* frame that another one linked to it changes, or whose window shows a    *)
(* field that is not plotted, is not spoken of (see DrawnInItsPalette).    *)
InStep(fr) == /\ \A w \in Frames \ {fr} : fr \notin frame'[w].links
              /\ \/ frame[fr].window = "none"
                 \/ frame[fr].param = frame[fr].orig.name /\ frame[fr].param # NoName

DrawnWithLookup(fr) ==
  LET id == Lookup(shelf', frame'[fr].shown.field)
  IN  id # 0 /\ frame'[fr].shown.items = shelf'.pals[id].items

PlottedInItsPalette ==
  [][\A fr \in Frames :
       InStep(fr) /\ frame'[fr].shown # frame[fr].shown => DrawnWithLookup(fr)]_vars

(* The same for every frame.  It fails: a frame that is linked to the one  *)
(* a field is chosen in, and has a window of its own, is drawn with the    *)
(* palette of the field it showed before.                                  *)
DrawnInItsPalette ==
  [][\A fr \in Frames : frame'[fr].shown # frame[fr].shown => DrawnWithLookup(fr)]_vars

(* What a palette says changes by being typed in some frame's window since *)
(* that window was filled: no window, open or hidden, puts back what it    *)
(* was filled with over what was set from another one.                     *)
OnlyTypedItems ==
  [][\A p \in DOMAIN shelf.pals : \A i \in Items :
       shelf'.pals[p].items[i] # shelf.pals[p].items[i] =>
         \E fr \in Frames :
           LET f == frame[fr]
           IN  \/ shelf'.pals[p].items[i] = f.ent.items[i] /\ f.ent.items[i] # f.orig.items[i]
               \/ /\ f.using # p /\ i # "range"
                  /\ shelf'.pals[p].items[i] = shelf.pals[f.using].items[i]
                  /\ frame' = [w \in Frames |-> [frame[w] EXCEPT !.changed = frame'[w].changed]]]_vars

(* "If you wish to define a new palette for a parameter, change all items  *)
(* you wish to be different, type a new name [...] and hit <return>"       *)
(* (help_param.h).  It fails: the items go to the palette the window had,  *)
(* which other fields may be drawn with, and the new one has none of them. *)
NewPaletteHasItems ==
  [][\A fr \in Frames :
       EnterPalette(fr) /\ palette_seek(shelf, frame[fr].ent.pal) = 0 =>
         \A i \in ChangedItems(frame[fr]) :
           shelf'.pals[Top(shelf')].items[i] = frame[fr].ent.items[i]]_vars

=============================================================================
