------------------------------ MODULE Palettes -------------------------------
(***************************************************************************)
(* The Parameter and Colors windows (perusal/sii_param_widgets.c): one for *)
(* each frame, all working on one stack of palettes, and the plots that    *)
(* load a palette into a frame (solo_parameter_setup, sii_plot_data).      *)
(*                                                                         *)
(* A frame's record has the parameter structure of the plot (param,        *)
(* palName, changed, links), what the window shows (ent) and what it       *)
(* showed when it was last filled (orig), pd->pal (using), the field that  *)
(* is plotted with what it was drawn with (shown), and the one plotted     *)
(* before (toggle).                                                        *)
(*                                                                         *)
(* Fields all have one scale in every sweep, the color tables and colors   *)
(* that are named exist, and a plot is not halted.                         *)
(***************************************************************************)
EXTENDS PaletteShelf, FiniteSets, SequencesExt

CONSTANTS
  Frames,       \* the frames' numbers
  Fields,       \* the fields of the sweep, in its order
  LockStep,     \* for each frame the frames that are plotted with it
  Typed,        \* the palette names that can be typed
  Stock,        \* the palettes at the start, the top one first
  Gestures,     \* what the user does
  MaxGestures   \* bound: how often

VARIABLES shelf, frame, gestures

vars == <<shelf, frame, gestures>>

Names == Range(Fields)
AllFrames == SetToSortSeq(Frames, <)

(* solo_parameter_setup: the field that is plotted where a name is not in  *)
(* the sweep.                                                              *)
Substitute(fr) == Fields[(fr % Len(Fields)) + 1]

----------------------------------------------------------------------------
(* The window of a frame.  The operators map a state of all to the next,   *)
(* g being [shelf, frame].                                                 *)

(* sii_set_entries_from_palette *)
SetEntries(g, fr, name, p_name) ==
  LET found == palette_seek(g.shelf, p_name)
      s == IF name # NoName THEN SetPalette(g.shelf, name) ELSE g.shelf
      id == IF name # NoName THEN Top(s)
            ELSE IF p_name # NoName THEN s.stack[found]
            ELSE g.frame[fr].using
      filled == [name |-> NoName, pal |-> s.pals[id].name, items |-> s.pals[id].items]
  IN  [shelf |-> s,
       frame |-> [g.frame EXCEPT ![fr] =
         [@ EXCEPT !.using = id,
                   !.orig = [filled EXCEPT !.name = g.frame[fr].orig.name],
                   !.ent = [filled EXCEPT !.name = g.frame[fr].ent.name]]]]

(* The items that differ from what the window was filled with.  The mutant *)
(* takes all for typed.                                                    *)
EveryItem(f) == Items

ChangedItems(f) == {i \in Items : f.ent.items[i] # f.orig.items[i]}

(* sii_param_process_changes: they go to the palette, which for a new      *)
(* palette name is still the one before.                                   *)
ProcessChanges(g, fr) ==
  LET f == g.frame[fr]
      newPal == f.ent.pal # f.orig.pal
      newName == ~newPal /\ f.ent.name # f.orig.name
      s == IF newPal THEN NewPaletteForParam(g.shelf, f.ent.pal, f.ent.name)
           ELSE IF newName THEN SetPalette(g.shelf, f.ent.name)
           ELSE g.shelf
      id == IF newName THEN Top(s) ELSE f.using
      items == [i \in Items |-> IF i \in ChangedItems(f) THEN f.ent.items[i]
                                ELSE s.pals[id].items[i]]
  IN  SetEntries([shelf |-> Assigned(s, id, items),
                  frame |-> [g.frame EXCEPT ![fr].using = id]],
                 fr, f.ent.name, NoName)

(* sii_update_param_widget *)
Update(g, fr) ==
  LET f == g.frame[fr]
      named == [g.frame EXCEPT ![fr] = [@ EXCEPT !.orig.name = f.param,
                                                 !.orig.pal = f.palName,
                                                 !.ent.name = f.param,
                                                 !.linkset = f.links]]
  IN  IF f.window = "none" THEN g
      ELSE SetEntries([g EXCEPT !.frame = named], fr, f.param, f.palName)

(* solo_set_parameter_info: the frames whose palette name is the same are  *)
(* marked, the linked ones get a copy of the structure, and those no       *)
(* longer linked are left linked with each other.                          *)
SetParameterInfo(g, fr, param, palName) ==
  LET f == g.frame[fr]
      links == f.linkset \union {fr}
      dangling == f.links \ links
  IN  [g EXCEPT !.frame = [w \in Frames |->
        LET was == g.frame[w]
        IN  IF w \in links
              THEN [was EXCEPT !.param = param, !.palName = palName,
                               !.changed = TRUE, !.links = links]
            ELSE [was EXCEPT !.changed = @ \/ was.palName = palName,
                             !.links = IF w \in dangling THEN dangling ELSE @]]]

(* sii_set_param_info: without a window the names are blank. *)
SetParamInfo(g, fr) ==
  IF g.frame[fr].window = "none" THEN SetParameterInfo(g, fr, NoName, NoName)
  ELSE LET h == ProcessChanges(g, fr)
       IN  Update(SetParameterInfo(h, fr, h.frame[fr].ent.name, h.frame[fr].ent.pal), fr)

----------------------------------------------------------------------------
(* Plots. *)

(* solo_hardware_color_table: with a window the palette is looked up only  *)
(* if the field is the one the window shows.  The mutant never looks then. *)
ResolvesWindowless(f, field) == f.window = "none"

Resolves(f, field) == f.window = "none" \/ field = f.orig.name

(* solo_parameter_setup, and sii_param_set_plot_field for the toggle. *)
Setup(g, fr) ==
  LET f == g.frame[fr]
      field == IF f.param \in Names THEN f.param ELSE Substitute(fr)
      due == f.changed \/ field # f.param \/ field # f.shown.field
      looks == due /\ Resolves(f, field)
      s == IF looks THEN SetPalette(g.shelf, field) ELSE g.shelf
      id == IF looks THEN Top(s) ELSE f.using
  IN  [shelf |-> s,
       frame |-> [g.frame EXCEPT ![fr] =
         [@ EXCEPT !.param = field, !.changed = FALSE, !.using = id,
                   !.shown = IF due THEN [field |-> field, items |-> s.pals[id].items] ELSE @,
                   !.toggle = IF f.shown.field \in {field, NoName} THEN @
                              ELSE f.shown.field]]]

(* sii_plot_data: the frames are set up one after the other, and when they *)
(* are drawn their windows are filled again.                               *)
Plot(g, which) ==
  LET order == SelectSeq(AllFrames, LAMBDA fr : fr \in which)
  IN  FoldLeft(Update, FoldLeft(Setup, g, order), order)

Becomes(g) == shelf' = g.shelf /\ frame' = g.frame

Now == [shelf |-> shelf, frame |-> frame]

----------------------------------------------------------------------------
(* The gestures. *)
Open(fr) ==
  /\ frame[fr].window # "up"
  /\ LET f == frame[fr]
         made == [f EXCEPT !.window = "up", !.ent = f.orig, !.electric = TRUE]
         up == IF f.window = "none" THEN made ELSE [f EXCEPT !.window = "up"]
     IN  Becomes(Update([Now EXCEPT !.frame[fr] = up], fr))

Up(fr) == frame[fr].window = "up"

TypeItem(fr) ==
  /\ "item" \in Gestures /\ Up(fr)
  /\ \E i \in Items : \E v \in Values \ {frame[fr].ent.items[i]} :
       frame' = [frame EXCEPT ![fr].ent.items[i] = v]
  /\ UNCHANGED shelf

TypeName(fr) ==
  /\ "name" \in Gestures /\ Up(fr)
  /\ \E n \in Names \ {frame[fr].ent.name} : frame' = [frame EXCEPT ![fr].ent.name = n]
  /\ UNCHANGED shelf

TypePalette(fr) ==
  /\ "palette" \in Gestures /\ Up(fr)
  /\ \E p \in Typed \ {frame[fr].ent.pal} : frame' = [frame EXCEPT ![fr].ent.pal = p]
  /\ UNCHANGED shelf

(* Return in the Parameter Name entry *)
EnterName(fr) ==
  /\ Up(fr) /\ frame[fr].ent.name # NoName
  /\ Becomes(ProcessChanges(Now, fr))

(* Return in the Color Palette entry, or a click in the list of palettes *)
ChoosePalette(fr, p) ==
  LET g == [Now EXCEPT !.frame[fr].ent.pal = p]
  IN  Becomes(ProcessChanges(
        [g EXCEPT !.shelf = NewPaletteForParam(shelf, p, frame[fr].ent.name)], fr))

EnterPalette(fr) == Up(fr) /\ ChoosePalette(fr, frame[fr].ent.pal)

PickPalette(fr) ==
  /\ "pick palette" \in Gestures /\ Up(fr)
  /\ \E i \in DOMAIN shelf.pals : ChoosePalette(fr, shelf.pals[i].name)

(* A click in the list of fields; the menu item Electric Params can only   *)
(* turn the immediate plot off, there being no check button to look at.    *)
PickField(fr) ==
  /\ Up(fr)
  /\ \E n \in Names :
       LET g == [Now EXCEPT !.frame[fr].ent.name = n]
       IN  Becomes(IF frame[fr].electric THEN Plot(SetParamInfo(g, fr), {fr})
                   ELSE ProcessChanges(g, fr))

ElectricParams(fr) ==
  /\ "electric" \in Gestures /\ Up(fr) /\ frame[fr].electric
  /\ frame' = [frame EXCEPT ![fr].electric = FALSE]
  /\ UNCHANGED shelf

Replot(fr, which) == Up(fr) /\ Becomes(Plot(SetParamInfo(Now, fr), which))

Hidden(g, fr) == [g EXCEPT !.frame[fr].window = "hidden"]

Ok(fr) == Up(fr) /\ Becomes(Hidden(SetParamInfo(Now, fr), fr))

Cancel(fr) == "cancel" \in Gestures /\ Up(fr) /\ Becomes(Hidden(Now, fr))

(* The frame menu's Replot *)
FrameReplot(fr) ==
  /\ "frame menu" \in Gestures
  /\ Becomes(Plot(SetParamInfo(Now, fr), {fr}))

(* Any other plot: the next sweep, a return in a frame. *)
OtherPlot(fr) == Becomes(Plot(Now, LockStep[fr]))

(* sii_param_toggle_field: without a window there is no entry to set. *)
ToggleField(fr) ==
  /\ "toggle" \in Gestures /\ frame[fr].toggle # NoName
  /\ LET g == IF frame[fr].window = "none" THEN Now
              ELSE [Now EXCEPT !.frame[fr].ent.name = frame[fr].toggle]
     IN  Becomes(Plot(SetParamInfo(g, fr), {fr}))

(* Broadcast...: a color to all other palettes, and, but for the           *)
(* annotation, the grid color with it.                                     *)
Broadcast(fr) ==
  /\ "broadcast" \in Gestures /\ Up(fr)
  /\ \E color \in Items \ {"range"} :
       LET sent == IF color = "annotation" THEN {color} ELSE {color, "grid"} \intersect Items
           source == shelf.pals[frame[fr].using].items
           pal(p) == [i \in Items |-> IF i \in sent THEN source[i] ELSE shelf.pals[p].items[i]]
       IN  /\ shelf' = [shelf EXCEPT !.pals = [p \in DOMAIN @ |-> [@[p] EXCEPT !.items = pal(p)]]]
           /\ frame' = [w \in Frames |-> [frame[w] EXCEPT !.changed =
                          @ \/ color # "annotation" \/ w # fr]]

(* The color bar's settings, which go with each frame's own information. *)
BroadcastColorBar(fr) ==
  /\ "color bar" \in Gestures /\ Up(fr)
  /\ Becomes(FoldLeft(LAMBDA g, w : IF w = fr THEN g ELSE SetParamInfo(g, w), Now, AllFrames))

SetLinks(fr) ==
  /\ "links" \in Gestures /\ Up(fr)
  /\ \E set \in SUBSET Frames : Becomes(SetParamInfo([Now EXCEPT !.frame[fr].linkset = set], fr))

----------------------------------------------------------------------------
(* sii_initialize_parameter gave each frame a field and its palette, and a *)
(* first plot follows.                                                     *)
Started ==
  LET stock == [pals |-> Stock, stack |-> [i \in DOMAIN Stock |-> i]]
      start == [shelf |-> stock, frame |-> [fr \in Frames |->
        [window |-> "none", electric |-> FALSE, param |-> Substitute(fr), palName |-> NoName,
         changed |-> TRUE, links |-> {fr}, linkset |-> {fr}, using |-> 0,
         orig |-> [name |-> Substitute(fr), pal |-> NoName, items |-> Plain],
         ent |-> [name |-> Substitute(fr), pal |-> NoName, items |-> Plain],
         shown |-> [field |-> NoName, items |-> Plain], toggle |-> NoName]]]
      init(g, fr) ==
        LET h == SetEntries(g, fr, Substitute(fr), NoName)
        IN  [h EXCEPT !.frame[fr].palName = h.frame[fr].orig.pal]
  IN  Plot(FoldLeft(init, start, AllFrames), Frames)

Init == shelf = Started.shelf /\ frame = Started.frame /\ gestures = 0

Gesture == \E fr \in Frames :
  \/ Open(fr)
  \/ TypeItem(fr) \/ TypeName(fr) \/ TypePalette(fr)
  \/ EnterName(fr) \/ EnterPalette(fr) \/ PickPalette(fr) \/ PickField(fr)
  \/ ElectricParams(fr)
  \/ Replot(fr, {fr}) \/ Replot(fr, LockStep[fr]) \/ Replot(fr, Frames)
  \/ Ok(fr) \/ Cancel(fr)
  \/ FrameReplot(fr) \/ OtherPlot(fr) \/ ToggleField(fr)
  \/ Broadcast(fr) \/ BroadcastColorBar(fr) \/ SetLinks(fr)

Next == gestures < MaxGestures /\ gestures' = gestures + 1 /\ Gesture

Spec == Init /\ [][Next]_vars

=============================================================================
