# Verification of soloiv: files, caches, edits, boundaries, gates and palettes

soloiv is a viewer and editor for weather-radar sweeps: a GTK 4 program with
one thread, descended from NCAR's solo. Frames plot sweeps from a directory of
files; an editor applies a list of commands to every ray of a span of sweeps
and writes the files back; an undo stack restores them. What is hard about it
is first of all *which bytes each part believes a name stands for*: every
window caches the volume it read, the catalog caches the directory, the editor
has caches of its own, and edits rewrite files under the names everybody caches.
This project models that, and what the editor does to the gates once it has the
right bytes: its commands, filters, boundaries and examine window, which work on
scaled counts, hand-linked lists and indices that cross gaps; and the palettes,
one stack of them edited from the windows of all frames. TLC checks all of it on
small instances; TLAPS proves for every size the bottom layer, most of what is
promised of a session of edits (whole files, fresh caches, volumes left alone, edits
that stack, and that a Do It is one step), what the filters do and leave alone, and
that touching one palette gives no other field another.

## 1. Inventory

| part | source | its state | its operations | what makes it correct |
|---|---|---|---|---|
| radar I/O shim | `translate/radar_io.c` | per dgi: cached volume, path, selected sweep, cursor; volume being assembled, last written path | read header, read ray, seek, rewind, invalidate, close, write ray, end sweep | reads stay in the selected sweep; a pass sees one image; a failed write leaves nothing behind |
| Radx backend | `translate/radx_shim.cc` | a volume of rays | open, cut into sweeps, serve rays, name and write | a file is named after what is in it |
| sweep catalog | `translate/dd_files.c` | per directory: tree by time of trees by version, `num_hits`, `rescan_urgent` | insert, search, list, rescan | lookups do not depend on readdir order; staleness is bounded |
| editor file access | `translate/swp_file_acc.c`, `dd_swp_files.c` | list of sweeps in the span, sweep count, ray count | list, next sweep, next ray, dump, flush | it opens the file the display shows |
| edit engine | `editor/se_proc_data.c`, `se_*.c` | `modified`, `punt`, `finish_up`, the command list | process a list over a span | it ends; files stay whole whatever ends it |
| edit window, undo | `perusal/sii_edit_widgets.c` | undo stack, start and stop time | Do It, Undo, First, Last, Reset Times | every edit can be undone, in order; frames follow the edit |
| plotting, navigation | `perusal/sii_perusal.c`, `sp_basics.c`, `solo2.c` | per frame: sweep info, request, what is on the screen; lockstep sets | replot, forward, backward | no sweep is passed over; replots show the disk |
| clicks, selection | `perusal/sp_clkd.c`, `sp_accepts.c` | the lead dgi's cursor; sweep info | click, pick from the list | they do not disturb edits or plots |
| halt flag | `translate/dda_common.c`, `sii_callbacks.c` | one flag | Escape | |
| examine window | `editor/sxm_examine.c` | the gates listed, the text shown, a linked list of changes | click, undo, clear, apply, refresh | what is taken back is untouched; what is applied is what was shown |
| boundaries | `editor/se_bnd.c` | linked lists of points and boundaries, a free list, a ring of packed earlier sets | click, delete, clear, cycle, save, import, recall; mask of a ray | lists stay intact; sets come back; the mask is what is enclosed |
| gate commands | `editor/se_add_mult.c`, `se_flag_ops.c`, `se_for_each.c`, `se_catch_all.c` | slots of scaled counts, bad flags, boundary bits | some thirty for-each-ray commands | each does what the help says to the values, and nothing to others |
| gate filters | `editor/se_defrkl.c`, `se_BB_unfold.c` | queues of running averages | despeckle, freckles, glitches, unfolding | inside the boundary only; agree with their definitions; end |
| other editor algorithms | `editor/se_histog.c`, `se_ac_*`, ... | accumulators | histograms, surface tweak, vortex fix | not modelled (section 7) |
| Parameter window, palettes | `perusal/sii_param_widgets.c`, parts of `sp_accepts.c`, `sii_perusal.c` | the palettes and the order they are looked through; per frame: what the window shows, what it was filled with, the palette pointed at, the field and palette name to plot, links | type, choose, OK, Cancel, replots, toggle, broadcasts, links; set-up of a plot | a field keeps the palette chosen for it; a frame is drawn with its field's palette; palettes change by what is typed only |
| other windows, colours, rendering, configuration | `perusal/sii_*` | widget state | | not modelled (section 7) |
| translators of other formats | `translate/*_dd.c`, ... | | | not modelled (section 7) |

How they interact: everything is a C call in one thread. Each window has a dgi
(`dd_window_dgi`), the editor has one of its own (`SE_FRAME`); frames that share
a sweep all read through the dgi of the lead frame (`solo_worksheet`), frames in
lockstep are plotted together. The display finds files by *time stamp* through
the catalog and the editor by *time span* through the same catalog; the writer
names files by the *times of the rays* it was given. These three agree on a
file of a single sweep, and disagree on a volume of several.

There is no preemption. An event of the display is handled to its end, so it is
one action; a Do It is a loop over rays and files, one action per iteration,
because its ways of ending (last ray, "punt", halt, failed write) leave
different state behind. What interleaves is the order of the user's events, with
the state the earlier ones left in caches, flags and names.

Regime: files served by the Radx backend (CfRadial; the name rule is the same
for DORADE written through it), one radar, one directory, plots of a single
time, NEXRAD mode off (the default), no time sync, no file filters.

## 2. Modules

* **RadarIO**: volumes, sweeps, and each function of `radar_io.c` as an operator
  from a dgi's read or write record to the next. A ray is its time and the number
  of edits its data went through (`gen`): what a ray shows is told apart by that,
  and by nothing else the properties need. The fields of `struct rio_state`
  become `vol`, `path`, `swp_index`, `start`, `nrays`, `cursor` (gates, fields and
  scaling are left out). Sequences count from 1, C from 0: `start` is
  `sweep_start_ray + 1`, `swp_index` and `cursor` are as in the code.
* **DgiCalls**: several dgis making these calls in every order, the most general
  client; history variables `got` and `writes` are named as such. **MCDgiCalls**
  gives it values.
* **Catalog**: what a lookup answers, from the entries in readdir order, without
  a tree. **CatalogTree**: the trees of `dd_files.c`, with the insertions,
  descents and listings as recursive operators, and the rescan rule; its
  invariants say that it answers as Catalog does. The session modules use
  Catalog, so the trees are checked once and not in every session. Its sorted lists
  are `Ordered`, which says which entry has how many before it: that is what the
  proofs about sessions count with.
* **SoloSession**: frames, editor, undo and directory composed from RadarIO and
  Catalog. Event handlers are actions: `PlotFrames` (`displayq` with
  `solo_nab_next_file` inside), `Click`, `SelectFile`, `DoIt`, `EditRay`,
  `EndOfRays`, `EndDoIt`, `Replot`, `Undo`, `Escape`, `ResetTimes`, `FirstSweep`,
  `LastSweep`. Variables keep the source's names (`rescan_urgent` is `urgent`,
  `sweep_file_name` is `name`, `rio_req_sweep` is `req`). `se` is what dd_edd and
  its caller keep in `seds`, `usi` and locals.
* **AtomicEdits**: what a user is promised: a Do It is one step on one file, and
  the last few can be taken back. `DoItsAreAtomic` in SessionProperties says that
  SoloSession implements it: while a Do It is under way its snapshot stands for the
  file, however far the loop has rewritten it, and is not on the stack yet.
* **SessionProperties**: what a session must and must not do. **MCSession**: the
  directories and linkings of the runs.
* **RayEdit**: command lists on the rays of a sweep, gates as scaled counts in
  slots (`rio_read_ray` makes them of the file's values, `rio_write_ray` values of
  them). One action per C function: `AbsoluteValue` ... `RingZap` are
  `se_absolute_value` ... `se_ring_zap`. Physical values are counted in units of
  1/`UNIT`, so that scales and biases are exact; `TOP` is 32767 made small.
  **FieldEdits** is what the help says of the commands: named fields of values, no
  scales, slots or headers. **RayProperties** has the refinement and what holds of
  fields no command names. **MCRayEdit** has the lists.
* **GateFilters**: the commands that decide about a gate from its neighbours. An
  action is one turn of the scan's loop, with the running queues, the index and
  the window as in the code; the reference definitions (`InSpeckle`,
  `AveragesGatesAhead`, `WindowOfLastGates`) mention none of them. **MCFilters**.
* **Boundaries**: points, boundaries, free list and the ring as records of links,
  one action per button or click. **BoundarySets** says the same without pointers:
  a sequence of boundaries being drawn and the sequence of sets used.
  **BoundaryProperties** has the list invariant and the refinement. **MCBoundaries**.
* **BoundaryMask**: which gates a set of boundaries encloses: the four far corners
  that find out whether the radar is inside, then the crossings of the ray in order
  of range. Ranges are exact fractions; where a corner lies on the ray, the model
  takes any side, as floating-point may. The reference is the even-odd rule.
  **MCBoundaryMask**.
* **Examine**: the list of cells, the changes (`struct se_changez`) with their
  links, undo, clear, Apply Edits, refresh, and the sweep files under it. A file is a
  sequence of rays (time and gates) named by the times of its first and last ray, so
  Apply Edits rewrites the listed file only as long as both of those rays are kept;
  otherwise it makes a new file and leaves the listed one alone (`PathOf`, `Write`).
  Which file is edited and which one is listed afterwards is decided as in the
  session, through Catalog: the frame is moved to what was written
  (`PointedAtWritten`), and the list is read again from the latest version of the
  frame's start time (`Latest`). `rat` is the number of rays of the rotation table,
  which is that of the file read before when the columns of the list are counted.
  Writing does not fail here (it does in the session).
  **ExamineProperties**, **MCExamine**.
* **PaletteShelf**: the palettes and `palette_stack`, with the functions that look
  through it, move, make and relist as operators on it. A palette is its name, the
  set of fields it is usually used for and its items; an item stands for one entry
  of the window (`grid` for the colours, `range` for centre and increment).
  **Palettes**: the windows of the frames and the plots around it, one action per
  button, entry or click of `sii_param_menu_cb` and `param_text_event_cb`; the
  functions several of them call (`SetEntries`, `ProcessChanges`, `Update`,
  `SetParamInfo`, `Setup`) map one state of all frames to the next and are composed
  in the order of the calls. `orig` is `pd->orig_txt`, `ent` the text in the
  entries, `using` is `pd->pal`. **PaletteProperties**, **MCPalettes**.
* **IntegerSets**, **RadarIO_proofs**, **DgiCalls_proofs**: lemmas about sets of
  integers and about sweeps, theorems about the dgi calls. **GateFilters_proofs**: the
  filters (boundary, speckles, freckles, flags). **RayEdit_proofs**: the fields no
  command names. **PaletteShelf_proofs**: the stack.
  The sessions have two: **SoloSession_proofs** (shape of the state, volume being
  written, caches, listings, sweeps, what the files hold) and on it
  **SessionEdits_proofs** (edits of files of one sweep, the refinement of AtomicEdits,
  then how frames move between files and between the sweeps of a volume).

A command list is abstracted to what the loop reacts to: whether it marks the
sweep modified and whether it gives up (`Modifies`, `Punts`; the five kinds are
described there). Whether `solo_nab_next_file` rereads the catalog because its
use count reached the limit is a free choice (`rescan`); CatalogTree has the
count. A write may fail whenever `WriteResults` has FALSE.

## 3. Runs

Bounds are CONSTANTS of the modules and are named there.

| run | asks | instance |
|---|---|---|
| DgiCalls | reads in bounds, one image per pass, last written name exists | 2 dgis (one writing), a volume of two sweeps (2 rays and 1), requests below and above the range, seeks likewise |
| CatalogTree | lookups and listings agree with Catalog, the editor's descent with the display's, staleness bounded | all directories of up to `MaxFiles` files over small times and versions, in all orders |
| EditFiles | whole files, fresh caches | 1 frame, 2 files of one sweep, 2 Do Its with room for one snapshot, failing writes, all gestures that matter to it |
| EditLinked | a Do It edits what is plotted and is one step that its snapshot takes back, edits stack, replots show the disk | 2 frames sharing a sweep, the lead one edited; 3 Do Its with room for 2 snapshots |
| EditVolume | volumes are never rewritten, the frame follows the edit, every Do It ends, no sweep is passed over going forward, other files are entered at their first sweep, rays are left in the write state only by a list that gives up | a volume of two sweeps and a file, every kind of command that writes or fails, steps forward, all gestures on the time span, failing writes |
| GateFilters | scans agree with their definitions, touch nothing outside, end | rays of 5 gates over 3 values, all of them, with every boundary that is one stretch or all but one |
| RayEdit | every command does what the help says, other fields survive | some two hundred lists of 1 to 3 commands; 2 rays of 3 gates, fields of two scales, values beyond the range, 3 masks |
| Boundaries | lists intact, buttons as promised | 2 places, 4 points, 2 boundaries, a ring of 2, import files with a repeated point |
| BoundaryMask | the mask is what is enclosed | every boundary of 3 or 4 of 7 places, crossing itself or not, alone or with a second one; 7 rays and 4 of a time series |
| Examine | the list of changes, what is taken back, what is written and where, which file frame and list go on with | sweeps of 2 rays and 1 in files of their own, 3 gates, 3 changes pending, 1 commit; a short of 64 values |
| Palettes | a field keeps its palette, frames are drawn with their fields' palettes, palettes change by what is typed | 2 frames plotted on their own or linked, 2 fields, a stock of 1 palette, 2 items of 2 values, 6 gestures of every kind |

Two Do Its are the least that can stack, be undone in order, inherit a leftover
or meet a stale cache or name. `SE_UNDO_DEPTH` is 1 or 2 in place of 32 and
below the number of Do Its in EditFiles and EditLinked, so that the oldest
snapshot has to make room. Two rays a sweep are the least that can be
left half done; two sweeps the least that can be confused. The runs stop
checking deadlock because the bounds (`MaxDoIts`, `MaxWrites`) and the user may
stop a session; CatalogTree checks it, and so do Boundaries and Examine, whose
windows always accept some event.

Five gates let a filter with averages over two and windows of three meet a gap,
start over behind it and still have a gate left; thresholds separate the three
values. Three gates have a first, an inner and a last one, and two rays show what
one leaves to the next (flags, slots, parameters). In Boundaries two boundaries of
two points are the least that can be confused, and a ring of two wraps with the
third set; the view without addresses is sound because no action tells addresses
apart except through the free list, whose order the properties do not see. The seven
places of BoundaryMask put corners on rays, lines along rays and the radar inside
and outside. In Examine three changes are the least that make a removal from the
middle of the list, and 64 values are few enough for folds to approach the limits
(`ShortValues`; a fold of 4); the states after the last commit are checked and not
explored further. Of the two rays of the first sweep either may be deleted, so that the
output goes to the listed file, to one of a later start or to one of the same start, at
any place of the directory. Two commits with two changes pending hold as well
(`MaxCommits = 2`, `MaxChanges = 2`, `Operations <- MCFewOperations`; some 146,000
states): the second one works on the file the first moved the frame to, and on a list
whose columns were counted before.

In Palettes two frames on two fields are the least that disturb each other through
the stack, and six gestures let both windows be opened, one be typed in, hidden and
applied, and the other plotted. The same holds with seven (`MaxGestures = 7`, some
580,000 states), which takes several minutes.

Every type invariant is a conjunct of a list invariant (ListsIntact, ListIntact),
the TypeOK of DgiCalls, or defined beside the properties and checked while
developing by adding it to the cfg.

One run, PrevBoundary, finds a disagreement between the code and what it says of
itself, under fairness of the loop: with longs of eight bytes, "Prev Bnd Set" never
comes back, because the loops over a packed set step by the four bytes where a size
would be if a long had four. The Boundaries run has `LongBytes = 4` so that the rest
can be looked at.

Further ones are kept as configurations to be run by hand (they share their cause
with one another or are minor; `tlc -config StepBack.cfg MCSession` shows the
behaviour), each with a single property. Navigate is one that passes: the two properties about
steps forward again, for two frames in lockstep with sweeps of their own on a file, a
volume and a file.

| configuration, module | what happens |
|---|---|
| LeftoverRays, MCSession | a list that gives up after its first ray leaves that ray to the next output file: `FreshVolumePerSweep` fails, which `rio_write_ray` relies on ("a NULL wvol reliably marks the first ray of the next output sweep", `radar_io.c:749-751`); lists of the kind are suggested by the help (`help_edit.h:455-459`) |
| UnknownField, MCSession | editing an unknown field leaves an undo entry for nothing |
| FollowInVolume, MCSession | the frame does not follow the edit of a lone volume's first sweep: the search counts times and indexes versions |
| EditLaterSweep, MCSession | after stepping to a later sweep of a volume, Do It edits the first |
| UndoFromLinked, MCSession | a Do It from a frame that follows another is not undoable |
| StepBack, MCSession | a step back never stays within a volume |
| NewPalette, MCPalettes | items typed before a new palette's name, as the help says to (`help_param.h:89-91`), go to the palette the window had: the new one has none of them (`sii_param_process_changes` keeps using `pd->pal`) |
| LinkedPalettes, MCPalettes | a linked frame with a Parameter window of its own is drawn with the palette of the field it showed before (`solo_hardware_color_table` compares with what the window was filled with last) |
| RenameField, MCRayEdit | duplicate and ignore-field, which the help calls a rename (`help_edit.h:455-459`), lose the data, and the second ray gives up |

More disagreements have the same roots, and each shows when a constant of a
passing run is changed (and that property kept):

* EditLinked with `InitDir <- Volume` (and `InitFiles` with it):
  `DoItsAreAtomic` fails, because undo restores the volume, which was not
  edited, and leaves the file that was written; `EditsStack` fails, because a second Do It may open the volume again
  (it and the file written from it tie in time and version, so readdir order
  decides) and overwrite the first one's output.
* EditLinked with `Link <- NoneLinked`: `ReplotShowsDisk` fails, frames in
  lockstep with a sweep of their own replot from old caches.
* EditLinked with `"select"` among the gestures: `DoItsAreAtomic` fails, when a
  selection and a step that finds nothing precede a Do It and the snapshot is of
  another file than the one edited.
* Navigate.cfg with `InitDir <- TwoVolumes` and `"select"`: `NewFileFromItsStart`
  fails, the newly selected volume is entered at the old one's next sweep.
* After any Do It that wrote a file, one on an unknown field in another file
  moves the frame back to the file written first: the last written path outlives
  its Do It.

The gate commands, against FieldEdits, with the constants or lists of MCRayEdit
changed:

* shift-field between fields of different scale copies counts (`se_for_each.c:340`),
  and so does flagged-copy (`se_for_each.c:372`);
* rescale-field is right on the first ray only (`se_defrkl.c:75`): it has rescaled
  the header by the second;
* add-value into an existing field of another scale adds in the source's scale
  (`se_add_mult.c:225`); with a bias other than zero, add-value and absolute-value
  are off by it;
* a destination whose name begins the name of a present field is taken for it
  (`se_catch_all.c:57-92`; `Prefixes` holds such pairs);
* after ignore-field, a new field reuses the slot, which the writer leaves out;
* `DD_SCALE` adds half a count and cuts off, so negative values come out up to one
  count and a half high (`dd_defines.h:34-36`); FieldEdits allows for it.

The filters, with other constants of GateFilters.cfg:

* `que_size = 5` with a window of three: after a larger window was used once, the
  smaller one's queue wraps where the larger one did and `WindowOfLastGates` fails
  (`se_defrkl.c:829`);
* `deglitch_radius = 2`, `deglitch_min_bins = 2`: a glitch can be flagged before the
  window has reached its middle, outside the boundary (`FlagsGoodGatesInside`);
* a run that starts at the boundary although good gates precede it outside is a
  speckle, one that ends there is not: `InSpeckle` says so as the code does.

Boundaries, in the model as in the code: the first click of a second boundary
overwrites the origin all of them share (`se_bnd.c:232-239`); deleting a point by
key loses it to the free list; importing a boundary does not clear the others
(`sii_edit_widgets.c:1267`); a Do It that gives up leaves the first boundary the
current one (`se_proc_data.c:239`).

The examine window, with other constants of Examine.cfg:

* `"air motion"` among the operations: `WrittenAsShown` fails. The help offers it
  (`help_exam.h:36-38`) and the list shows it, but `sxm_apply_changez` has no case
  for it and the change is dropped;
* `FoldsMissing = TRUE`: folding a gate that holds nothing writes a value;
* without its allowance for `UnderRun`, `WrittenAsShown` fails: ignore a run, then
  fold its ray, and the list shows values again that the file will not have;
* changes name rays by number and go to the sweep plotted when they are applied,
  not the one listed; those beyond its last ray stay pending and block the refresh;
  a sweep all of whose rays are deleted stays as it was, and the frame goes to the
  file written last. All three are in the model; `WrittenAsShown` is about the
  sweep that is listed;
* with `EditsStayShown` among the properties: when only the last ray of a sweep is
  deleted, the file written has the start time of the listed one, and the list is read
  again from whichever readdir gives last. If that is the listed one, the deleted ray
  is back in the list, although the frame is moved and the cache dropped because
  "without this the refresh re-reads the unedited data and the changes appear to
  revert" (`sxm_examine.c:292-296`). What `WrittenAsShown` says of the frame is about
  directories without such pairs;
* after rays are deleted the refreshed list still has the old number of columns, as
  `sxm_ray_list` counts them before the file is read; those beyond its end repeat the
  last ray, and changes made there name rays a commit does not meet. The list is right
  after one more refresh. `WrittenAsShown` is about lists with as many columns as the
  sweep has rays.

Palettes, in the model as in the code:

* Cancel hides the window and leaves what was typed in it, which the frame menu's
  Replot, the toggle, or a color-bar broadcast from another frame then applies
  (`help_sii.h:46-48` says that Cancel leaves plot parameters unchanged);
* those three pass blank names for a frame that never had a window
  (`sii_set_param_info`), and the set-up of its plot substitutes a field by the
  frame's number: `t` in such a frame does not go back to the field before;
* only frames whose palette *name* is the same are marked for a change
  (`sp_accepts.c:443-453`): others keep what they were drawn with until they change
  field;
* each broadcast of a colour copies the grid color too (`sii_param_widgets.c:2359`);
* the menu item Electric Params reads a check button that the menu no longer has, so
  it can only turn immediate plots off;
* a replot of several frames ends by filling their windows again from what was
  plotted, so what was typed in another frame's window and not applied is lost.

The passing runs are on the instances these do not reach, and the cfg says so by
what it gives: EditFiles and EditLinked have only files of one sweep and no
`use_then_drop` (a list that gives up midway, after which neither `WholeSweeps` nor
`FreshVolumePerSweep` holds; EditVolume has it, and `OnlyGivingUpLeavesRays` says there
that nothing else leaves rays behind), EditLinked edits in the lead frame
only and has no selections and no unknown fields, EditVolume has a single volume and
no steps back; in Palettes `InStep` leaves out linked frames.

Fairness: `FairSpec` asks for weak fairness of `Processing`, the steps of a Do
It, and in GateFilters of the scan's turns (`LongSpec` in Boundaries, of the
loop's). The program justifies it by having one thread: once the button's callback
has begun nothing else is handled until it returns, and each iteration of the
loop that can be taken is taken. The replot that may follow is straight-line
code and one action. Nothing is assumed of the user.

## 4. Proofs

| theorem | for every | assuming |
|---|---|---|
| `DgisTyped`: Spec => []TypeOK | dgis, files, names, requests, bounds | |
| `ReadsStayInBounds`: Spec => []ReadsInBounds | the same | |
| `PassesReadOneImage`: Spec => []OneImagePerPass | the same | |
| `LastWrittenExists`: Spec => []LastWrittenOnDisk | the same | |
| `FiltersStayInside`: Spec => []OutsideUntouched | length of rays, values, boundaries, parameters | |
| `DespeckleRemovesSpeckles`: Spec => []SpecklesRemoved | the same | |
| `DefrecklingDeletesFlagged`: Spec => []DeletesWhatItWouldFlag | the same | |
| `FlagsAreGoodGatesInside`: Spec => []FlagsGoodGatesInside | the same | WindowFills |
| `SetPaletteKeepsOthers`, `NewPaletteKeepsOthers` | palettes, fields, items | |
| `RaysLeftByGivingUp`: Spec => OnlyGivingUpLeavesRays | files, frames, links, command lists | |
| `NoStaleCache`: Spec => []CachesFresh | the same | SweepShared |
| `FilesStayWhole`: Spec => []WholeSweeps | the same | FieldsKept, RecordedWhole |
| `VolumesStay`: Spec => VolumesUntouched | the same | FieldsKept, RecordedWhole |
| `EditsBuildUp`: Spec => EditsStack | the same | FieldsKept, RecordedWhole, OneSweepFiles |
| `ReplotsShowEdits`: Spec => ReplotShowsDisk | the same | the same and SweepShared |
| `DoItsAtomic`: Spec => DoItsAreAtomic | the same | RecordedWhole, OneSweepFiles, EditsAsPlotted |
| `EditsWhatIsPlotted`: Spec => []EditsPlottedSweep | the same | the same and SweepShared |
| `FramesFollowEdits`: Spec => FrameFollowsEdit | the same | FieldsKept, RecordedWhole, OneSweepFiles |
| `FilesEnteredAtStart`: Spec => NewFileFromItsStart | the same, volumes too | FieldsKept, RecordedWhole, no "select" |
| `StepsForwardInOrder`: Spec => ForwardShowsNext | the same, volumes too | RecordedWhole, FilesApart, ReplottedTogether, no "select" |
| `OthersSurvive`: Spec => []UneditedSurvive | fields, rays, boundaries, lists of commands | SlotsSuffice, NamesClear |

Every theorem also rests on the named assumptions on constants of the modules it
extends (`VolumesAssumption`, `FiltersAssumption`, `SessionAssumption`, ...), which
TLC evaluates in the runs. `DirectoryAssumption` (no name is listed twice) and
`PlotAssumption` (the plot commands are the four of the menu) are of that kind.

**What is assumed of a session, and why.** Each of these is there because the
property is false without it, or (OneSweepFiles for FrameFollowsEdit) because the
proof does not reach further:

* `FieldsKept`: no command list takes away the field it edits and gives up at the
  next ray (LeftoverRays). What is left then goes into the next output file, which is
  no longer a whole sweep. `RaysLeftByGivingUp` does without it.
* `SweepShared`: the frames edits come from share their sweep with all others, as
  they do at startup. A frame with a sweep of its own keeps its cache of a file
  that is edited elsewhere (EditLinked with `Link <- NoneLinked`).
* `RecordedWhole`: the recorded files are volumes of whole sweeps that are named
  after their times, as the writer makes them.
* `OneSweepFiles`: each file has one sweep. What is written of a volume is a file
  beside it, and the next Do It may start from the volume again (EditLinked with
  `InitDir <- Volume`).
* `EditsAsPlotted`: edits come from frames that lead their link (UndoFromLinked),
  name fields that exist (UnknownField), and the span is the one the plot set:
  nothing is picked from the list of sweeps, and First and Last Sweep are not
  pressed, between a plot and a Do It. The commands are `edit` and `survey`.
* No `"select"` among the gestures: a sweep picked from the list of sweeps leaves the
  number of the old sweep in place, and the next plot enters the new file at it
  (section 3, Navigate.cfg with `"select"`); a step forward then starts from there.
* `FilesApart`: no two recorded files overlap in time. A sweep of one that lies
  between two of the other is passed over, as the catalog knows only where files start.
* `ReplottedTogether`: no frame in lockstep with others is replotted alone. That
  takes it back to the first sweep of its volume and leaves the others where they
  are; a step forward in lockstep moves all of them by the lead's sweep. TLC finds this with three
  frames, linked or not, and it is why the theorem does not cover
  Navigate.cfg, whose volume of two sweeps is too short for it to show.
* `SlotsSuffice`, `NamesClear`, of command lists on rays: there is a slot for every
  field that the file has or the list names, and no name a list writes to begins the
  name of another field of the file, which the commands would take for it (section 3).
* `WindowFills`: `deglitch_min_bins` exceeds `deglitch_radius`, as with the values
  of the editor's help (6 and 3), and no larger window was used before. Otherwise
  gates outside are flagged (section 3).

EditLinked satisfies those of DoItsAtomic and of all theorems about files of one
sweep together. EditVolume without `use_then_drop` satisfies those of
FilesEnteredAtStart, as it is those of StepsForwardInOrder; GateFilters.cfg satisfies
WindowFills, RayEdit.cfg SlotsSuffice and NamesClear. So none is empty.

**The I/O shim** (DgiCalls_proofs). The inductive invariant `IInv` strengthens
TypeOK. ReadsInBounds alone is not inductive in what it needs: that the cursor stays
below `nrays` says nothing of the rays found there, so for every dgi with a volume
IInv keeps that `start` and `nrays` are those of a sweep the volume really has, that
`cursor` does not exceed `nrays`, and that the rays returned since the header lie in
that sweep; for a dgi without a volume, that what it returned carries one sweep
number. A volume replaced on disk changes no cached volume, which is why rewriting is
harmless to a pass; a header read clears the pass. For the writers it keeps that
an assembled volume is a sequence of rays and that a last path is of a file on
disk, which only grows.

The lemmas under it (RadarIO_proofs) are about the sets of sweep starts that the
code computes by walking: a nonempty finite set of integers has a least and a
greatest element (`LeastElement`, `GreatestElement` in IntegerSets), each rank below its size
is taken by one of its elements (`RankExists`, `RankIncreases`), so that
`SweepStart`'s CHOOSE names a start (`StartOfSweep`), sweep k is a nonempty run
of the volume (`SweepIsRun`) with no start inside (`NoStartInside`), and
carries one sweep number (`SweepHasOneNumber`). The clamp of `rio_read_header` puts every
request in that range (`ClampInRange`).

**The filters** (GateFilters_proofs). OutsideUntouched is not inductive: the two loops
over the leading average delete the gate they have come to without asking for the
boundary, relying on the average having got ahead within it. `IInv` adds
`LeadsInside`: while the leading average is compared, every gate from the one
compared to the last one averaged is inside, and that last one is still good, which
is why skipping bad gates cannot run past it. `NextInFirst` says what the scans'
search returns; there is a lemma for each loop. `SpeckleInv`
adds what is settled of the ray behind the scan: no speckle ends before it, and the
run it has come to starts where it was found. `FreckleInv` is
that the two passes go the same way (`Comes`): deleting comes from the start of the ray
to where it is, and while flagging runs, the state in which deleting was over, with the
gates it deleted as those flagged, is one that flagging is still on its way to; steps of
the scan are functions of the state, so it arrives there and nowhere else. `FlagInv` says
which gates the glitch window holds (`HeldInside`: each slot of the queue is bad or the
gate read so many steps ago, all of them inside), so that a window with enough good gates
has passed its middle and its middle is inside.

**Sessions.** The proofs go from the bottom up, and each layer is inductive relative
to those before it:

| invariant | says | needed because |
|---|---|---|
| `Shape` (SoloSession_proofs) | the read, write and editor states are records of their fields, `io` a function on the windows | every update by EXCEPT |
| `HaltBetween` | a halt is seen only between two sweeps | Escape is an event of the display: none is handled inside a Do It, so a halt that ends the loop finds the last sweep flushed |
| `WriteInv` | rays wait in the write state only between two rays of a sweep, with no halt asked for (under FieldsKept) | the volume being written must be the editor's sweep and nothing before it |
| `FreshInv` | caches are as on disk unless a Do It under way has marked the sweep modified | the disk is ahead of the caches in between, and its end drops them |
| `WholeInv` | files, snapshots and what windows hold are whole volumes, and the volume being written is the first rays of the editor's sweep, each edited once (`LoopOK`) | WholeSweeps says nothing of a volume half written |
| `VolumesInv` | volumes recorded, and snapshots of them, are as recorded | an undo must not bring back anything else |
| `StackInv` (SessionEdits_proofs) | files have one sweep, the editor's cache is the file unless this Do It wrote it | the edit is one further than the file, not than the cache |
| `InStep` | see below | the refinement |
| `ShownTogether` | all frames show the same sweep, that of the file they name | Do It reads the sweep info of one frame, the screen of another may be older |
| `WroteLast` | in a Do It over one sweep, the last path written is a file it wrote, and once it has written only an end of the loop follows | the frame is moved to the last path, which outlives its Do It: it must be of this one |
| `NamingInv` | every file a frame names or lists is on disk, and the volume a window holds is that of the name in it | whether a file is another one is decided by name, whether it is read again by what the window holds |
| `AsRecorded` | until the first Do It, disk and directory are as recorded, every frame shows the sweep its lead holds, and leads of frames in lockstep hold the same sweep of the same file | a step counts sweeps of the lead's volume and shows them in all frames |

The lemmas of SoloSession_proofs answer what the listings return (`SearchFinds`,
`OneListed`, `EntireListed`: from `Ordered`, the definition of the sorted lists in
Catalog, by counting), where sweeps of a whole volume begin and end (`SweepEdges`), and
that a sweep of it rewritten ray by ray is a whole volume (`SweepRewritten`).

**What a Do It leaves behind.** `RaysLeftByGivingUp` needs only `Shape` and
`HaltBetween` (`RaysLeftBehind`, one case for each way the loop ends): at the end of a
sweep `SweepEnded` frees the volume whether or not it could be written, and the loop's
other ends come after such an end, except where the list gives up. The handler of
SIGINT that would set the flag in the middle of a sweep (`dd_intset`) is installed by
a translator only (`piraq_dd.c`).

**A Do It as one step.** `DoItsAtomic` is the refinement of AtomicEdits. Its mapping
shows the user the snapshot in place of the file while a Do It is under way, and the
stack without that snapshot (`FilesSeen`, `SavedSeen`). `SessionStepsSeen` goes
through the actions: `EndDoIt` is the visible step, an `Edit` if the sweep was
written and a `FailedEdit` if the snapshot stays though nothing was; a stutter if the
snapshot is discarded;
`DoIt` makes room (`Forget`) when the stack is full and is a stutter otherwise; `Undo` is
`TakeBack`; `EditRay`, `EndOfRays`, plots, clicks and replots are stutters, although
they rewrite the file. For that the top of the stack must be a snapshot of the very
file the loop rewrites. `InStep` says so, and what it takes: `FilesRemain` (the
directory is as recorded, an edit rewrites a file that is there), `OneSweepHeld`,
`FramesInStep` (every frame names a file of the directory and its editing window
spans that sweep, so the listing of the span is that one file, `OneToEdit`),
`UndoBounded`, and `DoItInStep` (since its snapshot, the file of a Do It holds either
the snapshot or the snapshot edited, according to `se.wrote`; and the last path
written, by which EndDoIt decides what to keep, is that file's). TLC checked these
invariants on EditLinked before they were proved.

**Moving between sweeps.** `ForwardShowsNext` compares what is drawn with all sweeps
on disk, while the code compares a sweep's number with the volume's count, and a file's
start with the catalog's. The proof goes from one to the other in two steps. Within a
volume, sweep k + 1 is the next in time because a recorded volume's rays are in order
and its sweeps are runs of it (`SweepEdges`, `FirstStart`). After the last sweep,
the catalog's next file is the next in time because files do not overlap: one that starts
after this file starts has all its sweeps after all of this one's, and its first sweep
is the one its name is of. A step that finds no later file leaves what is drawn.
`AsRecorded` is what makes the numbers of one frame mean sweeps of another.

**Fields no command names** (RayEdit_proofs). `UneditedSurvive` is about what is
written, and follows from `WrittenAsRead` once a value read is known to come out of its
counts to half a count. `RayInv` has what keeps the place of a field: slots in use have
names of their own (`SlotsNamed`), so a lookup finds the one it is for; fields spared
are in the slot of the file, as this ray brought them (`InPlace`); and the rays written
are those read (`Aligned`). The last is the hard one: a ray is written only when the
list has marked the sweep, so what is written is in step with what was read only if a
list that has not marked it on its first ray never does. It does not, because the
commands that mark nothing are the same on every ray as long as no field appears or
disappears. There is one lemma for each kind of command (what it writes is its
destination's slot, or a free one), and `SlotsSuffice` is what gives a new field a free
slot.

**Palettes** (PaletteShelf_proofs). Two theorems about the stack.
`SetPaletteKeepsOthers`: the lookup of a field for a plot
(`sii_set_palette`), which moves its palette to the top or makes one, leaves every
field that has a palette with that palette. `NewPaletteKeepsOthers`: choosing a
palette for a field (`sii_new_palette_for_param`), known by its name or new, gives the
field that palette and no other field another. Both keep `ShelfOK`, which is what
they need of the stack they start from: every palette has one place in it, and no
field is listed by two palettes. Without the second part they are false, as the place
in the stack would then decide. They are the steps behind `ChosenPaletteStays`, which the
run checks for whole sessions; to prove that for `Spec` as well, the folds over
frames in a plot (`FoldLeft`, which is recursive) would have to be unrolled by
induction, which is out of the prover's reach.

**Only model-checked**, and why:

* liveness (`DoItReturns`, `FiltersFinish`, `SetsComeBack`): fairness and ENABLED are
  out of the prover's reach;
* CatalogTree and Boundaries: their trees and lists are read by RECURSIVE operators,
  and what those compute needs induction over data;
* `AveragesGatesAhead`, `WindowOfLastGates`, `UnfoldsNextToAverage`: they sum or pick
  gates by folds and sorted sequences, which need the same induction;
* the refinements `ButtonsKeepPromises` and `CommandsKeepPromises`, and
  `ChosenPaletteStays` with its companions: recursion over lists, frames or commands;
* `ListIntact`, `TakenBackIsUntouched`, `WrittenAsShown` of the examine window: clear
  and Apply Edits go through the pending changes by folds, so what they leave of the list
  and of the gates needs induction over the list. Undo of one change and new ones could be
  proved to keep `ListIntact`, but not the specification;
* `CornersAgree`, `FlagsEnclosedGates`: they count crossings of a boundary's sides by a
  fold, and need facts of plane geometry (the parity of crossings along a ray) that the
  libraries do not have.

## 5. Hazards

PROJECT.json lists them by line with the properties that cover each; those with
a note have none: the halt flag that outlives its event, undo's copy failing at the
limit, a header that fails between two sweeps, the
last written path that outlives its Do It, and changes applied to a sweep other than the one listed. The
notes say whether the behaviour is in a model and what keeps it from having a
property.

## 6. Plan

Done: the modules of section 2, their runs, the theorems of section 4. Left, in
this order:

1. Proofs: `FrameFollowsEdit` for volumes; `CornersAgree`; the staleness bound of the
   catalog from a module without recursion; the single steps of the examine window's list.
2. The rotation table of `rio_read_header` and its 480 bins, with the ray lookups of
   the click.
3. Changing links and lockstep during a session; a directory that other programs
   write to and delete from; header failures between sweeps; a snapshot whose copy
   fails at the limit.
4. Ranges worked out from one another and palettes read from a configuration file
   in the Parameter window; the View window's centering and its links.
5. Several fields and scrolling in the examine window; time series boundaries across
   sweeps.

## 7. Not modelled

* View and configuration windows, colours: they hold widget state. What other parts
  read of them (which frames share a sweep) is a constant of SoloSession. Of the
  Parameter window: color tables, named colors that do not exist, labels of the color
  bar, and reading and saving palettes.
* Raster and rendering (`sp_basics.c` below the ray loop, `dd_rng_info.c`):
  pixels; nothing reads them back.
* DORADE, UF, SIGMET, NEXRAD and other translators (`translate/*_dd.c`,
  `dorade_ncdf.c`, `dd_crackers.c`): byte layouts, one stream in and one out, run
  from the command line; a model of them would be their text again. They are more
  than half of the source lines, which is why the map covers a small share of it.
* Histograms, surface tweak, storm motion and the airborne corrections
  (`se_histog.c`, `se_ac_*`, `se_catch_all.c`): floating-point sums and
  trigonometry over header values.
* Parsing of command lines, text formats of boundary and configuration files.
* Loading a window configuration, which sets the number of pending changes of the
  examine window to zero and keeps the list (`sp_save_frms.c:536`).
* Sources that no target of the build compiles.
