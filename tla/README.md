# fm_psx in TLA+

fm_psx is a two-panel file manager for the PS3.  This directory models its core in
TLA+: the table of devices that can be unplugged at any moment, the file list and
the browsing of the panels, the copy of one file between any two kinds of file
system, the copy and delete jobs over whole trees, the main loop with the pad that
drives it and the dialogs and the keyboard it waits for, the texts it converts, and
what a frame shows.  TLC checks every model on small instances; TLAPS proves, for
all sizes, every invariant and every action property the passing runs check, and
both refinements.

`PROJECT.json` lists components, runs, mutants (one plausible bug per property that
the property must catch), the source lines of every definition, the findings and
the hazards.

## The system

The program has one thread.  It runs a loop of frames (`fmapp_run`): read the pad,
probe the devices now and then, obey one command, draw.  What acts beside it is the
user (who plugs devices and answers dialogs), and the system, whose callbacks run
inside `sysUtilCheckCallback`.

| Component | State | Operations | Talks to |
|---|---|---|---|
| Device table (`fsutil.c` 28-382) | `rootfs[]`, `fs_fat_k`, `fs_ntfs_k`, `fs_ext_k`, the NTFS mounts | `rootfs_probe`, `_attach_fs`, `_detach_fs` | fflib, FatFs, libntfs; read by the panels' scans |
| Panel list (`fm.c` 1122-1396) | doubly linked list, `current`, `current_idx`, totals | clear, add, scroll, locate | filled by the `*_scan_path` functions |
| Panels (`fm.c` 62-156, `fmapp.c` 713-855) | per panel: path, history, list; which one is active | enter, exit, scroll, switch, new directory, rename, delete, copy | list, jobs, device table |
| File copy (`fm.c` 237-555) | two open files of three kinds, buffer counts, `ret` | open, read, write, close, remove | FatFs, sysLv2Fs, libntfs; progress bar |
| Jobs (`fm.c` 557-733, 875-1098, `fsutil.c` 152-200, 570-759) | the list of entries, `ktr` | scan, ask, copy or delete one by one | file copy, dialogs |
| Dialogs (`util.c` 97-363) | `dialog_action`, `progress_action`, `prev_prc0/1` | ask, show, update, callbacks | system dialogs |
| Keyboard (`osk_input.c`) | `osk_event`, `osk_unloaded`, `osk_action`, container, callback | `Get_OSK_String`, `my_eventHandle` | system keyboard |
| Pad (`pad.c`, `util.c` 22-53) | `old_pad`, `new_pad`, repeat counter | read, edge, repeat | main loop, keyboard loop |
| UTF conversion (`util.c` 524-611) | - | `UTF16_to_UTF8`, `UTF8_to_UTF16` | keyboard |
| Fonts (`libfont.c`) | `font_datas`: the current font, size, colours, centring, line breaks | the setters, `DrawString` | drawing |
| Drawing, status lines (`fm.c` 26-59, 1144-1228, `fmapp.c` 857-895) | `s_msg`, `c_msg` | `fm_panel_draw`, `fm_status_set`, `fm_status_draw` | list, fonts |
| TrueType glyph cache, font data, debug console | cached glyphs, arrays | output | - |
| fflib, FatFs, libntfs | binary libraries | - | - |

What is hard here: devices that change between two steps of a probe or while the
panels stand in them; three file systems with three ways to report an error; copies
with a fault at any call; a job that works on a tree it is changing; events that come
grouped in any way.  What makes each part correct is stated in the modules and
summarised below; `PROJECT.json` lists 40 hazards at their lines.

## The modules

**RootFs** is the device table.  A row of `table` is a row of `rootfs[]`; the FAT
row's name carries a drive number (`fat<n>`), the NTFS row its mount name.  One probe
is a sequence of actions, one per row: the first loop drops rows (`DetachKeep`,
`DetachFat`, `DetachNtfs`, `DetachDone`), the second fills free rows (`Attach...`),
and `Plug`/`Unplug` may come between any two of them.  `ReturnToRoot` scans the list
of devices when a panel comes back to it; `SwitchToRoot` is L1 or R1 to a panel that
shows it, which scans nothing.  `drive` is what fflib has
assigned, `vols` what libntfs has mounted, `mounts` what the program remembers of it.  `fflib_attach`, `fflib_detach`,
`f_opendir` and `ntfsMountDevice` are external.  The EXT branch is dead code.

**FileList / PanelList**: `FileList` is the promise, a sequence with a position in it
(`Insert`, `Clear`, `Move`).  `PanelList` is the code, cells with `next` and `prev`,
the pointers `entries` and `current`, the number `current_idx` and the totals, whose
integers have the width `SizeRange`.  The refinement maps the chain of cells to the
sequence and the pointer to the position.

**Font / Screen** (with `MCScreen`) extend `PanelList` by what a frame shows of it.
`Font` has the settings of `font_datas` with the setters as functions on them, and
`DrawString` as the set of cells a text covers, with its centring and line breaks.
`Screen` has `fm_panel_draw` (title, the window of rows that scrolls with the
selection, names and sizes cut to their columns, totals), the status lines, and
`fmapp_render`, which leaves its settings to the next frame.  Texts are sequences of
character codes because their lengths and spaces decide where they are drawn.  The
program is also built as a library that runs after other modules: the first frame
starts with whatever fonts they loaded and settings they left (`LeftSettings`), the
depth of texts and their second texture included, which no function here sets.  A
message is drawn as it is, however long.

**Navigation / Panels** (with `MCPanels`): `Navigation` is browsing: go into a
directory, back to where you came from, or home.  `Panels` has both panels with their
histories and the tree of directories, and every command of `fmapp_update` with the
reload it ends with: copy reloads the other panel, delete, rename and new directory
the active one.  The constant `Disturb` allows unplugging and delete.  Copy and delete
make any outcome that a job with failing calls can make (module `Job` says how).  A
panel's list is some listing of the directory: sorted when there are only
directories, in any order when a file came first (that is what `PanelList` shows the
code does).  Dereferencing `p->current` when it is NULL sets `crashed`.

**FileCopy** is `fm_file_copy` for every pair of file systems: open, the read/write
loop, close, unmount, with every call able to fail or to be short, the widths of the
counts included (`br` is 64 bits, the FAT count 32).  `hit` records the kinds of
faults that occurred, so that a property can say "without a fault of this kind".

**Job** is `fm_job_copy` and `fm_job_delete`: the recursive scan with an explicit
stack `todo`, the question, then the list worked from the front (copy) or from the
back (delete).  Any call may fail; `failed` records for which entry.  What
`fm_file_copy` makes of one file is the outcome module `FileCopy` describes; between
two NTFS drives it may also go on for ever (`CopyEndless`) until a call has another
result or the user cancels (`EndlessStop`, which nobody has to do).  Paths are written
into buffers of 255 bytes: the constant `Long` is the set of directories whose path
leaves no room for a name.  What they hold is scanned as the directory once more
(`ScanCut`), and a directory in them without end (`ScanLost`).

**Utf** has the two conversions of `util.c` as operators on sequences of codes, with
their error exits, next to the encoding they should give (`EncodedText`).

**Pad** is `ps3pad_read` (what is new since the last read), `NPad`, `PPad` and `APad`
with the one repeat counter that UP and DOWN share, and the chain of tests of
`fmapp_update`, of which the first that holds is the frame's command.  `served` is a
history variable: the buttons whose present press was a command.

**Dialog, Osk, App** (with `MCApp`): `Dialog` has the flags, callbacks and bars of
`util.c`; `Osk` has `Get_OSK_String` with the texts it converts with `Utf`; `App`
composes both with `Pad`, the main loop and a job's skeleton of updates and checks.
A dialog may fail to open, which the program does not notice: then nothing is shown and
no callback comes.  A text is written into the array of the caller, of `CBSIZE` bytes;
one that is too long ends the keyboard's part of the model (`"overrun"`).  A copy of one
file has chunks, chunks that are errors (`ErrorChunk`), and may end early (`NoWork`,
`EndFile`); the scan before a question may have no end (`AskLost`).  A
callback only runs in `sysUtilCheckCallback` (the program has one thread), but the
events pending then may be several and an event can overwrite the one before it.
What the callbacks leave behind depends on the last event only, so a round of
callbacks is one step that takes the last one pending (`LastButton`, `Reported`).
While a dialog is shown the pad is not read: the button that answers it is held in
`butt` and may be new to the next frame.

**Extrema** has lemmas about least and greatest elements, minima and maxima, for the
proofs.

## The runs

| Run | Bounds | Shows |
|---|---|---|
| `RootFs_free` | 2 rows (a port each), 2 partitions on a NTFS device | counters count the rows; each NTFS volume mounted is in exactly one row; the list on the screen is the table |
| `RootFs_calm` | 3 rows, 1 partition, `Calm`, fair probes | FAT numbers stay dense and bound to their device; nothing plugged in is dropped; dead rows go; NTFS devices that stay get listed |
| `RootFs_NoFalseDetach` | without `Calm` | violation, see Findings |
| `Screen` | 4 cells, 4 names, panels of 10 by 4 characters on a screen of 20, 20-bit sizes, a message longer than the screen, fonts and settings of another module | links, index, totals, refinement of `FileList`; the selection is on the screen; texts stay in their panel and messages in their line; a frame looks the same whatever settings it finds, but for those that are never set |
| `Panels_steady` | a FAT tree three deep, 5 directories at most, `Disturb` off | the history is the way back; exit selects the directory left; refinement of `Navigation` |
| `Panels_disturb` | a NTFS device with an empty directory, and the system file system, which has a scan error; 4 directories; rename, delete, unplug, copies that do part of the job | the selection stays in the list; what a command changed is in a panel that was read again; CIRCLE leads home |
| `Panels_NoCrash` | the FAT tree and an empty NTFS device | violation, see Findings |
| `FileCopy` | 5 units, a buffer of 2, "32 bits" = 8, "64 bits" = 32 | success means copied, no partial file, everything released, it ends |
| `FileCopy_works` | same | violation |
| `Job` | small trees on one of four file systems, two of them FAT, and an entry of the same name on another; NTFS to NTFS; a directory whose path fills the buffer (`MCJob`) | deletes and copies exactly what was selected, less what calls failed for; ends, also into itself, but for the two cases without end |
| `Job_same` | same | violation |
| `App` | 2 entries, 2 chunks, 5 buttons one held at a time, an array of 15 bytes, texts at the limits of the encodings and of the array | answers, cancels and texts belong to the dialog they were given in; a press is one command; everything returns, but for the waits without end |

The bounds are the smallest at which the interesting case happens: two FAT devices
are needed to take one out of order and three to keep a number in use between two
others; four cells put a directory before, between and behind others and a file
after, and are more than a panel of four lines shows, so that it scrolls; its names
and path are longer than their columns, and one size is larger than its column, as
in the code, and one unknown; a file of five units has a full, a full and a partial
buffer; the narrow counts are smaller than what `-1` becomes in the wide one, and
larger than the buffer, as in the code; a second entry shows what is left over from
the first, and a second chunk what happens between a cancel and its check; the texts
have the first and the last character of each length in UTF-8; the one typed just fits the
array, and the array that was not written may hold bytes that are no text and that come
back, corrected, one byte too long.

`CHECK_DEADLOCK FALSE` stands where the program really stops: `Panels` (it may
crash), `FileCopy` and `Job` (they return) and `App` (the user quits).

Fairness.  `RootFs`: the monitor's probe is called again and again
while the device list is shown (`fmapp_update`, every `AUTOMOUNT_FREQ` frames); the
user is not fair.  `Panels`: a CIRCLE that is pressed is taken by the frame that
reads it; nothing else is fair.  `FileCopy` and `Job`: the functions run; the user
answers the question.  `App`: the program runs, a question is answered some time, the
system's keyboard is used and reports; nobody has to cancel a job, and nobody has to
press or release a button.  That a copy between NTFS drives sees only errors for ever is
an exception of `Returns` and of `Terminates`, not an assumption.  `Screen` states no liveness.

## What is proved

`RootFs_proofs` proves, for every number of slots, ports and partitions:

* `TypeCorrect`, `CounterCorrect`: `TypeOK` and `CounterInv`, for any user.  The
  induction needs `PcInv` (during a probe, the loop's index and the row it looks at):
  the counters are cardinalities of sets of rows, so each attach and detach is a fact
  about adding or removing one element of a finite set, stated as lemmas.
* `FatDenseCorrect`, `NoFalseDetachCorrect`: with a calm user.  `FatInv` says that
  the FAT rows' drive numbers are exactly `0 .. fs_fat_k - 1`, each assigned to the
  device of its row, and `DeadLast` that the rows whose device is gone are
  the last ones attached, which is what makes the counter a free number.  Without
  `Calm`, `RootFs_NoFalseDetach` is the counterexample.  Calm users unplug FAT devices
  between two probes, the last one attached first.

* `NtfsBalancedCorrect` and `ListingFreshCorrect`, for any user.
  Balance is kept row by row (`RowBalanced`): a step touches one row, whose volumes are
  either all new or all its own, and the others' stay apart.  `FreshInv` says of the steps
  within a probe that the listing is that of the table as long as the flag is zero.

`PanelList_proofs` proves, for any number of cells and names, any sizes and any width of
the totals:

* `ListTypes`, `AlwaysLinked` and `AlwaysSelected`.  Together they are inductive (`IInv`):
  that `entries`, `next` and `prev` are the two directions of one sequence of exactly the
  cells allocated (`Linked`), and that `current_idx` is the place of `current` in it.
  `fm_panel_add` walks to the place and relinks up to three cells; each of its cases is a
  lemma (`BeforeLinks`, `AfterLinks`, `DirLinks`, `FileLinks`) that the result is linked as
  the sequence with the new cell in that place (`Into`).
* `RefinesFileList`: the same sequence, with the place of the selection, takes the steps
  of `FileList`.  An entry goes where the order says, also into a list whose first entry
  is a file (`StaysSorted`, `PlaceInOrder`).
* `AlwaysExact`: the totals are counted in the order the entries were read, and the total
  of sizes wraps around; the property sums over the list.  The lemmas are that the sum over
  a finite set takes its elements in any order (`TotalPick`, `TotalAny`), and the
  arithmetic modulo the width (`ModAdd`), with the byte that a file of unknown size
  takes (`SizeMod`).

`Screen_proofs` proves, for panels of any size and any texts:

* `ScreenList`: frames and status lines change nothing of the list, so that the theorems
  about it hold in every frame.
* `AlwaysShown`: the selection is in the window.
* `AlwaysSame`: each frame sets what its texts rely on, except the fonts, the depth and the
  second texture.  `LeftAssumption` says what a module that ran before may leave: any
  bitmap fonts and any settings.
* `AlwaysInside`: texts that are cut stay in their panel.  `PlainText` is the lemma on
  `DrawString`: a text that is neither centred nor broken takes one line of at most eight
  pixels a character; the rest is to find the settings each text is drawn with (`Own`:
  the program's own, for any colour) and to add up columns.  `TextInPanel` excepts what the
  code draws elsewhere: line breaks in names, paths and messages, sizes wider than their
  column, and the end of a message longer than the screen is wide; a message stays in its
  line all the same.

`Job_proofs` proves `DeletesCorrect`, `CopiesCorrect` and `ConfinedCorrect`, for any trees,
of any depth, and any calls that fail.  The properties speak of the end of a job.  On
the way (`IInv`):

* While directories are read, each path below the source is in the list, lies below a
  directory that could not be read, or below an entry of the stack (`Stack`); what the
  stack holds and what is listed stay apart.
* Each entry of the list comes behind the directories around it (`ListInv`).  So a delete, from the back, finds a directory empty
  unless a call failed in it, and a copy, from the front, finds the directory it
  copies into.
* During the work, what has been done is what is before `ktr` (`CopyInv`, `DeleteInv`).
  A copy that goes into its own source ends, and copies what was there before, because
  the list is complete when the first copy is made, and no two entries go to the same place
  (`ToInjective`).
* The test for "the same file" never holds (`NeverSame`, the fourth finding), which a proof
  about copies has to know.

* A scan or a copy without end (`"lost"`, `"endless"`) never comes to the end the first two
  speak of; what the endless copy of a file has made so far is in the place copied to
  (`EndlessAt`).

`DisksAssumption` says that a file system is a tree: the directories around an entry are in
it, and no name is empty.  Nothing is assumed of `Long`.

`FileCopy_proofs` proves `TypeCorrect`, `SuccessCorrect`, `NoPartialCorrect` and
`ReleasedCorrect`, the four invariants of the run, for every length, buffer size and
width of the integers.  The properties speak of `pc = "done"` only, so the induction
needs what is true on the way: `LoopInv`, what was written is what was read, less the
chunk in the buffer, and the one count that is not a chunk is libntfs' -1, which is
beyond any buffer (`SizesAssumption`); `OpenInv` and `MountInv`, what is open and
mounted at each place, and that a FAT file that was made is on a mounted drive, so
that it can be removed; `EndInv`, what is known after the loop with and without an
error.

`Panels_proofs` proves, for any finite set of names, any tree of directories and any
devices:

* `TypeCorrect` and `SelectionCorrect`, for every command and every disturbance.
  `PanelsInv` adds that the tree is one of paths and entries: the lists are read from
  it, and rename, copy and delete must keep it so.  A list is a bijection with the
  entries read, so the selection is found in it by a least position (`Extrema`).
* `HistoryCorrect` and `NavigationCorrect`, for `Steady`: nothing is unplugged, deleted
  or renamed.  The history is extended only when the scan succeeds, and the path
  always, so the induction needs that a directory that is listed can be read:
  `BrowseInv` has, beside `HistoryInv`, that the tree has every directory it names
  (`Complete`) and that every directory on the screen is in it (`ListedExists`); copies
  and new directories only add to it.  Then each step appends a name to one path, takes
  one away, or leaves both: the steps of `Navigation`.
* `OriginCorrect`, for `Steady`: leaving a directory finds its name in the list of the
  parent.  `OriginInv` says that each directory on the way to a panel's path is still
  listed by the one around it.
* `ResultCorrect`, for every command and every disturbance: where the tree changed, a
  panel was read again.  What a job may change lies below the directory of the panel it
  works on, by lemmas on prefixes of paths; and the disks are a function (`Solid`), so that
  they are equal when they agree everywhere.

`App_proofs` proves, for any buttons, texts, number of entries and chunks:

* `TypeCorrect`.
* `OskOutcomeCorrect`, `OskReleasedCorrect`.  `OskInv` says what is held and what the
  keyboard may still report at each place (`OskPlace`), and in the loop, how the event
  in the flag and those to come determine what the user chose (`OskLoop`).
* `OskTextCorrect`, for texts that fit the array, of any size (`CBSIZE`).  `OskTexts`: until
  the user types another text, the one in the keyboard is what the array's was converted
  to.  What the conversions themselves do is proved for texts of any length: `ToBytes`, UTF16_to_UTF8 of a text without surrogate pairs is its encoding, and
  `FromBytes`, UTF8_to_UTF16 of any encoded text is the text.  A loop over a text is put
  together from pieces, each with the place of the next one (`Rests`); `EncodedPlaces` says
  where the bytes of each unit stand, `OneUnit` that there they are read as that unit, and
  `FrontIsRest` that the pieces give the same text from either end.  `TextsAssumption`:
  bytes and units are not 0, which ends a text.
* `ConsentCorrect`, `CancelHonouredCorrect`, `BarsExactCorrect`.  `DialogInv` says which
  dialog may be shown at each place, if it could be, that the calls to come are those of this question's or
  this job's button (`AnswerInv`, `CancelInv`: none is left of an earlier one), and that
  the bars and the percentages in the program are reset together (`BarInv`).
* `OncePerPressCorrect`.  `PadInv`: a button whose press was served is still held and
  was seen by the last read, so it is not new again before it is released.

The assumptions are the named ones on the constants: `TreeAssumption` says that the
devices' roots are directories of the tree, that the tree is a function and has each
directory it names; `Steady` is the hypothesis of the theorems that need it.

Two forms come back in all of the proofs.  Induction over numbers is by the least or the
greatest counterexample (`Extrema`), because the provers cannot instantiate an induction
rule.  A recursive function (the walk along the list, the sums, the pens of
`DrawString`, the conversions of texts) is a CHOOSE: its value is given in closed form, shown to solve the
equation, and every solution is shown to agree with it.

Only model-checked:

* liveness, which is out of the prover's reach: `DeadEntryRemoved`, `NtfsListed`,
  `CircleLeadsHome`, `Terminates` of `FileCopy` and of `Job`, `Returns`.

## Findings

With a run:

1. FAT drive numbers are counted, not allocated: taking out the first of two FAT
   devices gets another one dropped from the table (`RootFs_NoFalseDetach`).
2. Commands dereference a NULL selection in an empty directory (`Panels_NoCrash`).
3. A copy from one FAT drive to another FAT drive always fails: the destination is
   not mounted (`FileCopy_works`).
4. The "same file" test never holds: a copy into the same directory opens its own
   source for writing (`Job_same`).

Met while modelling, and written as exceptions into the properties: NTFS answering
-1 to both read and write copies for ever (`Terminates`, `Returns`); a directory below one
whose path is 253 or 254 bytes long is scanned without end (`Terminates`, `Returns`); a
question that `msgDialogOpen2` fails to show is waited for for ever (`Returns`); a text
from the keyboard is written into an array of 256 bytes whatever its length (`OskText`,
`Returns`); a partial file stays on
NTFS (`NoPartialFile`); the result of close is ignored (`SuccessMeansCopied`); an
early return leaves a FAT work area of a dead stack frame mounted (`Released`); the
first file of a list may go before directories (`FileList`); a NTFS device swapped
between two probes is not noticed (`DeadEntryRemoved`); after a device change the
panels go home but keep their histories (`ImplementsNavigation` is checked without
such changes); a file of unknown size takes a byte from the total (`TotalsExact`); a
size of more than four digits in its unit, an unknown one first of all, runs out of
the panel on the right, and a message with a long path out of the screen (`TextInPanel`);
the depth and the second texture of texts are never set (`FrameSame`); surrogate pairs are converted wrongly
(`OskText`); the keyboard's start text is what the stack held (`OskText` lets it be
anything with an end); a button that answered a dialog and is still held is a new press
for the next frame, once (`OncePerPress`).

## Not modelled

* A cut within a name, where a path does not fit its buffer: paths are sequences of names,
  and which name a cut leaves is a matter of single characters.  The cut that leaves
  nothing of the name is `Long` in `Job`; `Panels` has none.
* What lies behind the array that a text from the keyboard overran.
* Rectangles and colours, the debug console (`DPrintf`, `_FPS`) and log messages: output
  that nothing reads.
* The TrueType renderer and its glyph cache: `ttf_render.c` is linked, but every text is
  drawn with a bitmap font.  The fonts themselves are arrays of data.
* The timed dialogs, `OKDialog`, the single progress bar, `fm_job_list` and `file_run`,
  which nothing calls, and the EXT branch of the probe (`fs_ext_k` is never raised).
* The frame counter of the automount monitor: the probe may come in any frame, and
  comes again and again.
* The rumble motors of the pad, which nothing turns on.
* The end of the keyboard's start text: an array without one is read beyond its bounds.

The libraries come as binaries; they are modelled as external, from how the code
uses them: FatFs opens files on mounted drives only, fflib assigns a drive number to
a device, libntfs mounts all volumes of a device, a dialog reports one button, the
keyboard reports FINISHED or a cancel and UNLOADED when it was asked to go.

## Plan

1. Done: `RootFs` and `FileCopy` with their proofs; `PanelList`/`FileList` and on top of
   them `Font` and `Screen`; `Panels`/`Navigation` with all commands, and their proofs;
   `Job`; `Utf`, `Osk`, `Dialog`, `Pad` and their composition `App`, with its proofs.
2. Left: the composition of `App`, `Panels` and
   `RootFs` in one module, whose product is beyond TLC for sizes at which anything new
   happens.
3. Proved: what "What is proved" lists, which is every safety property of the runs.
