# rofi: TLA+ models, model checking and proofs

This directory holds TLA+ specifications of rofi (`src/`), the configurations
with which TLC checks them on small instances, and proofs that TLAPS checks for
every size. It covers what unit tests of rofi hardly reach: threads, the main
loop with its timers and idle sources, and long sequences of user actions.

All line numbers refer to the files under `src/`; `view.c` without a directory is
`source/view.c`. `PROJECT.json` maps every definition to the lines it models.

## 1. The system

rofi shows a list of rows, filters it while the user types and does something
with the chosen row. One process, one GLib main loop on the main thread; next to
it a thread pool for filtering (`tpool`, view.c), one for icons
(`rofi-icon-fetcher.c`), and a thread per asynchronous source of rows (dmenu, the
recursive browser).

```
 display server --events--> backend (xcb/*, wayland/*) --> view.c --mode_result--> rofi.c
                                  ^        ^  |  |                      (process_result)
            redraw, reload sources|  timers|  |  +--jobs--> pool (filter)
                                  |        |  +--queries--> pool (icons)
 stdin --> reader thread --queue, pipe--> modes/dmenu.c --rofi_view_reload--+
```

### Inventory

| component | state | operations | interacts with | hard behaviours | what makes it correct |
|---|---|---|---|---|---|
| parallel filter (view.c 419-489, 765-906) | `line_map`, `distance`, jobs and counter on the stack | cut, push, scan, count down, wait, compact, sort | pool threads | threads write one array; a counter, mutex and condition that live on the stack | exactly the matching rows, in order; no job outlives the call; no lost wakeup |
| view and main loop (view.c, rofi.c 197-287, xcb/view.c, wayland/view.c) | stack of views; `quit`, `refilter`, `reload`, redraw flags; timers; `curr_mode` | actions, text, maybe_update, refilter, switch mode, error dialog, finalize | backend, modes, widgets | flags that another event handles; delayed filter; dialogs pushed in the middle of a handler; sources dispatched after a free | the list follows the input; every flag is handled; no view is lost or used after it is freed |
| dmenu reader (modes/dmenu.c 118-356, 762-785) | buffer, block, queue, two pipes, `cmd_list` | read, cut, push, time out, drain, stop, join | stdin, view | two channels in one direction; partial lines; stop while blocked | no character lost; the end never overtakes a row; join returns |
| dmenu selection (modes/dmenu.c 65-76, 803-963; view.c 338-394) | bit map of marks, count, selected line | toggle, accept, cancel, print, restart | view, reader | list grows between two marks; filtered positions against rows | marks are kept; what is printed is what was chosen |
| icon fetcher (rofi-icon-fetcher.c; `_get_icon` of the modes) | table of entries, their flags, pool | query, load, get, drop | view (reload), modes | flags and surface are shared without a lock; jobs dropped on a page change | one job per icon; icons appear; loading ends |
| startup and exit (rofi.c) | modes, main loop, return code | parse, start, run, tear down | all | signals; exit with views on the stack | nothing left behind |
| X11 backend (xcb/) | window, pixmap, grabs, repaint and reload sources, selections | event dispatch, repaint, grab with retry, paste | view | grab retries, clipboard answers that come late | everything drawn is shown |
| Wayland backend (wayland/) | surfaces, buffer pool, key repeat, seats, data offers | event dispatch, commit, frame callback, buffer release | view | buffers busy, key repeat after the last view, frame callbacks | a buffer is not written while the compositor reads it |
| list view (widgets/listview.c) | selection, page, scroll position, columns | navigate, scroll, set the number of rows | view, icon fetcher | wrap-around and pages with a number of rows that changes | the selection is a row that is shown |
| text box (widgets/textbox.c) | text, cursor, blink timer | insert, delete, move, blink | view | cursor against a text that is replaced | the cursor is inside the text |
| other widgets (widgets/) | sizes, positions | layout, draw, find the widget below the mouse | view | rounding when space is distributed | children fit their parent |
| history (history.c) | a file of counted entries | set, remove, read | modes, view (input history) | crash or second process during a rewrite; trimming | no entry lost; the most used stay |
| helpers (helper.c) | pid file; otherwise none | tokens, match, levenshtein, fuzzy score, pid file | all | `-replace` waits for another process; overflow and bounds in scores | functions agree with their definitions |
| key bindings (keyb.c) | table of bindings | parse, set up | view | replaced and duplicate bindings | one action per key and scope |
| mode interface (mode.c) | private data of a mode | init, result, token match, display value, icon | all modes | — | — |
| combi (modes/combi.c) | starts and lengths of the modes | count, result, display | other modes | counts that change between two reloads | a row maps to the row of the right mode |
| script (modes/script.c) | rows, options, data of the script | execute, result | a child process | options of one call that leak into the next | each call starts from the defaults |
| recursive browser (modes/recursivebrowser.c) | rows, thread, queue, pipe | walk, push, drain, stop | file system, view | as the dmenu reader; stopping in the middle | no row lost; the thread stops |
| file browser (modes/filebrowser.c), run, drun, ssh | rows scanned once, caches | load, result | file system, icon fetcher | stale caches | — |
| window modes (modes/window.c, modes/wayland-window.c) | list of windows | load, close, result | display server | windows come and go while the view holds row numbers | an action hits the window that was shown |
| theme (theme.c, css-colors.c, lexer/) | tree of properties | parse, merge, look up | widgets | inheritance, references | lookup finds the most specific value |
| options (xrmoptions.c, rofi-types.c, config/) | the configuration | parse, dump | all | — | — |
| help-keys, display.c, timings.c | none of their own | — | — | — | — |

`libnkutils` and `libgwater` are submodules that are not part of the tree; GLib,
pango, cairo and the display server are external. They are modelled by how the
code uses them (pool, queue, condition, main loop, `memmove`).

## 2. What is modelled

| module | models | state <-> code |
|---|---|---|
| `Filter` | the promise of a filter pass, in one step | request, `shown` = the list |
| `ParallelFilter` | view.c 419-489, 765-860 | `jobs` = `states[]`; `count`, `mutex`, `waiting` = the counter, mutex, condition on the stack; `lineMap`, `distance`; `filtered` = `j`, then `filtered_lines` |
| `View` | view.c, rofi.c 197-287, both backends' view.c | `stack` = `current_active_menu` and the queue; sets of views whose flag is set; one variable per timer or source; `stale` = what changed after the last filter (a ghost); `alive`, `corrupt` = what is allocated, and was it used after (ghosts) |
| `DmenuReader` | modes/dmenu.c 118-356, 609-638, 762-785 | `text` = what the program wrote, as separators or not; a row is the slice of it; `block`, `queue`, `wake` (`pipefd2`), `stop` (`pipefd`), `list`, `room` |
| `DmenuSelect` | modes/dmenu.c 65-76, 803-963, view.c 338-394 | `words` = `selected_list` with words of `WordBits` bits; `line_map`, `filtered`, `selected`; `toggled` = what the user marked (a ghost) |
| `IconFetcher` | rofi-icon-fetcher.c, `_get_icon` of drun, filebrowser, dmenu/script, reload of the backends | sets of names whose flag is set; a queue and threads per pool; `sources`, `armed` = the timer of `rofi_view_reload` and `idle_timeout` |
| `Widgets` | widgets/box.c, container.c, icon.c, widget.c | `ui` = places, sizes, children, enabled and redraw flags of all widgets, threaded through calls that call each other; `screen` = what was drawn last (a ghost) |
| `ListView` | widgets/listview.c, scrollbar.c | `sel`, `off`, `rows`, `max`, `cur`, `cols` = the fields of `_listview`; `redo` = `rchanged`; `shown` = the rows of the elements on the screen; `look` = the theme's properties |
| `TextEdit` | widgets/textbox.c | `text`, `cursor`, `blink`, `changed`; `layout` = the text in the pango layout |
| `Matching` | helper.c 56-322, 541-560, 671-735, 817-1034, 1298-1317 | `query`, `enabled` and `current` methods, case settings; regular expressions as what they accept |
| `Options` | xrmoptions.c, keyb.c, config.c, rofi.c 935-1216, help-keys' table | `value` per variable, `owner` = the option whose `mem` it points to, `backup` = `extra_parsed_options`, `bound` = bindings; `stage` = the point of startup, `at` = the option or argument that is next; `asked` = what the files and the command line ask for (a ghost) |
| `Theme` | theme.c, theme-parser.y (merging) | `tree` = properties by place, `media`, links with what they were resolved to; `written` counts writes, so that a link to a freed property shows; `scripted` = what scripts wrote to the root (ghosts) |
| `HistoryFile`, `History` | history.c; helper.c 585-650 (pid file) | `hist` = the file; `holder` = who has the lock; `list` = what a process read; `due` = the file if each write were atomic (a ghost) |
| `Launchers` | modes/run.c, ssh.c, drun.c with drun's cache | `entries` = the rows, `past` = the history file, `cache` = the cache file, `open` = shown, or with the file browser as completer |
| `RecursiveBrowser` | modes/recursivebrowser.c | `scan`, `visited` (`dirs_scanned`, whose keys are compared by `HashOf`), `dir`, `left` = the walk; `found` = the queue, `wake` = the pipe, `files` = the rows |
| `Combi` | modes/combi.c | `starts`, `lengths`, `disabled`; `rowsOf` = what the modes have now; `lost` = the modes that lost a row since the count, `asked` = the result of the last step (ghosts) |
| `Script` | modes/script.c | options and rows that the last outputs left; `calls` = the calls made (a ghost) |
| `WaylandSeat` | wayland/display.c 390-913, 1128-1169 | `held` = keys down, `repeatKey`, `repeatSource`, `timers`; `wheel` = `v120`, `turning` = `wheel_continuous`, in 1/256 of a pixel as the protocol sends it; `turned`, `scrolled`, `frames` = what the wheel did, what the view was told and in how many frames a touch pad moved (ghosts) |
| `WaylandSurface` | wayland/display.c 76-350, 1562-1593; wayland/view.c 109-411 | `pools` = buffers and their `released` flags; `reading`, `current` = what the compositor reads and shows; `painter` = the idle source, `frame` = the frame callback |
| `WindowMode` | modes/window.c, wayland-window.c, the reload of xcb/view.c | `exist`, `listed` = the windows there are and those the window manager lists; `events` under way; `ids` = the rows of the mode, `reading` = the windows not asked for yet while the list is loaded, `inView` = what the view has |

`MC*` are the instances for TLC, the modules whose names end in `_proofs` hold the
proofs, and `SequenceLemmas` what these share about sequences.
`MCInterface` and `MCModes` are hosts: each has several components side by side,
chosen by `part` in the initial state, of which one runs and the others stand
still. The components in a host do not interact in the code either, other than
through what their modules take as input: the view hands a text to the text box
and a number of rows to the list, whatever these are. A host checks each of them as
its own module would be, and asks one question of all of them (see the table of
runs). It extends the components that have theorems, so that run and theorem are about
the same formula, and takes the others as instances.

How to read them. In `ParallelFilter`, `DmenuReader`, `IconFetcher`, `History` and
`RecursiveBrowser` an action is a stretch of one thread or process between two
accesses that another one can observe. Elsewhere everything runs on the main
thread: an action is one callback, key or event from beginning to end, with all
that it calls. Where functions call each other on the way (`Refilter`,
`ProcessResult`, `MaybeUpdate` in `View`, the layout in `Widgets`, `SetProperty` and
`AddOption` in `Options`, `ViewUpdate` in `WaylandSurface`) they are operators from a state to the
state, or the set of states, they leave behind, so that a handler is their
composition in the order of the code. Two loops are one action per turn, the command line
in `Options` (`ParseOption`, `ParseArgument`) and the reading of the client list in
`WindowMode` (`WindowClient`): the first because nothing else runs and it is easier to
follow, the second because windows come and go between two of its requests.

What the models leave out, on purpose: drawing, fonts, formats of rows, wording.
`View` knows only whether the input is empty and what changed since the list was
computed. The pipes of the dmenu reader never fill (64 KiB against one byte per
0.1 s or 2048 rows, drained by the main loop); that of the recursive browser does.
That `select` itself fails in the reader (dmenu.c 282-284, which ends the thread without pushing
its block) is left out, and so are the bytes behind the end of a text that
`textbox_cursor_inc_word` reads (textbox.c 683-691): there the cursor stops at the end.
In `View` the action of the overlay is a redraw. A configured list of ignored
prefixes is a set (`Ignored`): that `strtok` cuts it in place, so that only the
first of them counts from the second call on, is left out. Desktop files, hosts
and theme files are read as the records their parsers make of them.

## 3. What TLC checks

| run | instance | shows | distinct states |
|---|---|---|---|
| `pf_safety` | 3 rows, 1 row per job, up to 3 jobs, 2 pool threads, distances 0 and 1, sorting on and off | jobs stay in their slices, none outlives the call, the list is right | 1,408,953 |
| `pf_refines` | the same with one distance | refinement of `Filter` with its liveness; no lost wakeup | 22,930 |
| `interface` | the view (Wayland, 1 mode, 1 dialog, auto select, timeout, blink) 88,560; seven widgets 2,514; options 18,368; theme 32,640; keys of a seat 284; its wheel 86,166; surface 13,585 | what is put on the screen agrees with what it was made from, however calls nest and sources change: views, layout and redraw marks, option texts and bindings, links, getters, key repeat, scrolling, buffers | 242,117 |
| `view_live` | both backends, 1 mode, no dialog, blink, timeout | new rows are shown, filters are not put off for ever, a view that is done is finalized, the list follows the input | 12,004 |
| `dmenu_reader` | 4 characters, reads of 3, blocks of 2 rows | nothing lost, the end comes last, bounds of block and list, partial lines appear, join returns | 156,723 |
| `modes` | dmenu (3 rows, words of 2 bits, the three kinds of choice) 75,910; list (4 rows, 5 layouts) 112,464; text 9,500; matching 3,108; history (2 processes) 59,806; launchers 25,650; browser (two directories of one hash) 449; combi 52,509; script 28,740; windows (2, 3 events under way) 39,468 | from the input to what is started, row numbers, cursors and files stay right while rows, events, threads and processes change under them | 407,604 |
| `icons` | 2 pages, 3 names (one missing, one shared), 2 threads per pool, 1 page change, all three kinds of modes | one job per icon, rows settle, loading ends | 51,607 |

Five more runs each find a disagreement between the code and what it says of
itself; section 6 lists them.

Why these bounds. Rows that do not divide by the number of jobs, an empty slice (three rows
in three jobs are slices of two, one and none), two jobs in the pool next to the one of the
main thread, and a single job all occur with 3 rows; so do equal distances in two slices.
The proofs cover every other number of rows, threads and jobs. `CountLimit` (25 in the code) is 2: below, at and beyond the limit
occur. One dialog suffices for every order of menu and dialog on the stack. Four
characters with reads of three and blocks of two give full and partial blocks, rows
that span reads and an empty row. Words of two bits make the third row need a second
word, so growth and clearing happen. One page change gives two pools at work.

In the hosts: a bar with three children above a message and a list is the smallest
tree in which a box resizes its parent in the middle of the parent's layout, with
one child that expands next to another. Four rows make full and partial pages and
columns of one and two; the heights show no line, two lines, and the height asked for, when the mode has the rows listed or more. Texts of three
characters have words, runs of spaces and both ends. The options have a variable
with three names, each type, and bindings that clash; three settings before the
command line reach every order of setting, adding and failing. Three writes, by
files, media blocks or scripts, put links before and after what they lead to, and replace it
later; each type that a getter converts is written to a widget, to the root, or inherited. Two processes, the second with `-replace`, meet at every point
of the lock and of a write; two lines of history make trimming happen with three
names. Two directories with a link back, one that cannot be read, two with one hash, an entry whose type the file system does not tell, a queue of one and a pipe of two bytes
fill both. Three modes, two of whose names begin alike, are what `!` needs. Three
script calls make an option outlive one call. Two keys, half notches of a wheel, three frames of a touch pad
with fractions of a step, and four
pools reach each case of repeat, remainder and replacement. Three window events
come in each order.

Deadlock is checked in the two `pf_*` runs, where another request can always come.
The other systems stop when their user or program is done (and the recursive browser
may stop in its join, see section 6).

Fairness. `ParallelFilter`: every thread runs; a job gets the mutex in the end if it
is free again and again. `View`: the main loop serves its sources and the display
server answers what was drawn; nothing is assumed of the user, and a timer that is
started again and again need not run out (that is what the counter of
`rofi_view_refilter` is for). `DmenuReader`: the thread and the main loop run; the
program need not write or close. `IconFetcher`: the threads and the main loop run,
and the reload timer, of a higher priority than the idle sources, is not starved by
redraws (strong fairness). `Prompt` there says that a timer of 1/15 s or more does
not run out between `g_timeout_add` and the assignment of its number.

## 4. What TLAPS proves

Each theorem holds for every value of the constants that the named assumption
allows; TLC evaluates the assumption in every run of the module. No assumption is
more than the code guarantees: sizes are positive, sets are what the code can
configure. One theorem has a hypothesis of its own, `FilesAreReached`: without it TLC
refutes what it says (section 6).

| module | assumption | theorems (property) |
|---|---|---|
| `ParallelFilter_proofs` | `ParallelFilterAssumption`: a thread, a row per job, a job per thread; integer distances | `TypeCorrect`, `FrameSafe` (`FrameIsOurs`), `SlicesSafe` (`SlicesKept`), `ListCorrect` (`ListIsRight`), `Implements` (`Filter`) |
| `DmenuReader_proofs` | `DmenuReaderAssumption`: blocks and reads are not empty; the list grows by a block at least | `TypeCorrect`, `BuffersAlwaysFit` (`BuffersFit`), `NoCharacterIsLost` (`NothingLost`), `LoadedMeansComplete` (`LoadedIsComplete`) |
| `IconFetcher_proofs` | `IconFetcherAssumption`: a name per row, a page, a thread, a kind of mode | `TypeCorrect`, `OneJobPerIcon` (`OneJobWhileStarted`) |
| `History_proofs` | `HistoryAssumption`: the markers of the pid file are no processes; something can be launched | `OneWrites` (`OneRofiWrites`), `UseKeptInHistory` (`HistoryKeepsUse`) |
| `Modes_proofs` | `DmenuSelectAssumption`: a row, a bit per word, a kind of choice; `CombiAssumption`: names stand for modes that there are; `ScriptAssumption`: outputs hold rows, and options of the kinds that rofi reads; `WindowAssumption`: the servers are these two, windows are finitely many | `MarksCorrect` (`MarksAreKept`), `ChoicePrinted` (`PrintsTheChoice`), `ToggleCorrect` (`ToggleAdvances`, an action property); `RowsReachTheirMode` (`RowReachesItsMode`); `ScriptCallsAreAllowed` (`CallsAreAllowed`); `WindowInvariant`, `RowsAreWindows` (`RowsFollowWindows`), `WindowTypesCorrect` |
| `View_proofs` | `ViewAssumption`: a backend, a mode, a positive `CountLimit`; `WaylandSeatAssumption`: no key is the marker for none, turns and distances are integers in the units of the protocol; `WaylandSurfaceAssumption`: buffers are numbers | `TypeCorrect`, `StackCorrect` (`StackSound`), `InputFollowed` (`ListFollowsInput`); `SeatIsSound` (`SeatSound`); `SurfaceIsSafe` (`BuffersAreSafe`) |
| `Lists_proofs` | `ListViewAssumption`: a theme has a column and elements some height, counts of rows and elements fit a word; `RecursiveBrowserAssumption`: a directory names each entry once, every directory has a hash, the pipe holds a byte; `OptionsAssumption`: files and command line hold properties; `TextEditAssumption`: what is typed are strings, the bound of a text is a number | `ListInvariant`, `SelectionIsSound` (`SelectionSound`), `ListStepsAreRight` (`ListSteps`, an action property), `ListTypesCorrect`; `RecursiveInvariant`, `FilesAreListedOnce` (`EveryFileOnce`), `FilesAreReached`, `RecursiveTypesCorrect`; `OptionsInvariant`, `SettingsAreSound` (`OptionsSound`), `OptionsTypesCorrect`; `TextInvariant`, `EditsAreSound` (`EditsSound`, an action property) |

`SequenceLemmas` has what these share: what `ToSet`, `Tail`, `Append` and `\o` do to the
elements of a sequence, sequences without doubles, and flattening.

Every proof has the same shape: an invariant `IInv` that TLC has checked on an
instance, a lemma that it holds at first, a lemma per action (or per kind of action)
that a step keeps it, one that puts them together, and a last step for `[]`.

**Parallel filter.** None of the properties is inductive. That the list is right needs
that the slices moved so far hold the matching rows of these slices, in order
(`MovedInv`), and that the slices not moved yet still hold what their jobs found
(`SlicesKept`); this needs that a job stays in its slice (`JobInv`) and that slices
follow each other and cover all rows (lemma `Slices`, from the rounding in view.c
812). That no job outlives the call needs that the counter counts the jobs that have
not counted down (`CountInv`) and that the main thread and the jobs exclude each
other (`MutexInv`), together with where the main thread is (`PhaseInv`). Sorting
needs the distances of the rows that were found (`DistanceInv`). `Compact` is the hard
step: `memmove` to the left may overlap the slice it moves, and must not touch the
slices behind it. `Implements`: each initial state and each step maps to one of
`Filter`, or to a stutter.

**Reader.** The rows of the list, of the blocks in the queue, of the block being copied
and of the block being filled are one sequence, `Rows`, that only grows: passing a block
on moves a boundary in it (`FlattenSeq` and its lemmas in `SequenceLemmas`).
`NothingLost` says that each row ends where the next one begins; it is kept because a
row is cut from where the last one ended (`RowsInv`). `BuffersFit` needs that no block
has more than `BlockSize` rows wherever it is (`BlocksInv`). That the announcement of
the end overtakes nothing needs that `q` is the last byte in the pipe, with an `r` before
it as long as a block is queued (`WakeInv`), and that a thread which ends by itself has
cut all of the input and pushed its last block (`EndInv`): the queue and the pipe are two
channels, and this is what keeps them in step.

**Icons.** A job is in one queue at one position or with one thread, and a name that is
started has one job, or none and is done. `OneJobWhileStarted` is nearly inductive; it needs that queues and threads
hold names of the table (`KnownNames`), and, for entries queried through a fallback, that
the index is within the names of the row (`FallbackInv`).

**Choice.** Bits of words against a set of rows: the words that exist cover the rows
marked (`BitsAreMarks`), with the division and remainder of dmenu.c 65-76 for any word
size. `PrintsTheChoice` needs that nothing is printed or restarted before the end
(`NothingEarly`), `ToggleAdvances` that the list shows rows in ascending order
(`ShownAscends`), which makes `get_next` find the next position.

**History.** `LockIsHeld` says who can have the lock from where each process is, also
when one is killed, whatever the file names; `ReadIsDue` that what the holder
read is the file that is due, so that what it writes is; they make `OneRofiWrites`
inductive. For `HistoryKeepsUse`, sorting is shown to be a permutation (each line has a
rank of its own, lemma `Sorted`), so that no name doubles and the order by count holds
however the trimming cuts. A use counts for at least as much as the last line, which is
counted once at most (`Kept`), and a second use for more: that line is the one to go.

**Combi.** `CountedInv`: the starts are the sums of the lengths, the lengths those of the
last count, and no more than the rows a mode has, unless it lost one since; the modes
disabled are those of other names. So a row lies in exactly one interval, and within its
mode as it was counted.

**Script.** `CallsAreAllowed` looks back over all calls, the code only keeps the last
value of each option. The proof ties the two together: `OptionsStay` (each option that
stays is what was said last about it) and `RowsAreTheLast` (the list on the screen is
that of the last call that did not send the user to another mode). Lemmas `LatestAfter`
and `RowsBeforeAfter` say what one more call changes about what was said last, and
`LatestBefore` and `RowsBeforeBefore` that it changes nothing about earlier calls.

**View.** `IInv` is `TypeOK /\ StackSound /\ ListFollowsInput`, inductive as it stands:
what makes it hard is not the invariant but that handlers call each other. They are
functions from a state to the set of states they may leave behind, so the proof is about
states as records: `Sound` (types and stack), `Due` (a list that is out of date is
going to be filtered), and how a function may change them (`Grows`: views are only
added; `Same`). A lemma per function says what it keeps of these, from the error dialog up
to `MaybeUpdate`, whose loop over a dialog that appears while the menu is finalized is
the reason for `StackSound`; a lemma per action applies them to the state `Now`.

**Seat.** `RepeatStops` is inductive with the types, and only so: that a new timer gets
a number that is free needs that there is at most one, and that the timer which runs
out finds its key needs that it is the one of `repeatSource`. `ScrollCounts` rests on
the division towards zero: whole notches and rest add up for both signs (lemma
`NotchesAndRest`), a whole number is kept by the conversion to `gint` (`WholeIsKept`), and
any other loses less than one (`TruncationError`), which is what a frame of a touch pad may
lose.

**Surface.** `BuffersAreSafe` is not inductive. `BuffersFit` says of each buffer that it
is read exactly while it is in its pool and not released; of a pool that is to be freed
that it holds only buffers that are read and is mapped as long as it has one; and that
the view's pool is none of these. As in `View` the handlers are functions on a record
of the state, and a lemma per function says that it keeps this and makes one pool at
most, so that two in a row, as for a change of scale, need room for two.

**List view.** Numbers are words: `sel - off` wraps around, and an unsigned `<` against
`max` is how the code asks whether the selection is on the page. The invariant ties the
counts together (`ListCounts`: the elements are the fewer of rows and room, and room is
rows times columns), says that what is drawn are consecutive rows from the offset
(`ShowsPage`), and that on a list that is up to date the selection is among them
(`PageHasSelection`). A lemma per way of scrolling (`PerPageShows` and those for the
continuous ones) says that the page it computes has the selection; that a page fits a word
is the assumption on themes and heights.

**Recursive browser.** `EveryFileOnce` looks at the end of the walk. Before it, what is in
the rows, in the queue and still to be read in the open directory are kept apart
(`ListedOnce`, `LeftOfDir`); each entry of a visited directory that is not `Pending` is
listed, or a path that counts as the same is visited or queued (`WalkComplete`); and the
walk stays within what can be reached (`WalkSound`). `ScanOver` says that a byte is under
way as long as the queue holds a file and the thread will not write again. `Reachable` is
the least set that has the root and what it leads to (`ReachableIsLeast`): when the scan is
over the visited directories are closed, so they are all of it, if their hashes differ.

**Options.** The settings are a record that functions pass on, as in `View`.
`SoundSettings` (owners of texts, what is kept, keys that are given) holds of it after
every function. `LastWordCounts` is about the end of the start; until then each stage has
its own relation of values to what was asked for: they agree (`Agree`, where an option
that is not known yet has its default and awaits what is kept for it), except on the
command line, which asks for all of its arguments at once and is worked off option by
option and then argument by argument (`OptionsParsed`, `ArgumentsParsed`).

**Text box.** `CursorInText` is inductive with the types; what takes work is what the
operators return. A cut leaves both sides as they were (`Cut`, `DeleteKeeps` with the
cursor at either end of it); text is typed character by character, by induction over the
recursive function of `Appended` (`AppendKeeps`); the search for the word before the
cursor ends at the last start of a word and that behind it at an end, or at the ends of
the text (`WordBack`, `WordOn`), also where the code runs out of the text.

**Windows.** `Leads` applies the events under way to a set of windows, one after the
other. On Wayland it leads from rofi's list to the windows that exist (`WaylandInv`), and
an event that adds a window is followed by the one that asks for the reload. On X11, a row
whose window is gone has its event or the timer behind it (`X11Inv`), and the rows and the
windows not asked for yet are distinct, also when the list is loaded while windows go.

**Only model-checked.** Liveness everywhere (`PassEnds`, the fairness part of
`FilterSpec`, all `~>` properties), which is out of the prover's reach, and with it
`RowsSettle` and `FetchingEnds`. `DrawingSound`: `Widgets` and `Theme` walk trees and links
with recursive operators, about which this prover proves nothing. `RowsAreFound`:
`Matching` compares tables that are computed row by row with a search over all edits or
alignments, which needs induction over the texts; `Launchers` filters and sorts its rows
with operators that take an operator (`SelectSeq`, folds). The hosts' type invariants
(`InterfaceTypeOK`, `ModesTypeOK`) follow from the types theorems for the parts that have
one.

## 5. Properties that say most

- `FrameIsOurs`, `SlicesKept`, `ListIsRight`, `PassEnds`, `FilterSpec`: the parallel
  filter is a filter.
- `StackSound`: a dialog that appears in the middle of closing
  the menu leaves neither a dangling nor a lost view.
- `ListFollowsInput`: as long as the menu stays, a list that is out of date has a
  filter pending. With a dialog on top the matcher clause is not required: the dialog
  may be the view that the timer belongs to, or the one that is filtered.
- `RowsShown`, `FilterNotPutOff`, `QuitHandled`: the flags of a view are handled, on
  both backends. `QuitHandled` relies on the blinking cursor when the timeout of the
  user sets the flag, see below.
- `NothingLost`, `LoadedIsComplete`, `AllShown`, `JoinReturns`: the reader.
- `MarksAreKept`, `PrintsTheChoice`, `ToggleAdvances`: the choice. Marks survive the growth
  of the list, and what is printed is what was chosen.
- `DrawingSound`: after any nest of calls the children of a box that
  has room tile it, clicks reach what is drawn, and a change never fails to mark the
  boxes around it; a link of the theme leads to what was written last, unless a script
  wrote to the root since; and a getter finds a value of its type, converts the types it can,
  and inherits, but for the double that is skipped (section 6).
- `SelectionSound`, `ListSteps`: the selected row exists and is on the page that is
  drawn; a click hits the row under it; the height a list asks for fits its lines.
  A bar is left out of the first: it may keep a selection behind the last row.
- `EditsSound`: the cursor is in the text and moves by whole words, an edit leaves the
  other side of the cursor alone, and none goes without the answer that starts the filter.
- `RowsAreFound`: `levenshtein` against the least number of edits, by search; the
  fuzzy score is that of the best alignment, neither less nor more, unless the first cell of a
  row is better with what was carried over; each method finds what a stricter one finds;
  each thing to launch is listed as often as the sources say (a name of `PATH` once, a file with
  its actions once, a host as often as the configuration of ssh has it), read or from the
  cache, without those that were removed.
- `OptionsSound`: shared texts, precedence of the sources, key clashes. The last word counts
  unless there was an error; an argument that is no number and is read again as a text forgets
  the errors before it (xrmoptions.c 696-699), and is excepted.
- `OneRofiWrites`: one writer at a time, and a history that is what the uses make of it
  unless the writer is killed in between. `HistoryKeepsUse`: no name twice, ordered by
  use, bounded, and what is launched twice in a row is in it.
- `EveryFileOnce`: the files of every visited directory once, none left in the queue.
  `RowsFollowWindows`: after the last event no window that is gone and none twice, and on
  Wayland each window.
- `RowReachesItsMode`: the mode that showed the row chosen in a combined list is asked,
  for that row of it as it was counted, however the modes changed since; and it still has a
  row of that number unless it lost one itself (section 6). `CallsAreAllowed`: a
  script gets only what its earlier outputs allow, also after a switch to another mode
  and back, when the list on the screen is not that of its last output.
- `SeatSound`: a released key does not repeat; of a wheel no part of a turn is lost or counted
  twice, of a touch pad less than 1/120 of a notch per frame.
  `BuffersAreSafe`: buffers that are read are mapped and not drawn into, however often
  the pool is replaced, and a replaced pool does not stay for ever.
- `OneJobWhileStarted`, `RowsSettle`, `FetchingEnds`: icons. The last two hold while
  no job is dropped by a page change.

## 6. Disagreements found

- `view_freed`: the timer of a delayed filter keeps the pointer to a view that
  `rofi_view_free` has freed, and may be dispatched before the loop ends
  (view.c 924 against include/view.h 195).
- `view_timeout`: the action of the user timeout sets `quit`, which nobody looks at
  until the next event (view.c 261 against doc/rofi.1.markdown 949-953).
- `view_cleanup`: the assertion that no view is queued fails (xcb/view.c 953). In the trace a
  command that fails while the menu is made opens a dialog before the menu is active, so that
  the dialog is queued below the menu; SIGINT ends the loop, and teardown frees the menu only.
- `select_next`: the "next visible position" of the last visible row is a row that is
  not shown, so toggling the last match of a filtered list jumps to the first
  (view.c 390 against include/view.h 100).
- `icons_paged`: an icon whose job was dropped by a page change never comes in drun and
  run (rofi-icon-fetcher.c 249-253 against the comment at 251).

Also met, without a run of their own.

- dmenu: a program that pauses for more than 0.25 s in the middle of a line gets the
  line split in two rows (modes/dmenu.c 337-350); `kb-custom-N` returns a row that is
  nonselectable (951); the end of the input clears an overlay that shows the number
  of selected rows (238); the mark of the end of a block is written behind it (157).
- view: the reload of rows that arrive while a dialog is active goes to the dialog
  (xcb/view.c 440), and the menu shows them with its next reload only (`RowsShown` is
  therefore checked without dialogs); buttons and the mouse callback read `line_map`
  although the list may be empty (view.c 1543, 1599).
- list view: in a bar the selected row need not be visible, against the comment at
  listview.c 265; `listview_nav_right` on an empty list computes with a wrapped number;
  page-prev may draw behind the last row until the next draw (1024-1037).
- helpers: the cells carried over between rows of the fuzzy table
  (helper.c 986-1026) give a better score than any alignment has, against the comment at
  978 (`FuzzyIsAlignment` in `Matching`, which does not hold); naming all five matching methods
  is refused as "to many" (712). The range `2:0` of `-a` is taken as "2 to the last row"
  (modes/dmenu.c 413-421, doc/rofi-dmenu.5.markdown 92-95).
- options: a value set by another name of its variable is not dumped
  (xrmoptions.c 907-911; `DumpIsComplete` in `Options`); a property for an option that is
  added later replaces an earlier one although its type is wrong, and is then dropped
  without a word (532-566); an option with a second dash that is given twice counts
  by its first place, every other one by its last (325-378 of helper.c, xrmoptions.c
  650-707); an error in a configuration
  file skips the command line (rofi.c 1161-1165); an error in a binding leaves the mouse
  unbound (keyb.c 490).
- theme: a link stays resolved to a property of the root that the theme of a script
  replaced and freed (theme.c 723, 653, modes/script.c 185-189; `LinksHold` leaves out exactly
  these); a widget that inherits a double skips an integer of its parent (1040-1044,
  `DoublesAreInherited`); an inherited colour `tint` is never seen, as
  `rofi_theme_has_property` looks for a text at the parent (1646, `ColorsAreSeen`). TLC refutes
  both against doc/rofi-theme.5.markdown 802.
- ssh, drun: a host with a port can not be deleted (ssh.c 159); one that the configuration of
  ssh names twice is listed twice (415-433), although the other files are searched for doubles; with the cache any row
  can be deleted, and the history order is ignored (drun.c 1431).
- processes: `-replace` may kill whoever has the pid that an old file names
  (helper.c 612-625), and a process killed while it writes leaves an empty history
  (history.c 241). The second call of `history_set` knows only the first of the ignored
  prefixes (history.c 185).
- recursive browser: the table of visited directories compares hashes and four bytes
  instead of paths (recursivebrowser.c 186-187, `g_int_equal`), so of two siblings such as
  `ab` and `bA` only the first is opened (`EveryFileReached` in `RecursiveBrowser`, which does
  not hold; with different hashes it is the theorem `FilesAreReached`); links are resolved against the directory rofi was started in
  (about 290); destroying it leaves the pipe and its source in the main loop (453-470),
  and the join waits for ever when the thread waits for a full pipe (309, 461).
- combi: `!` with the beginning of several names asks the first of these modes for a row
  that another one shows (combi.c 155-180; excepted in `RowReachesItsMode`). A mode whose rows go by
  themselves, as those of the window modes do, is asked for a row that it no longer has until
  the view counts again, and does not look whether it has it (window.c 783, wayland-window.c
  417, against "Window has vanished" for the text of the same row, 956 and 568).
- script: keep-selection and keep-filter are those of the previous output, new-selection
  that of the new one (script.c 411-442); a switch to another mode that the first call
  asks for is ignored (325); `icon_fallback_index` of the first row is not initialised.
- Wayland: the keyboard is given up when the pointer goes, and kept when the keyboard
  does (display.c 1143); when the window loses the keyboard a held key repeats on
  (390-395); a repeat rate of 0 repeats every 30 ms (442); a redraw is lost when all
  buffers are busy (view.c 312); a released seat stays in `last_seat` (1113-1126);
  `wheel += 20 * wheel_continuous` (621) drops a fraction in each frame, as the sum is a
  `gint`: a finger that moves less than 1/20 of a pixel per frame does not scroll at all.
- windows: between a change of the list and the reload of the view an action may act
  on another window than the one shown (wayland-window.c 413-425, window.c 953); an X11
  window that its manager takes on more than 100 ms after the last event stays out
  (418-426). With `window` and `windowcd` both shown, the second reload rebuilds the
  cache that both share, and a window of the first that went in between fails the
  assertion at window.c 434 (`WindowMode` has one of the modes).

## 7. Not modelled, and plan

Not modelled: drawing and text layout (cairo, pango), the grammar of the theme and
generated code, running programs and shell quoting, parsing of desktop, ssh and
host files by character, the file browser's directory listing, grabs, clipboard,
monitors and window placement (fixed sequences of calls to the display server),
thumbnails and actions on windows, the entry history of the input box, help-keys and
timings. Most of these are pure input and output; state that others depend on is in
the modules that read it.

Worth doing next: `Launchers` with functions in the place of `SelectSeq`, so that it can
be proved about; `DmenuSelect`'s `line_map` inside
`View`, for the actions that do not force a pending filter (view.c 1106, 1328); both
window modes over one cache.

## 8. Running

```
tlc -config PFSafety.cfg MCParallelFilter.tla      # likewise for the other cfg files
tlapm ParallelFilter_proofs.tla           # likewise for the other proof modules
```
