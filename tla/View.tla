-------------------------------- MODULE View --------------------------------
(***************************************************************************)
(* The main loop of rofi as the view sees it (source/view.c, the backends  *)
(* source/xcb/view.c and source/wayland/view.c, process_result of          *)
(* source/rofi.c): the menu and the error dialogs stacked on it, the flags *)
(* an event leaves behind for rofi_view_maybe_update, the timers and idle  *)
(* sources, and the delayed filter of slow lists.  One thread runs it all: *)
(* an action is one source of the main loop dispatched to its end.  What a *)
(* C function may do to the state u is an operator that returns the set of *)
(* states it may leave behind.                                             *)
(***************************************************************************)
EXTENDS Integers, FiniteSets, Sequences, SequencesExt

CONSTANTS
  Backends,      \* the display servers rofi was built for
  NumModes,      \* num_modes
  Dialogs,       \* error dialogs that may exist at a time
  CountLimit,    \* refilters that may be put off in a row (25)
  AutoSelect,    \* config.auto_select
  UserTimeout,   \* is a timeout configured?
  Blink          \* does the cursor of the input blink?

ASSUME ViewAssumption ==
  /\ Backends \subseteq {"xcb", "wayland"} /\ Backends # {}
  /\ NumModes \in Nat \ {0}
  /\ Dialogs \subseteq Nat \ {0}
  /\ CountLimit \in Nat \ {0}
  /\ AutoSelect \in BOOLEAN /\ UserTimeout \in BOOLEAN /\ Blink \in BOOLEAN

\* The menu; every other view is an error dialog, which has no mode.
Menu == 0
Views == {Menu} \cup Dialogs
None == -1

VARIABLES
  backend,      \* config.backend, which main chooses for good
  stack,        \* current_active_menu, then the queue CacheState.views
  alive,        \* the views that are allocated
  quit,         \* views whose quit is set
  refilter,     \* views whose refilter is set
  reload,       \* views whose reload is set
  dirty,        \* views whose main window needs a redraw
  mode,         \* curr_mode
  typed,        \* is the text of the input not empty?
  stale,        \* parts of the input that changed after the list was computed
  slow,         \* the last filter took longer than the limit
  count,        \* refilter_timeout_count
  timer,        \* refilter_timeout: the view it is for, and is it due?
  reloadTimer,  \* idle_timeout of the backend
  repaint,      \* repaint_source of the backend
  reply,        \* the display server answers to what was drawn last
  userTimer,    \* user_timeout
  overlayTimer, \* overlay_timeout
  loop,         \* "runs", "ends" (the last iteration) or "over"
  corrupt,      \* memory of a freed view was used
  results       \* parity of the number of views finalized

vars == <<backend, stack, alive, quit, refilter, reload, dirty, mode, typed, stale, slow,
          count, timer, reloadTimer, repaint, reply, userTimer, overlayTimer, loop,
          corrupt, results>>

Now == [stack |-> stack, alive |-> alive, quit |-> quit, refilter |-> refilter,
        reload |-> reload, dirty |-> dirty, mode |-> mode, typed |-> typed,
        stale |-> stale, slow |-> slow, count |-> count, timer |-> timer,
        reloadTimer |-> reloadTimer, repaint |-> repaint, reply |-> reply,
        userTimer |-> userTimer, overlayTimer |-> overlayTimer, loop |-> loop,
        corrupt |-> corrupt, results |-> results]

Become(u) ==
  /\ stack' = u.stack /\ alive' = u.alive /\ quit' = u.quit
  /\ refilter' = u.refilter /\ reload' = u.reload /\ dirty' = u.dirty
  /\ mode' = u.mode /\ typed' = u.typed /\ stale' = u.stale
  /\ slow' = u.slow /\ count' = u.count /\ timer' = u.timer
  /\ reloadTimer' = u.reloadTimer /\ repaint' = u.repaint /\ reply' = u.reply
  /\ userTimer' = u.userTimer /\ overlayTimer' = u.overlayTimer
  /\ loop' = u.loop /\ corrupt' = u.corrupt /\ results' = u.results
  /\ UNCHANGED backend

\* f and then g, where g may do several things.
Then(S, g(_)) == UNION {g(u) : u \in S}

NoTimer == [view |-> None, due |-> FALSE]
Started(v) == [view |-> v, due |-> FALSE]

Modes == 0 .. NumModes - 1

\* What the list of the menu is computed from: the text and the options of the
\* user, the matcher, and the rows of the mode.
Parts == {"input", "matcher", "rows"}

-----------------------------------------------------------------------------
\* rofi_view_queue_redraw.
QueueRedraw(u) ==
  IF u.stack = <<>> \/ u.repaint THEN u
  ELSE [u EXCEPT !.repaint = TRUE,
                 !.dirty = IF backend = "wayland" THEN @ \cup {Head(u.stack)} ELSE @]

\* rofi_view_update(v, TRUE).  On wayland what is drawn is committed, and the
\* compositor answers with a frame callback.
Update(u, v) ==
  IF v \notin u.dirty THEN u
  ELSE QueueRedraw([u EXCEPT !.dirty = @ \ {v}, !.reply = @ \/ backend = "wayland"])

\* rofi_view_set_active: a view is stacked on the active one, or popped.
Push(u, v) ==
  QueueRedraw([u EXCEPT !.stack = <<v>> \o @, !.alive = @ \cup {v}, !.dirty = @ \cup {v}])

Pop(u) ==
  LET rest == Tail(u.stack) IN
  QueueRedraw([u EXCEPT !.stack = rest,
                        !.dirty = IF rest = <<>> THEN @ ELSE @ \cup {Head(rest)}])

\* Mutant: a view that is not the active one stays in the queue.
RemoveActiveOnly(u, v) == IF Head(u.stack) = v THEN Pop(u) ELSE u

\* rofi_view_remove_active.
RemoveActive(u, v) ==
  IF Head(u.stack) = v THEN Pop(u)
  ELSE [u EXCEPT !.stack = RemoveAt(@, CHOOSE i \in DOMAIN @ : @[i] = v)]

\* rofi_view_free.  The refilter timer of the view is not touched.
Free(u, v) ==
  [u EXCEPT !.alive = @ \ {v}, !.quit = @ \ {v}, !.refilter = @ \ {v},
            !.reload = @ \ {v}, !.dirty = @ \ {v}]

\* rofi_view_error_dialog, if the code called here fails.
Unused(u) == Dialogs \ (u.alive \cup {u.timer.view})
MayFail(u) ==
  {u} \cup {Push(u, d) : d \in {e \in Unused(u) : \A f \in Unused(u) : e <= f}}

-----------------------------------------------------------------------------
\* The list is computed from the input, and from the rows if they are read again.
Listed(u) ==
  [u EXCEPT !.stale = IF Menu \in u.reload THEN {} ELSE @ \cap {"rows"},
            !.reload = @ \ {Menu}, !.refilter = @ \ {Menu}, !.dirty = @ \cup {Menu}]

\* The time it took, and config.auto_select with a single row.
Filtered(u, s, q) == [u EXCEPT !.slow = s, !.quit = q]

\* rofi_view_refilter_real.  Filtering moves the selection, which may run a
\* command that fails.
RefilterReal(u, v) ==
  LET cleared == [u EXCEPT !.timer = NoTimer, !.count = 0] IN
  IF v \notin u.alive THEN {[cleared EXCEPT !.corrupt = TRUE]}
  ELSE IF v # Menu THEN {cleared}
    ELSE {Update(Filtered(w, s, q), Menu) :
            w \in MayFail(Listed(cleared)),
            s \in IF u.typed THEN BOOLEAN ELSE {u.slow},
            q \in {u.quit} \cup IF AutoSelect THEN {u.quit \cup {Menu}} ELSE {}}

\* Does the view have text to match?  A dialog has its message.
HasText(u, v) == v # Menu \/ u.typed

\* The filter is left to the timer, which starts again.
PutOff(u, v) == [u EXCEPT !.timer = Started(v), !.count = @ + 1]

\* Mutant: a filter may be put off for ever.
RefilterWheneverQuiet(u, v) ==
  IF u.slow /\ HasText(u, v)
  THEN {[u EXCEPT !.timer = Started(v)]}
  ELSE RefilterReal([u EXCEPT !.timer = NoTimer], v)

\* Mutant: the limit is off by one.
RefilterOnceMore(u, v) ==
  IF u.slow /\ HasText(u, v) /\ u.count + 1 <= CountLimit
  THEN {PutOff(u, v)}
  ELSE RefilterReal([u EXCEPT !.timer = NoTimer], v)

\* rofi_view_refilter.
Refilter(u, v) ==
  IF u.slow /\ HasText(u, v) /\ u.count + 1 < CountLimit
  THEN {PutOff(u, v)}
  ELSE RefilterReal([u EXCEPT !.timer = NoTimer], v)

\* rofi_view_refilter_force.
RefilterForce(u, v) ==
  LET stopped == [u EXCEPT !.timer = NoTimer] IN
  IF v \in u.refilter THEN RefilterReal(stopped, v) ELSE {stopped}

-----------------------------------------------------------------------------
\* What mode_result may ask for, and the mode that process_result goes to.
Results == [ask : {"next", "previous", "reload", "reset"}] \cup
           [ask : {"mode"}, mode : Modes]

NextMode(m, retv) ==
  CASE retv.ask = "next" -> (m + 1) % NumModes
    [] retv.ask = "previous" -> IF m = 0 THEN NumModes - 1 ELSE (m - 1) % NumModes
    [] retv.ask \in {"reload", "reset"} -> m
    [] retv.ask = "mode" -> retv.mode % NumModes

\* Mutant: the rows of the mode are not loaded again.
SwitchModeOnly(u) ==
  {Update(w, Menu) :
     w \in RefilterForce([u EXCEPT !.quit = @ \ {Menu},
                                   !.refilter = @ \cup {Menu}], Menu)}

\* rofi_view_switch_mode.
SwitchMode(u) ==
  {Update(w, Menu) :
     w \in RefilterForce([u EXCEPT !.quit = @ \ {Menu},
                                   !.reload = @ \cup {Menu},
                                   !.refilter = @ \cup {Menu}], Menu)}

\* The mode acts on the result and may replace the input and its rows.
Answered(u, retv, text) ==
  [u EXCEPT !.mode = NextMode(@, retv),
            !.typed = IF retv.ask = "reset" THEN FALSE ELSE text,
            !.stale = {"input", "rows"} \cup @]

\* process_result of the menu: the mode is switched, or the menu goes away.
Switched(u) ==
  UNION {SwitchMode(Answered(u, retv, t)) : retv \in Results, t \in BOOLEAN}

Closed(u, v) == Free(RemoveActive(u, v), v)

ProcessResult(u, v) ==
  IF v # Menu THEN {Closed(u, v)}
  ELSE Then(MayFail(u), LAMBDA w : Switched(w) \cup {Closed(w, Menu)})

\* rofi_view_maybe_update.  The command for the user may fail, too.
Refresh(u, v) ==
  {Update(w, v) : w \in IF v \in u.refilter THEN Refilter(u, v) ELSE {u}}

Finalized(u, v) ==
  Then(MayFail(u), LAMBDA w : ProcessResult([w EXCEPT !.results = ~@], v))

MaybeUpdate(u, v) ==
  IF v \in u.quit
  THEN Then(Finalized(u, v),
            LAMBDA w : IF w.stack = <<>> THEN {[w EXCEPT !.loop = "ends"]}
                       ELSE Refresh(w, Head(w.stack)))
  ELSE Refresh(u, v)

-----------------------------------------------------------------------------
\* The view handed to the first maybe_update: rofi_view_create filtered it.
\* A command that failed during that filter left a dialog below the menu.
Init ==
  /\ backend \in Backends
  /\ mode \in Modes /\ typed \in BOOLEAN /\ stale = {}
  /\ stack \in {<<Menu>>} \cup {<<Menu, d>> : d \in {e \in Dialogs : \A f \in Dialogs : e <= f}}
  /\ alive = ToSet(stack)
  /\ quit \in {{}} \cup IF AutoSelect THEN {{Menu}} ELSE {}
  /\ refilter = {} /\ reload = {} /\ dirty = ToSet(stack)
  /\ slow \in {FALSE, typed}
  /\ count = 0 /\ timer = NoTimer
  /\ reloadTimer = FALSE /\ repaint = TRUE /\ reply = FALSE
  /\ userTimer = UserTimeout /\ overlayTimer = FALSE
  /\ loop = "runs" /\ corrupt = FALSE /\ results = FALSE

Running == loop = "runs" /\ ~corrupt
Active == Head(stack)

\* rofi_view_trigger_action starts the timeout of the user again.
Triggered(u) == [u EXCEPT !.userTimer = UserTimeout]

\* What the global actions do to the active view, up to rofi_view_maybe_update.
\* The ACCEPT_* actions filter first; the others that leave the view
\* (SELECT_ELEMENT_*, CUSTOM_*, MODE_*, DELETE_ENTRY, CANCEL, a click) do not.
Accepting(u, v) == {[w EXCEPT !.quit = @ \cup {v}] : w \in RefilterForce(u, v)}
Leaving(u, v) == {[u EXCEPT !.quit = @ \cup {v}]}

\* Mutant: an edit of the text does not ask for a filter.
EditedOnly(u, v) ==
  IF v = Menu
  THEN {[u EXCEPT !.typed = t, !.stale = @ \cup {"input"}, !.dirty = @ \cup {v}] :
          t \in BOOLEAN}
  ELSE {u}

\* The text changes.
Retyped(u, v, text) ==
  [u EXCEPT !.typed = text, !.stale = @ \cup {"input"}, !.refilter = @ \cup {v},
            !.dirty = @ \cup {v}]

\* Edits of the text (keys, paste, entry history, ROW_SELECT), TOGGLE_SORT and
\* TOGGLE_CASE_SENSITIVITY.  An edit may trigger the action "inputchange".
Edited(u, v) ==
  IF v # Menu THEN {u}
  ELSE LET edits == {Retyped(u, v, t) : t \in BOOLEAN} IN
       edits \cup UNION {Accepting(w, v) \cup Leaving(w, v) : w \in edits}

\* MATCHER_UP and MATCHER_DOWN filter at once, or start the timer, and show
\* the name of the matcher for a while on top of the menu.
Overlaid(u, v) ==
  IF v # Menu THEN u
  ELSE QueueRedraw([u EXCEPT !.overlayTimer = TRUE, !.dirty = @ \cup {v}])

Rematched(u, v) ==
  {Overlaid(w, v) : w \in Refilter([u EXCEPT !.stale = @ \cup {"matcher"}], v)}

\* Everything else: motion, navigation, which may run a command that fails.
Moved(u, v) == {[w EXCEPT !.dirty = @ \cup {v}] : w \in MayFail(u)} \cup {u}

\* An event of the user: it is handled, then the view is updated.
Event(Handled(_, _)) ==
  /\ Running
  /\ \E u \in Then(Handled(Triggered(Now), Active), LAMBDA w : MaybeUpdate(w, Active)) :
       Become(u)

Accept == Event(Accepting)
Leave == Event(Leaving)
Edit == Event(Edited)
Rematch == Event(Rematched)
Move == Event(Moved)

\* rofi_view_user_timeout triggers one action, and nothing looks at the
\* flags it sets.
UserTimeoutFires ==
  /\ Running /\ userTimer
  /\ \E u \in Accepting(Triggered(Now), Active) \cup Leaving(Triggered(Now), Active) :
       Become(u)

\* Mutant: the cursor marks itself, but asks for no redraw.
BlinkMarks ==
  /\ Running /\ Blink /\ Menu \in alive
  /\ Become([Now EXCEPT !.dirty = @ \cup {Menu}])

\* textbox_blink.
BlinkFires ==
  /\ Running /\ Blink /\ Menu \in alive
  /\ Become(QueueRedraw([Now EXCEPT !.dirty = @ \cup {Menu}]))

\* rofi_view_overlay_timeout.
OverlayFires ==
  /\ Running /\ overlayTimer
  /\ Become(QueueRedraw([Now EXCEPT !.overlayTimer = FALSE, !.dirty = @ \cup {Active}]))

\* The rows of the mode change and the mode calls rofi_view_reload.
RowsChange ==
  /\ Running /\ Menu \in alive
  /\ Become([Now EXCEPT !.stale = @ \cup {"rows"}, !.reloadTimer = TRUE])

\* rofi_view_reload_idle: it is the active view that is reloaded.
ReloadFires ==
  /\ Running /\ reloadTimer /\ reloadTimer' = FALSE
  /\ LET asked == [Now EXCEPT !.reload = @ \cup {Active}, !.refilter = @ \cup {Active}]
     IN \E u \in IF backend = "xcb" THEN {QueueRedraw(asked)}
                 ELSE MaybeUpdate(asked, Active) :
          Become([u EXCEPT !.reloadTimer = FALSE])

\* rofi_view_repaint.  On X11 the window gets a copy of what is drawn, and
\* the server answers with an event; on wayland the view is updated.
Repaint ==
  /\ Running /\ repaint /\ repaint' = FALSE
  /\ \E u \in IF backend = "xcb" THEN {[Now EXCEPT !.dirty = @ \ {Active}, !.reply = TRUE]}
              ELSE MaybeUpdate(Now, Active) :
       Become([u EXCEPT !.repaint = FALSE])

\* The answer: an X11 event like any other, or rofi_view_frame_callback.
Reply ==
  /\ Running /\ reply /\ reply' = FALSE
  /\ LET got == [Now EXCEPT !.reply = FALSE]
     IN \E u \in IF backend = "xcb" THEN MaybeUpdate(got, Active)
                 ELSE {[got EXCEPT !.repaint = TRUE]} :
          Become(u)

\* The refilter timer runs down, unless it is started again.
TimerRuns ==
  /\ Running /\ timer.view # None /\ ~timer.due
  /\ Become([Now EXCEPT !.timer.due = TRUE])

\* The callback of the timer is rofi_view_refilter_real.  A timer that is due
\* with the event that ends the main loop is dispatched in the same iteration.
TimerFires ==
  /\ loop \in {"runs", "ends"} /\ ~corrupt
  /\ timer.due /\ timer' = NoTimer
  /\ \E u \in RefilterReal(Now, timer.view) : Become(u)

\* SIGINT, or the window is destroyed by somebody else.
Interrupt == Running /\ Become([Now EXCEPT !.loop = "ends"])

\* teardown: rofi_view_cleanup stops the timers.
Teardown ==
  /\ loop = "ends" /\ ~corrupt
  /\ Become([Now EXCEPT !.loop = "over", !.timer = NoTimer, !.reloadTimer = FALSE,
                        !.repaint = FALSE, !.userTimer = FALSE, !.overlayTimer = FALSE])

UserStep == Accept \/ Leave \/ Edit \/ Rematch \/ Move
SourceStep ==
  BlinkFires \/ OverlayFires \/ ReloadFires \/ Repaint \/ Reply \/ TimerRuns \/ TimerFires

Next ==
  UserStep \/ SourceStep \/ UserTimeoutFires \/ RowsChange \/ Interrupt \/ Teardown

\* The main loop serves its sources and the display server answers.  Nobody has
\* to type, and a timer that is started again and again need not run out.
Fairness ==
  /\ WF_vars(BlinkFires) /\ WF_vars(ReloadFires) /\ WF_vars(Repaint) /\ WF_vars(Reply)
  /\ WF_vars(TimerRuns) /\ WF_vars(TimerFires)

Spec == Init /\ [][Next]_vars /\ Fairness

-----------------------------------------------------------------------------
\* The variables have their types.
TypeOK ==
  /\ backend \in Backends
  /\ stack \in Seq(Views)
  /\ alive \subseteq Views /\ quit \subseteq Views /\ refilter \subseteq Views
  /\ reload \subseteq Views /\ dirty \subseteq Views
  /\ mode \in Modes /\ typed \in BOOLEAN /\ stale \subseteq Parts
  /\ slow \in BOOLEAN /\ count \in 0 .. CountLimit - 1
  /\ timer \in [view : Views \cup {None}, due : BOOLEAN]
  /\ reloadTimer \in BOOLEAN /\ repaint \in BOOLEAN /\ reply \in BOOLEAN
  /\ userTimer \in BOOLEAN /\ overlayTimer \in BOOLEAN
  /\ loop \in {"runs", "ends", "over"} /\ corrupt \in BOOLEAN /\ results \in BOOLEAN

\* The views that can be reached (current_active_menu and CacheState.views) are
\* those that are allocated, each once, and while the loop runs there is one:
\* process_result may free any of them while others are stacked on it, and
\* leaves none behind.  Nothing is marked on a view that is gone.
StackSound ==
  /\ IsInjective(stack) /\ alive = ToSet(stack)
  /\ quit \cup refilter \cup reload \cup dirty \subseteq alive
  /\ loop = "runs" => stack # <<>>

\* The list of the menu never silently disagrees with what the user typed or
\* with the matcher that is selected: either a filter is still asked for, or it
\* was put off and the timer is going to do it, or the menu is about to end.
ListFollowsInput ==
  Running /\ Menu \in alive =>
    /\ "input" \in stale => Menu \in refilter
    /\ "matcher" \in stale /\ Dialogs = {} =>
         timer.view = Menu \/ Menu \in refilter \cup quit

\* The inductive invariant.
IInv == TypeOK /\ StackSound /\ ListFollowsInput

\* A row that the mode adds is shown in the end: the reload that is asked for
\* while another one is pending, or while a filter is put off, is not lost.
RowsShown == Running /\ "rows" \in stale ~> ~Running \/ "rows" \notin stale

\* A user who never stops typing into a slow list still sees it filtered now
\* and then: each filter that is put off counts, and the count is limited.
FilterNotPutOff ==
  Running /\ Menu \in refilter ~> ~Running \/ Menu \notin refilter

\* A view that is done is finalized, although only an event looks at the flag:
\* a command that is accepted is run, a view that is cancelled goes away.
QuitHandled ==
  \A b \in BOOLEAN :
    Running /\ Menu \in quit /\ results = b ~> ~Running \/ Menu \notin quit \/ results # b

\* Nobody uses a view after rofi_view_free (include/view.h).
NoUseAfterFree == ~corrupt

\* The assertion at the end of xcb_rofi_view_cleanup.
QueueIsEmptyAtCleanup ==
  backend = "xcb" /\ loop = "over" => Len(stack) <= 1
=============================================================================
