----------------------------- MODULE WindowMode -----------------------------
(***************************************************************************)
(* The list of windows while windows come and go (modes/window.c,          *)
(* modes/wayland-window.c).  The X server tells that some window was made  *)
(* or destroyed; a tenth of a second after the last of these rofi reads    *)
(* the list of the window manager anew, and asks for each window in it.    *)
(* A Wayland compositor sends each change, and rofi changes its list at    *)
(* once and the view later.                                                *)
(***************************************************************************)
EXTENDS Integers, Sequences, SequencesExt

CONSTANTS
  Servers,      \* "x11", "wayland"
  Windows,      \* windows that may exist
  MaxEvents     \* bound: events that are under way

VARIABLES
  server,       \* which display server it is
  exist,        \* the windows there are
  listed,       \* _NET_CLIENT_LIST_STACKING, which an X11 window manager keeps
  events,       \* from the server to rofi, in order
  ids,          \* pd->ids or pd->toplevels: the rows of the mode
  reading,      \* rofi loads the list: the windows it has not asked for yet
  loading,
  timer,        \* window_reload_timeout
  idle,         \* rofi_view_reload was called, the view reloads
  inView        \* the rows the view has

wmvars == <<server, exist, listed, events, ids, reading, loading, timer, idle, inView>>

WindowAssumption == /\ Servers \subseteq {"x11", "wayland"} /\ IsFiniteSet(Windows)
                    /\ MaxEvents \in Nat
ASSUME WindowAssumption

Event(kind, w) == [kind |-> kind, window |-> w]

(* What rofi has when it shows its window.                                 *)
WindowInit ==
  /\ server \in Servers /\ exist \in SUBSET Windows
  /\ ids \in SetToSeqs(exist) /\ inView = ids
  /\ listed = IF server = "x11" THEN Reverse(ids) ELSE <<>>
  /\ events = <<>> /\ reading = <<>> /\ loading = FALSE /\ timer = FALSE /\ idle = FALSE

-----------------------------------------------------------------------------
(* The server and the window manager.                                      *)
Without(s, w) == IF w \in ToSet(s) THEN RemoveAt(s, CHOOSE i \in DOMAIN s : s[i] = w) ELSE s
Tell(es) == Len(events) + Len(es) <= MaxEvents /\ events' = events \o es
Create(w) ==
  /\ w \notin exist /\ w \notin ToSet(listed) /\ exist' = exist \cup {w}
  /\ Tell(IF server = "x11" THEN <<Event("create", w)>>
          ELSE <<Event("toplevel", w), Event("done", w)>>)
  /\ UNCHANGED <<server, listed, ids, reading, loading, timer, idle, inView>>
Destroy(w) ==
  /\ w \in exist /\ exist' = exist \ {w}
  /\ Tell(<<Event(IF server = "x11" THEN "destroy" ELSE "closed", w)>>)
  /\ UNCHANGED <<server, listed, ids, reading, loading, timer, idle, inView>>
NewTitle(w) ==
  /\ server = "wayland" /\ w \in exist /\ Tell(<<Event("done", w)>>)
  /\ UNCHANGED <<server, exist, listed, ids, reading, loading, timer, idle, inView>>
Manage(w) ==
  /\ server = "x11"
  /\ \/ w \in exist /\ w \notin ToSet(listed) /\ listed' = Append(listed, w)
     \/ w \notin exist /\ w \in ToSet(listed) /\ listed' = Without(listed, w)
  /\ UNCHANGED <<server, exist, events, ids, reading, loading, timer, idle, inView>>

-----------------------------------------------------------------------------
(* While it loads the list rofi does nothing else.                         *)
Received(kinds) ==
  /\ ~loading /\ events # <<>> /\ Head(events).kind \in kinds /\ events' = Tail(events)

(* window_client_handle_signal: the timer starts again.                    *)
HandleSignal ==
  /\ Received({"create", "destroy"}) /\ timer' = TRUE
  /\ UNCHANGED <<server, exist, listed, ids, reading, loading, idle, inView>>
(* window_client_reload: the mode is destroyed and made anew.              *)
ClientReload ==
  /\ timer /\ ~loading /\ timer' = FALSE /\ ids' = <<>> /\ reading' = listed /\ loading' = TRUE
  /\ UNCHANGED <<server, exist, listed, events, idle, inView>>
(* _window_mode_load_data asks the server for one window after the other,  *)
(* from the top; one that was destroyed meanwhile is left out.             *)
WindowClient ==
  /\ loading /\ reading # <<>> /\ reading' = Front(reading)
  /\ ids' = IF Last(reading) \in exist THEN Append(ids, Last(reading)) ELSE ids
  /\ UNCHANGED <<server, exist, listed, events, loading, timer, idle, inView>>
LoadEnds ==
  /\ loading /\ reading = <<>> /\ loading' = FALSE /\ idle' = TRUE
  /\ UNCHANGED <<server, exist, listed, events, ids, reading, timer, inView>>

(* foreign_toplevel_manager_toplevel, foreign_toplevel_handle_done,        *)
(* foreign_toplevel_handle_closed                                          *)
Toplevel ==
  /\ Received({"toplevel"}) /\ ids' = <<Head(events).window>> \o ids
  /\ UNCHANGED <<server, exist, listed, reading, loading, timer, idle, inView>>
HandleDone ==
  /\ Received({"done"}) /\ idle' = TRUE
  /\ UNCHANGED <<server, exist, listed, ids, reading, loading, timer, inView>>
(* Mutant: the window leaves the list without a reload of the view. *)
HandleClosedLater ==
  /\ Received({"closed"}) /\ ids' = Without(ids, Head(events).window)
  /\ UNCHANGED <<server, exist, listed, reading, loading, timer, idle, inView>>

HandleClosed ==
  /\ Received({"closed"}) /\ ids' = Without(ids, Head(events).window) /\ idle' = TRUE
  /\ UNCHANGED <<server, exist, listed, reading, loading, timer, inView>>

(* The view reloads.                                                       *)
ViewReload ==
  /\ idle /\ ~loading /\ idle' = FALSE /\ inView' = ids
  /\ UNCHANGED <<server, exist, listed, events, ids, reading, loading, timer>>

WindowNext ==
  \/ HandleSignal \/ ClientReload \/ WindowClient \/ LoadEnds
  \/ Toplevel \/ HandleDone \/ HandleClosed \/ ViewReload
  \/ \E w \in Windows : Create(w) \/ Destroy(w) \/ NewTitle(w) \/ Manage(w)

WindowSpec == WindowInit /\ [][WindowNext]_wmvars

WindowTypeOK ==
  /\ server \in Servers /\ exist \subseteq Windows
  /\ loading \in BOOLEAN /\ timer \in BOOLEAN /\ idle \in BOOLEAN
  /\ listed \in Seq(Windows) /\ ids \in Seq(Windows) /\ reading \in Seq(Windows)
  /\ inView \in Seq(Windows)
  /\ events \in Seq([kind : {"create", "destroy", "toplevel", "done", "closed"}, window : Windows])

(* When no change is under way, no timer runs and the list is not being    *)
(* read, the view shows no window that is gone and none twice, and on      *)
(* Wayland it shows every window.  (On X11 a window that the manager lists *)
(* later than a tenth of a second after it was made stays out until the    *)
(* next one is made.)                                                      *)
RowsFollowWindows ==
  events = <<>> /\ ~timer /\ ~loading /\ ~idle =>
    /\ ToSet(inView) \subseteq exist /\ IsInjective(inView)
    /\ server = "wayland" => ToSet(inView) = exist
=============================================================================
