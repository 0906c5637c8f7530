---------------------------- MODULE WaylandSurface ----------------------------
(***************************************************************************)
(* Drawing on wayland (wayland/display.c, wayland/view.c): a view draws    *)
(* into one of the buffers of its pool and hands it to the compositor,     *)
(* which reads it until it releases it.  A new size or scale, or a surface *)
(* that the compositor closed, needs a new pool while the old one is still *)
(* read.  A frame callback is asked for ahead and takes effect with the    *)
(* next commit.                                                            *)
(***************************************************************************)
EXTENDS Integers

CONSTANTS
  Buffers,      \* the buffers of a pool, by their index (wayland->buffer_count)
  MaxPools      \* bound: the pools that are made

ASSUME WaylandSurfaceAssumption == Buffers \subseteq Nat /\ MaxPools \in Nat

(* The pools, in the order in which they are made.                         *)
Pools == 1 .. MaxPools

VARIABLES
  pools,        \* the pools that were made: to_free, released, buffers, mapped
  pool,         \* state->pool, 0 for none
  made,         \* how many pools were made
  reading,      \* the buffers the compositor may read
  current,      \* the one it shows
  needRedraw,   \* the main window is to be drawn
  painter,      \* WlState.repaint_source
  frame         \* wayland->frame_cb: "none", "asked", "committed" or "done"

wlvars == <<pools, pool, made, reading, current, needRedraw, painter, frame>>

NoBuffer == <<0, 0>>
NewPool == [toFree |-> FALSE, released |-> Buffers, buffers |-> Buffers, mapped |-> TRUE]

(* wayland_display_late_setup; the view has just been created.             *)
SurfaceInit ==
  /\ pools = [p \in Pools |-> NewPool] /\ pool = 0 /\ made = 0 /\ reading = {}
  /\ current = NoBuffer /\ needRedraw = TRUE /\ painter = TRUE /\ frame = "asked"

(* Mutant: the pool goes with the buffers the compositor still reads. *)
CleanupAll(p) == IF ~p.toFree THEN p ELSE [p EXCEPT !.buffers = {}, !.mapped = FALSE]

(* wayland_buffer_cleanup: a pool that is to be freed goes with the last   *)
(* of its buffers.                                                         *)
Cleanup(p) ==
  IF ~p.toFree THEN p
  ELSE LET left == p.buffers \ p.released
       IN  [p EXCEPT !.buffers = left, !.mapped = left # {}]
PoolFree(ps, i) == IF i = 0 THEN ps ELSE [ps EXCEPT ![i] = Cleanup([@ EXCEPT !.toFree = TRUE])]

(* What a handler does is a sequence of these, on a record of the state.   *)
SurfaceNow ==
  [pools |-> pools, pool |-> pool, made |-> made, reading |-> reading, current |-> current,
   need |-> needRedraw, repaint |-> painter, frame |-> frame]
SurfaceBecomes(s) ==
  /\ pools' = s.pools /\ pool' = s.pool /\ made' = s.made /\ reading' = s.reading
  /\ current' = s.current /\ needRedraw' = s.need /\ painter' = s.repaint /\ frame' = s.frame

(* wayland_rofi_view_queue_redraw                                          *)
QueueViewRedraw(s) == IF s.repaint THEN s ELSE [s EXCEPT !.need = TRUE, !.repaint = TRUE]

(* display_surface_commit                                                  *)
Commit(s, b) ==
  [s EXCEPT !.pools[s.pool].released = @ \ {b}, !.reading = @ \cup {<<s.pool, b>>},
            !.current = <<s.pool, b>>, !.frame = IF @ = "asked" THEN "committed" ELSE @]

(* wayland_rofi_view_update: without a free buffer nothing is drawn.       *)
WithPool(s) == IF s.pool # 0 THEN s ELSE [s EXCEPT !.pool = s.made + 1, !.made = @ + 1]
Released(s) == s.pools[s.pool].released
First(bs) == CHOOSE b \in bs : \A c \in bs : b <= c
ViewUpdate(s) ==
  IF ~s.need THEN s
  ELSE LET p == WithPool(s)
       IN  IF Released(p) = {} THEN p
           ELSE QueueViewRedraw(Commit([p EXCEPT !.need = FALSE], First(Released(p))))

(* wayland_rofi_view_pool_refresh                                          *)
PoolRefresh(s) == ViewUpdate([s EXCEPT !.pools = PoolFree(s.pools, s.pool), !.pool = 0])
(* wayland_rofi_view_set_size: widget_resize always asks for a redraw.     *)
SetSize(s) == PoolRefresh([s EXCEPT !.need = TRUE])
CanMake(n) == made + n <= MaxPools

(* Anything that changes a widget: the event ends in rofi_view_maybe_update*)
WidgetChanges == CanMake(1) /\ SurfaceBecomes(ViewUpdate([SurfaceNow EXCEPT !.need = TRUE]))
(* Or the widget asks for a redraw itself, as the cursor that blinks.      *)
CursorBlinks == SurfaceBecomes(QueueViewRedraw([SurfaceNow EXCEPT !.need = TRUE]))

(* wayland_rofi_view_repaint: the source counts as queued until the end.   *)
ViewRepaint ==
  /\ painter /\ CanMake(1) /\ SurfaceBecomes([ViewUpdate(SurfaceNow) EXCEPT !.repaint = FALSE])

(* wayland_surface_protocol_enter, of an output with another scale.        *)
ChangeScale == CanMake(2) /\ SurfaceBecomes(SetSize(PoolRefresh(SurfaceNow)))

(* The filter changed the height (rofi_view_window_update_size).           *)
Resize == CanMake(1) /\ SurfaceBecomes(SetSize(SurfaceNow))

(* wayland_frame_callback: the next one is asked for.                      *)
FrameCallback(s) == [s EXCEPT !.repaint = IF s.frame = "none" THEN @ ELSE TRUE, !.frame = "asked"]
FrameDone == /\ frame = "done" /\ SurfaceBecomes(FrameCallback(SurfaceNow))

(* wayland_layer_shell_surface_closed: what was asked of the old surface   *)
(* is void, and so is what it showed.                                      *)
SurfaceClosed ==
  /\ CanMake(2)
  /\ LET setup == FrameCallback([SurfaceNow EXCEPT !.current = NoBuffer])
     IN  SurfaceBecomes(SetSize(PoolRefresh(setup)))

(* wayland_buffer_release                                                  *)
Release(p, b) ==
  /\ <<p, b>> \in reading /\ <<p, b>> # current /\ reading' = reading \ {<<p, b>>}
  /\ pools' = [pools EXCEPT ![p] = Cleanup([pools[p] EXCEPT !.released = @ \cup {b}])]
  /\ UNCHANGED <<pool, made, current, needRedraw, painter, frame>>

(* The compositor has shown a commit; it may read older buffers still.     *)
Shown == /\ frame = "committed" /\ frame' = "done"
         /\ UNCHANGED <<pools, pool, made, reading, current, needRedraw, painter>>

SurfaceNext ==
  \/ WidgetChanges \/ CursorBlinks \/ ViewRepaint \/ ChangeScale \/ Resize \/ FrameDone
  \/ SurfaceClosed \/ Shown
  \/ \E p \in Pools, b \in Buffers : Release(p, b)

SurfaceSpec == SurfaceInit /\ [][SurfaceNext]_wlvars

PoolType == [toFree : BOOLEAN, released : SUBSET Buffers, buffers : SUBSET Buffers, mapped : BOOLEAN]
SurfaceTypeOK ==
  /\ pools \in [Pools -> PoolType] /\ pool \in 0 .. MaxPools /\ made \in 0 .. MaxPools
  /\ reading \subseteq Pools \X Buffers /\ current \in reading \cup {NoBuffer}
  /\ needRedraw \in BOOLEAN /\ painter \in BOOLEAN
  /\ frame \in {"none", "asked", "committed", "done"}

(* What the compositor may read is there and is not drawn into, however    *)
(* often the size, the scale or the surface changes before it releases     *)
(* what it has; and a pool it no longer reads is not kept for ever.        *)
BuffersAreSafe ==
  /\ \A r \in reading : /\ pools[r[1]].mapped /\ r[2] \in pools[r[1]].buffers
                        /\ r[2] \notin pools[r[1]].released
  /\ \A p \in Pools : pools[p].toFree /\ pools[p].mapped => \E r \in reading : r[1] = p

(* What it rests on: a buffer is read from its commit to its release; a    *)
(* pool that is to be freed has only buffers that are read, and is there   *)
(* as long as it has one; the pool of the view is not one of those; and a  *)
(* pool that was not made yet is as a new one.                             *)
BuffersFit(s) ==
  /\ \A p \in Pools, b \in Buffers :
       <<p, b>> \in s.reading <=> b \in s.pools[p].buffers /\ b \notin s.pools[p].released
  /\ \A p \in Pools :
       IF s.pools[p].toFree
       THEN /\ s.pools[p].mapped <=> s.pools[p].buffers # {}
            /\ s.pools[p].buffers \cap s.pools[p].released = {}
       ELSE s.pools[p].mapped /\ s.pools[p].buffers = Buffers
  /\ \A p \in Pools : p > s.made => s.pools[p] = NewPool
  /\ s.pool # 0 => s.pool <= s.made /\ ~s.pools[s.pool].toFree
SurfaceInv == SurfaceTypeOK /\ BuffersFit(SurfaceNow) /\ BuffersAreSafe
=============================================================================
