----------------------------- MODULE View_proofs -----------------------------
(***************************************************************************)
(* Proofs about the main loop and the Wayland backend that feeds it.  The  *)
(* loop: the stack of views, what is allocated and what is marked on the   *)
(* views agree, and the list of the menu never silently disagrees with the *)
(* input, for any number of modes and dialogs, any limit, both backends    *)
(* and all settings.  A seat: a key repeats only while it is held, or was  *)
(* when the keyboard was lost, and a wheel loses nothing, for any keys and *)
(* any turns.  Drawing: a buffer that the compositor reads is there and    *)
(* not drawn into, and no pool stays behind, for any buffers and any       *)
(* number of pools.                                                        *)
(***************************************************************************)
EXTENDS View, WaylandSeat, WaylandSurface, SequenceLemmas

USE ViewAssumption

-----------------------------------------------------------------------------
(* What a function of the view may leave behind.                           *)
States ==
  [stack : Seq(Views), alive : SUBSET Views, quit : SUBSET Views, refilter : SUBSET Views,
   reload : SUBSET Views, dirty : SUBSET Views, mode : Modes, typed : BOOLEAN,
   stale : SUBSET Parts, slow : BOOLEAN, count : 0 .. CountLimit - 1,
   timer : [view : Views \cup {None}, due : BOOLEAN], reloadTimer : BOOLEAN,
   repaint : BOOLEAN, reply : BOOLEAN, userTimer : BOOLEAN, overlayTimer : BOOLEAN,
   loop : {"runs", "ends", "over"}, corrupt : BOOLEAN, results : BOOLEAN]

Sound(u) ==
  /\ u \in States
  /\ IsInjective(u.stack) /\ u.alive = ToSet(u.stack)
  /\ u.quit \cup u.refilter \cup u.reload \cup u.dirty \subseteq u.alive

\* The list is computed, or will be.
InputDue(u) == Menu \in u.alive /\ "input" \in u.stale => Menu \in u.refilter
MatcherDue(u) ==
  Menu \in u.alive /\ "matcher" \in u.stale /\ Dialogs = {} /\ ~u.corrupt =>
    u.timer.view = Menu \/ Menu \in u.refilter \cup u.quit
Due(u) == InputDue(u) /\ MatcherDue(u)

\* From u to w views are at most added, and none of them is the menu.
Grows(u, w) ==
  /\ u.alive \subseteq w.alive /\ (Menu \in w.alive => Menu \in u.alive)
  /\ w.loop = u.loop
\* Nothing changes that decides whether the list is due.
Same(u, w) ==
  /\ w.quit = u.quit /\ w.refilter = u.refilter /\ w.stale = u.stale
  /\ w.timer = u.timer /\ w.corrupt = u.corrupt

\* The top of a stack that is not empty is a view that exists.
LEMMA HeadAlive ==
  ASSUME NEW u, Sound(u), u.stack # <<>>
  PROVE  Head(u.stack) \in u.alive /\ Head(u.stack) \in Views
<1>1. u.stack \in Seq(Views) /\ IsInjective(u.stack) /\ u.alive = ToSet(u.stack)
  BY DEF Sound, States
<1>2. Head(u.stack) \in ToSet(u.stack)
  BY <1>1, TailInjective
<1>3. Head(u.stack) \in Views
  BY <1>1, HeadTailProperties
<1>. QED  BY <1>1, <1>2, <1>3

\* Whoever is alive is on the stack.
LEMMA AliveStacked ==
  ASSUME NEW u, Sound(u), NEW v \in u.alive
  PROVE  u.stack # <<>> /\ v \in Views
<1>1. u.stack \in Seq(Views) /\ u.alive = ToSet(u.stack) /\ u.alive \subseteq Views
  BY DEF Sound, States
<1>2. ToSet(<<>>) = {}
  BY DEF ToSet
<1>. QED  BY <1>1, <1>2

\* rofi_view_queue_redraw adds a mark to a view that exists.
LEMMA QueueRedrawSound ==
  ASSUME NEW u, Sound(u)
  PROVE  Sound(QueueRedraw(u)) /\ Grows(u, QueueRedraw(u)) /\ Same(u, QueueRedraw(u))
<1> DEFINE w == QueueRedraw(u)
<1>1. CASE u.stack = <<>> \/ u.repaint
  BY <1>1 DEF QueueRedraw, Grows, Same
<1>2. CASE ~ (u.stack = <<>> \/ u.repaint)
  <2> DEFINE d == IF backend = "wayland" THEN u.dirty \cup {Head(u.stack)} ELSE u.dirty
  <2>1. u \in States /\ d \in SUBSET Views /\ d \subseteq u.alive
    BY <1>2, HeadAlive DEF Sound, States
  <2>2. w = [u EXCEPT !.repaint = TRUE, !.dirty = d]
    BY <1>2 DEF QueueRedraw
  <2> HIDE DEF d, w
  <2>3. w \in States
    BY <2>1, <2>2 DEF States
  <2>4. /\ w.stack = u.stack /\ w.alive = u.alive /\ w.quit = u.quit /\ w.refilter = u.refilter
        /\ w.reload = u.reload /\ w.dirty = d /\ w.stale = u.stale /\ w.timer = u.timer
        /\ w.corrupt = u.corrupt /\ w.loop = u.loop
    BY <2>1, <2>2 DEF States
  <2>5. Sound(w) /\ Grows(u, w) /\ Same(u, w)
    BY <2>1, <2>3, <2>4 DEF Sound, Grows, Same
  <2>. QED  BY <2>5 DEF w
<1>. QED  BY <1>1, <1>2

\* Grows and Same, one function after the other.
LEMMA Chain ==
  ASSUME NEW u, NEW w, NEW x, Grows(u, w), Grows(w, x)
  PROVE  Grows(u, x) /\ (Same(u, w) /\ Same(w, x) => Same(u, x))
BY DEF Grows, Same

\* rofi_view_update takes a mark away and may redraw.
LEMMA UpdateSound ==
  ASSUME NEW u, Sound(u), NEW v
  PROVE  Sound(Update(u, v)) /\ Grows(u, Update(u, v)) /\ Same(u, Update(u, v))
<1>1. CASE v \notin u.dirty
  BY <1>1 DEF Update, Grows, Same
<1>2. CASE v \in u.dirty
  <2> DEFINE d == u.dirty \ {v}
             r == u.reply \/ backend = "wayland"
             x == [u EXCEPT !.dirty = d, !.reply = r]
  <2>1. u \in States /\ d \in SUBSET Views /\ r \in BOOLEAN
    BY DEF Sound, States
  <2>2. Update(u, v) = QueueRedraw(x)
    BY <1>2 DEF Update
  <2>3. d \subseteq u.dirty
    OBVIOUS
  <2> HIDE DEF d, r
  <2>4. x \in States
    BY <2>1 DEF States
  <2>5. /\ x.stack = u.stack /\ x.alive = u.alive /\ x.quit = u.quit /\ x.refilter = u.refilter
        /\ x.reload = u.reload /\ x.dirty = d /\ x.stale = u.stale /\ x.timer = u.timer
        /\ x.corrupt = u.corrupt /\ x.loop = u.loop
    BY <2>1 DEF States
  <2> HIDE DEF x
  <2>6. Sound(x) /\ Grows(u, x) /\ Same(u, x)
    BY <2>3, <2>4, <2>5 DEF Sound, Grows, Same
  <2>. QED  BY <2>2, <2>6, QueueRedrawSound, Chain
<1>. QED  BY <1>1, <1>2

\* An error dialog on top of the stack.
LEMMA PushSound ==
  ASSUME NEW u, Sound(u), NEW v \in Dialogs, v \notin u.alive
  PROVE  Sound(Push(u, v)) /\ Grows(u, Push(u, v)) /\ Same(u, Push(u, v))
<1> DEFINE s == <<v>> \o u.stack
           a == u.alive \cup {v}
           d == u.dirty \cup {v}
           x == [u EXCEPT !.stack = s, !.alive = a, !.dirty = d]
<1>1. u \in States /\ u.stack \in Seq(Views) /\ v \in Views /\ v # Menu
  BY DEF Sound, States, Views, Menu
<1>2. s \in Seq(Views) /\ IsInjective(s) /\ ToSet(s) = a
  BY <1>1, PushInjective DEF Sound
<1>3. /\ a \in SUBSET Views /\ d \in SUBSET Views /\ u.alive \subseteq a /\ d \subseteq u.dirty \cup a
      /\ Menu \in a => Menu \in u.alive
  BY <1>1 DEF States
<1>4. Push(u, v) = QueueRedraw(x)
  BY DEF Push
<1> HIDE DEF s, a, d
<1>5. x \in States
  BY <1>1, <1>2, <1>3 DEF States
<1>6. /\ x.stack = s /\ x.alive = a /\ x.quit = u.quit /\ x.refilter = u.refilter
      /\ x.reload = u.reload /\ x.dirty = d /\ x.stale = u.stale /\ x.timer = u.timer
      /\ x.corrupt = u.corrupt /\ x.loop = u.loop
  BY <1>1 DEF States
<1> HIDE DEF x
<1>7. Sound(x) /\ Grows(u, x) /\ Same(u, x)
  BY <1>2, <1>3, <1>5, <1>6 DEF Sound, Grows, Same
<1>. QED  BY <1>4, <1>7, QueueRedrawSound, Chain

\* What is called may fail, and shows it in a dialog.
LEMMA MayFailSound ==
  ASSUME NEW u, Sound(u), NEW w \in MayFail(u)
  PROVE  Sound(w) /\ Grows(u, w) /\ Same(u, w)
<1>1. CASE w = u
  BY <1>1 DEF Grows, Same
<1>2. CASE \E d \in Unused(u) : w = Push(u, d)
  <2>1. PICK d \in Dialogs \ u.alive : w = Push(u, d)
    BY <1>2 DEF Unused
  <2>. QED  BY <2>1, PushSound
<1>. QED  BY <1>1, <1>2 DEF MayFail

\* rofi_view_remove_active and rofi_view_free: the view is gone, and no mark
\* on it is left.
LEMMA ClosedSound ==
  ASSUME NEW u, Sound(u), NEW v \in u.alive
  PROVE  LET w == Closed(u, v) IN
         /\ Sound(w) /\ w.alive = u.alive \ {v} /\ w.loop = u.loop /\ w.stale = u.stale
         /\ w.timer = u.timer /\ w.corrupt = u.corrupt
         /\ w.refilter = u.refilter \ {v} /\ w.quit = u.quit \ {v}
<1> DEFINE x == RemoveActive(u, v)
<1>1. /\ u \in States /\ u.stack \in Seq(Views) /\ IsInjective(u.stack)
      /\ u.alive = ToSet(u.stack) /\ v \in ToSet(u.stack)
      /\ u.quit \cup u.refilter \cup u.reload \cup u.dirty \subseteq u.alive
      /\ u.stack # <<>>
  BY AliveStacked DEF Sound, States
<1>2. /\ x \in States /\ IsInjective(x.stack) /\ ToSet(x.stack) = u.alive \ {v}
      /\ x.alive = u.alive /\ x.quit = u.quit /\ x.refilter = u.refilter
      /\ x.reload = u.reload /\ x.dirty \subseteq u.alive /\ x.stale = u.stale
      /\ x.timer = u.timer /\ x.corrupt = u.corrupt /\ x.loop = u.loop
  <2>1. CASE Head(u.stack) = v
    <3> DEFINE s == Tail(u.stack)
               d == IF s = <<>> THEN u.dirty ELSE u.dirty \cup {Head(s)}
               y == [u EXCEPT !.stack = s, !.dirty = d]
    <3>1. /\ s \in Seq(Views) /\ IsInjective(s)
          /\ ToSet(s) = u.alive \ {v}
      BY <1>1, <2>1, TailInjective
    <3>2. d \subseteq u.alive
      <4>1. CASE s = <<>>
        BY <1>1, <4>1
      <4>2. CASE s # <<>>
        <5>1. Head(s) \in ToSet(s)
          BY <3>1, <4>2, TailInjective
        <5>. QED  BY <1>1, <3>1, <4>2, <5>1
      <4>. QED  BY <4>1, <4>2
    <3>3. x = QueueRedraw(y)
      BY <2>1 DEF RemoveActive, Pop
    <3>4. d \in SUBSET Views
      BY <1>1, <3>2 DEF States
    <3> HIDE DEF s, d
    <3>5. y \in States
      BY <1>1, <3>1, <3>4 DEF States
    <3>6. /\ y.stack = s /\ y.alive = u.alive /\ y.quit = u.quit /\ y.refilter = u.refilter
          /\ y.reload = u.reload /\ y.dirty = d /\ y.stale = u.stale /\ y.timer = u.timer
          /\ y.corrupt = u.corrupt /\ y.loop = u.loop
      BY <1>1 DEF States
    <3> HIDE DEF y, x
    <3>7. CASE y.stack = <<>> \/ y.repaint
      BY <1>1, <3>1, <3>2, <3>3, <3>5, <3>6, <3>7 DEF QueueRedraw
    <3>8. CASE ~ (y.stack = <<>> \/ y.repaint)
      <4> DEFINE e == IF backend = "wayland" THEN y.dirty \cup {Head(y.stack)} ELSE y.dirty
      <4>1. Head(s) \in ToSet(s)
        BY <3>1, <3>6, <3>8, TailInjective
      <4>2. e \subseteq u.alive /\ e \in SUBSET Views
        BY <1>1, <3>1, <3>2, <3>6, <4>1 DEF States
      <4>3. x = [y EXCEPT !.repaint = TRUE, !.dirty = e]
        BY <3>3, <3>8 DEF QueueRedraw
      <4> HIDE DEF e
      <4>4. x \in States
        BY <3>5, <4>2, <4>3 DEF States
      <4>5. /\ x.stack = s /\ x.alive = u.alive /\ x.quit = u.quit /\ x.refilter = u.refilter
            /\ x.reload = u.reload /\ x.dirty = e /\ x.stale = u.stale /\ x.timer = u.timer
            /\ x.corrupt = u.corrupt /\ x.loop = u.loop
        BY <3>5, <3>6, <4>3 DEF States
      <4>. QED  BY <3>1, <4>2, <4>4, <4>5
    <3>. QED  BY <3>7, <3>8
  <2>2. CASE Head(u.stack) # v
    <3> DEFINE s == RemoveAt(u.stack, CHOOSE i \in DOMAIN u.stack : u.stack[i] = v)
    <3>1. s \in Seq(Views) /\ IsInjective(s) /\ ToSet(s) = u.alive \ {v}
      BY <1>1, RemoveInjective
    <3>2. x = [u EXCEPT !.stack = s]
      BY <2>2 DEF RemoveActive
    <3> HIDE DEF s, x
    <3>3. x \in States
      BY <1>1, <3>1, <3>2 DEF States
    <3>4. /\ x.stack = s /\ x.alive = u.alive /\ x.quit = u.quit /\ x.refilter = u.refilter
          /\ x.reload = u.reload /\ x.dirty = u.dirty /\ x.stale = u.stale /\ x.timer = u.timer
          /\ x.corrupt = u.corrupt /\ x.loop = u.loop
      BY <1>1, <3>2 DEF States
    <3>. QED  BY <1>1, <3>1, <3>3, <3>4
  <2>. QED  BY <2>1, <2>2
<1> HIDE DEF x
<1> DEFINE w == Free(x, v)
<1>3. w \in States
  BY <1>2 DEF Free, States
<1>4. /\ w.stack = x.stack /\ w.alive = x.alive \ {v} /\ w.quit = x.quit \ {v}
      /\ w.refilter = x.refilter \ {v} /\ w.reload = x.reload \ {v} /\ w.dirty = x.dirty \ {v}
      /\ w.stale = x.stale /\ w.timer = x.timer /\ w.corrupt = x.corrupt /\ w.loop = x.loop
  BY <1>2 DEF Free, States
<1>5. Closed(u, v) = w
  BY DEF Closed, x
<1> HIDE DEF w
<1>6. Sound(w)
  BY <1>1, <1>2, <1>3, <1>4 DEF Sound
<1>. QED  BY <1>2, <1>4, <1>5, <1>6

-----------------------------------------------------------------------------
(* The filter.                                                             *)

\* The timer is stopped and its count is reset.
LEMMA ClearedSound ==
  ASSUME NEW u, Sound(u)
  PROVE  LET c == [u EXCEPT !.timer = NoTimer, !.count = 0] IN
         /\ Sound(c) /\ Grows(u, c) /\ c.quit = u.quit /\ c.refilter = u.refilter
         /\ c.stale = u.stale /\ c.corrupt = u.corrupt /\ c.alive = u.alive /\ c.reload = u.reload
<1> DEFINE c == [u EXCEPT !.timer = NoTimer, !.count = 0]
<1>1. /\ u \in States /\ NoTimer \in [view : Views \cup {None}, due : BOOLEAN]
      /\ 0 \in 0 .. CountLimit - 1
  BY DEF Sound, NoTimer
<1>2. c \in States
  BY <1>1 DEF States
<1>3. /\ c.stack = u.stack /\ c.alive = u.alive /\ c.quit = u.quit /\ c.refilter = u.refilter
      /\ c.reload = u.reload /\ c.dirty = u.dirty /\ c.stale = u.stale
      /\ c.corrupt = u.corrupt /\ c.loop = u.loop
  BY <1>1 DEF States
<1> HIDE DEF c
<1>4. Sound(c) /\ Grows(u, c)
  BY <1>2, <1>3 DEF Sound, Grows
<1>. QED  BY <1>3, <1>4 DEF c

\* rofi_view_refilter_real on a view that exists: the list of the menu is what
\* the input asks for, but for rows that came since.
LEMMA RefilterRealSound ==
  ASSUME NEW u, Sound(u), NEW v \in u.alive, NEW w \in RefilterReal(u, v)
  PROVE  /\ Sound(w) /\ Grows(u, w) /\ w.corrupt = u.corrupt
         /\ v = Menu => w.stale \subseteq {"rows"}
         /\ v # Menu => w.quit = u.quit /\ w.refilter = u.refilter /\ w.stale = u.stale
<1> DEFINE c == [u EXCEPT !.timer = NoTimer, !.count = 0]
<1>1. /\ Sound(c) /\ Grows(u, c) /\ c.quit = u.quit /\ c.refilter = u.refilter
      /\ c.stale = u.stale /\ c.corrupt = u.corrupt /\ c.alive = u.alive /\ c.reload = u.reload
  BY ClearedSound
<1>2. CASE v # Menu
  <2>1. w = c
    BY <1>2 DEF RefilterReal
  <2>. QED  BY <1>1, <1>2, <2>1
<1>3. CASE v = Menu
  <2> DEFINE f == Listed(c)
             t == IF Menu \in c.reload THEN {} ELSE c.stale \cap {"rows"}
             l == c.reload \ {Menu}
             r == c.refilter \ {Menu}
             d == c.dirty \cup {Menu}
  <2>1. \E x \in MayFail(f) :
          \E s \in IF u.typed THEN BOOLEAN ELSE {u.slow} :
            \E q \in {u.quit} \cup IF AutoSelect THEN {u.quit \cup {Menu}} ELSE {} :
              w = Update(Filtered(x, s, q), Menu)
    <3>1. w \in {Update(Filtered(x, s, q), Menu) :
                   x \in MayFail(f),
                   s \in IF u.typed THEN BOOLEAN ELSE {u.slow},
                   q \in {u.quit} \cup IF AutoSelect THEN {u.quit \cup {Menu}} ELSE {}}
      BY <1>3 DEF RefilterReal
    <3> HIDE DEF f
    <3>. QED  BY <3>1
  <2>2. /\ c \in States /\ u \in States /\ Menu \in u.alive /\ Menu \in Views
        /\ t \in SUBSET Parts /\ l \in SUBSET Views /\ r \in SUBSET Views /\ d \in SUBSET Views
        /\ l \subseteq c.reload /\ r \subseteq c.refilter /\ d \subseteq c.dirty \cup {Menu}
        /\ t \subseteq {"rows"}
    BY <1>1, <1>3 DEF Sound, States, Parts, Views
  <2>0. f = [c EXCEPT !.stale = t, !.reload = l, !.refilter = r, !.dirty = d]
    BY DEF Listed
  <2> HIDE DEF c, t, l, r, d, f
  <2>3. f \in States
    BY <2>0, <2>2 DEF States
  <2>4. /\ f.stack = c.stack /\ f.alive = c.alive /\ f.quit = c.quit /\ f.refilter = r
        /\ f.reload = l /\ f.dirty = d /\ f.stale = t /\ f.corrupt = c.corrupt
        /\ f.loop = c.loop
    BY <2>0, <2>2 DEF States
  <2>5. Sound(f) /\ Grows(c, f)
    BY <1>1, <2>2, <2>3, <2>4 DEF Sound, Grows
  <2>6. PICK x \in MayFail(f),
             s \in IF u.typed THEN BOOLEAN ELSE {u.slow},
             q \in {u.quit} \cup IF AutoSelect THEN {u.quit \cup {Menu}} ELSE {} :
                w = Update(Filtered(x, s, q), Menu)
    BY <2>1
  <2>7. Sound(x) /\ Grows(f, x) /\ Same(f, x)
    BY <2>5, MayFailSound
  <2>8. /\ s \in BOOLEAN /\ q \in SUBSET Views /\ q \subseteq u.alive /\ x \in States
    BY <2>2, <2>7 DEF States, Sound
  <2> DEFINE y == [x EXCEPT !.slow = s, !.quit = q]
  <2>9. y \in States
    BY <2>8 DEF States
  <2>10. /\ y.stack = x.stack /\ y.alive = x.alive /\ y.quit = q /\ y.refilter = x.refilter
         /\ y.reload = x.reload /\ y.dirty = x.dirty /\ y.stale = x.stale
         /\ y.corrupt = x.corrupt /\ y.loop = x.loop
    BY <2>8 DEF States
  <2>11. w = Update(y, Menu)
    BY <2>6 DEF Filtered
  <2> HIDE DEF y
  <2>12. q \subseteq x.alive
    BY <1>1, <2>4, <2>7, <2>8 DEF Grows
  <2>13. Sound(y) /\ Grows(x, y)
    BY <2>7, <2>9, <2>10, <2>12 DEF Sound, Grows
  <2>14. Sound(w) /\ Grows(y, w) /\ Same(y, w)
    BY <2>11, <2>13, UpdateSound
  <2>15. Grows(u, w)
    BY <1>1, <2>5, <2>7, <2>13, <2>14, Chain
  <2>16. w.corrupt = u.corrupt /\ w.stale = t
    BY <1>1, <2>4, <2>7, <2>10, <2>14 DEF Same
  <2>. QED  BY <1>3, <2>2, <2>14, <2>15, <2>16
<1>. QED  BY <1>2, <1>3

\* The timer of a view that was freed: nothing but memory is harmed.
LEMMA RefilterFreed ==
  ASSUME NEW u, Sound(u), NEW v, v \notin u.alive, NEW w \in RefilterReal(u, v)
  PROVE  Sound(w) /\ Grows(u, w) /\ w.corrupt = TRUE
<1> DEFINE c == [u EXCEPT !.timer = NoTimer, !.count = 0]
<1>1. Sound(c) /\ Grows(u, c) /\ c \in States
  BY ClearedSound DEF Sound
<1>2. w = [c EXCEPT !.corrupt = TRUE]
  BY DEF RefilterReal
<1> HIDE DEF c
<1>3. w \in States
  BY <1>1, <1>2 DEF States
<1>4. /\ w.stack = c.stack /\ w.alive = c.alive /\ w.quit = c.quit /\ w.refilter = c.refilter
      /\ w.reload = c.reload /\ w.dirty = c.dirty /\ w.corrupt = TRUE /\ w.loop = c.loop
  BY <1>1, <1>2 DEF States
<1>. QED  BY <1>1, <1>3, <1>4 DEF Sound, Grows

\* The filter is put off.
LEMMA PutOffSound ==
  ASSUME NEW u, Sound(u), NEW v \in Views, u.count + 1 < CountLimit
  PROVE  LET w == PutOff(u, v) IN
         /\ Sound(w) /\ Grows(u, w) /\ w.alive = u.alive /\ w.quit = u.quit
         /\ w.refilter = u.refilter /\ w.stale = u.stale /\ w.timer.view = v
         /\ w.corrupt = u.corrupt
<1> DEFINE w == PutOff(u, v)
           n == u.count + 1
           t == Started(v)
<1>1. u \in States /\ n \in 0 .. CountLimit - 1
  BY DEF Sound, States
<1>2. t \in [view : Views \cup {None}, due : BOOLEAN] /\ t.view = v
  BY DEF Started
<1>3. w = [u EXCEPT !.timer = t, !.count = n]
  BY DEF PutOff
<1> HIDE DEF n, t, w
<1>4. w \in States
  BY <1>1, <1>2, <1>3 DEF States
<1>5. /\ w.stack = u.stack /\ w.alive = u.alive /\ w.quit = u.quit /\ w.refilter = u.refilter
      /\ w.reload = u.reload /\ w.dirty = u.dirty /\ w.stale = u.stale /\ w.timer = t
      /\ w.corrupt = u.corrupt /\ w.loop = u.loop
  BY <1>1, <1>3 DEF States
<1>6. Sound(w) /\ Grows(u, w)
  BY <1>4, <1>5 DEF Sound, Grows
<1>. QED  BY <1>2, <1>5, <1>6 DEF w

\* The timer is stopped, and its count stays.
LEMMA StoppedSound ==
  ASSUME NEW u, Sound(u)
  PROVE  LET w == [u EXCEPT !.timer = NoTimer] IN
         /\ Sound(w) /\ Grows(u, w) /\ w.alive = u.alive /\ w.quit = u.quit
         /\ w.refilter = u.refilter /\ w.stale = u.stale /\ w.corrupt = u.corrupt
<1> DEFINE w == [u EXCEPT !.timer = NoTimer]
<1>1. u \in States /\ NoTimer \in [view : Views \cup {None}, due : BOOLEAN]
  BY DEF Sound, NoTimer
<1>2. w \in States
  BY <1>1 DEF States
<1>3. /\ w.stack = u.stack /\ w.alive = u.alive /\ w.quit = u.quit /\ w.refilter = u.refilter
      /\ w.reload = u.reload /\ w.dirty = u.dirty /\ w.stale = u.stale
      /\ w.corrupt = u.corrupt /\ w.loop = u.loop
  BY <1>1 DEF States
<1> HIDE DEF w
<1>4. Sound(w) /\ Grows(u, w)
  BY <1>2, <1>3 DEF Sound, Grows
<1>. QED  BY <1>3, <1>4 DEF w

\* rofi_view_refilter computes the list or leaves it to the timer; in both
\* cases it is not forgotten.
LEMMA RefilterSound ==
  ASSUME NEW u, Sound(u), NEW v \in u.alive, InputDue(u), NEW w \in Refilter(u, v),
         v # Menu => MatcherDue(u)
  PROVE  Sound(w) /\ Grows(u, w) /\ Due(w)
<1>1. v \in Views /\ u.alive \subseteq Views /\ u \in States
  BY AliveStacked DEF Sound, States
<1>2. CASE u.slow /\ HasText(u, v) /\ u.count + 1 < CountLimit
  <2>1. w = PutOff(u, v)
    BY <1>2 DEF Refilter
  <2>2. /\ Sound(w) /\ Grows(u, w) /\ w.alive = u.alive /\ w.quit = u.quit
        /\ w.refilter = u.refilter /\ w.stale = u.stale /\ w.timer.view = v
        /\ w.corrupt = u.corrupt
    BY <1>1, <1>2, <2>1, PutOffSound
  <2>3. Dialogs = {} => v = Menu
    BY <1>1 DEF Views
  <2>. QED  BY <2>2, <2>3 DEF Due, InputDue, MatcherDue
<1>3. CASE ~ (u.slow /\ HasText(u, v) /\ u.count + 1 < CountLimit)
  <2> DEFINE x == [u EXCEPT !.timer = NoTimer]
  <2>1. w \in RefilterReal(x, v)
    BY <1>3 DEF Refilter
  <2>2. /\ Sound(x) /\ Grows(u, x) /\ x.alive = u.alive /\ x.quit = u.quit
        /\ x.refilter = u.refilter /\ x.stale = u.stale /\ x.corrupt = u.corrupt
    BY StoppedSound
  <2> HIDE DEF x
  <2>3. /\ Sound(w) /\ Grows(x, w) /\ w.corrupt = x.corrupt
        /\ v = Menu => w.stale \subseteq {"rows"}
        /\ v # Menu => w.quit = x.quit /\ w.refilter = x.refilter /\ w.stale = x.stale
    BY <2>1, <2>2, RefilterRealSound
  <2>4. Dialogs = {} => v = Menu
    BY <1>1 DEF Views
  <2>5. Due(w)
    <3>1. CASE v = Menu
      BY <2>3, <3>1 DEF Due, InputDue, MatcherDue
    <3>2. CASE v # Menu
      BY <2>2, <2>3, <2>4, <3>2 DEF Due, InputDue, MatcherDue, Grows
    <3>. QED  BY <3>1, <3>2
  <2>. QED  BY <2>2, <2>3, <2>5, Chain
<1>. QED  BY <1>2, <1>3

\* rofi_view_refilter_force: a filter that is asked for is done.
LEMMA RefilterForceSound ==
  ASSUME NEW u, Sound(u), NEW v \in u.alive, NEW w \in RefilterForce(u, v)
  PROVE  /\ Sound(w) /\ Grows(u, w) /\ w.corrupt = u.corrupt
         /\ InputDue(u) => InputDue(w)
         /\ v = Menu /\ v \in u.refilter => w.stale \subseteq {"rows"}
<1> DEFINE x == [u EXCEPT !.timer = NoTimer]
<1>1. /\ Sound(x) /\ Grows(u, x) /\ x.alive = u.alive /\ x.quit = u.quit
      /\ x.refilter = u.refilter /\ x.stale = u.stale /\ x.corrupt = u.corrupt
  BY StoppedSound
<1>3. v \notin u.refilter => w = x
  BY DEF RefilterForce
<1>4. v \in u.refilter => w \in RefilterReal(x, v)
  BY DEF RefilterForce
<1> HIDE DEF x
<1>5. CASE v \notin u.refilter
  BY <1>1, <1>3, <1>5 DEF InputDue
<1>6. CASE v \in u.refilter
  <2>1. /\ Sound(w) /\ Grows(x, w) /\ w.corrupt = x.corrupt
        /\ v = Menu => w.stale \subseteq {"rows"}
        /\ v # Menu => w.quit = x.quit /\ w.refilter = x.refilter /\ w.stale = x.stale
    BY <1>1, <1>4, <1>6, RefilterRealSound
  <2>2. InputDue(u) => InputDue(w)
    BY <1>1, <2>1 DEF InputDue, Grows
  <2>. QED  BY <1>1, <2>1, <2>2, Chain
<1>. QED  BY <1>5, <1>6

-----------------------------------------------------------------------------
(* Leaving the menu, and the end of every handler.                         *)

\* A mode's number stays one.
LEMMA NextModeType ==
  ASSUME NEW m \in Modes, NEW retv \in Results
  PROVE  NextMode(m, retv) \in Modes
<1>1. NumModes \in Nat \ {0} /\ m \in 0 .. NumModes - 1
  BY DEF Modes
<1>2. retv.ask \in {"next", "previous", "reload", "reset", "mode"}
      /\ (retv.ask = "mode" => retv.mode \in Nat)
  BY DEF Results, Modes
<1>3. \A n \in Nat : n % NumModes \in 0 .. NumModes - 1
  BY <1>1
<1>4. CASE retv.ask = "next"
  BY <1>1, <1>3, <1>4 DEF NextMode, Modes
<1>5. CASE retv.ask = "previous"
  <2>1. NextMode(m, retv) = IF m = 0 THEN NumModes - 1 ELSE (m - 1) % NumModes
    BY <1>5 DEF NextMode
  <2>2. m # 0 => m - 1 \in Nat
    BY <1>1
  <2>. QED  BY <1>1, <1>3, <2>1, <2>2 DEF Modes
<1>6. CASE retv.ask \in {"reload", "reset"}
  BY <1>6 DEF NextMode
<1>7. CASE retv.ask = "mode"
  BY <1>2, <1>3, <1>7 DEF NextMode, Modes
<1>. QED  BY <1>2, <1>4, <1>5, <1>6, <1>7

\* rofi_view_switch_mode computes the list.
LEMMA SwitchModeSound ==
  ASSUME NEW u, Sound(u), Menu \in u.alive, NEW w \in SwitchMode(u)
  PROVE  Sound(w) /\ Grows(u, w) /\ w.stale \subseteq {"rows"}
<1> DEFINE q == u.quit \ {Menu}
           l == u.reload \cup {Menu}
           r == u.refilter \cup {Menu}
           x == [u EXCEPT !.quit = q, !.reload = l, !.refilter = r]
<1>1. PICK y \in RefilterForce(x, Menu) : w = Update(y, Menu)
  BY DEF SwitchMode
<1>2. /\ u \in States /\ q \in SUBSET Views /\ l \in SUBSET Views /\ r \in SUBSET Views
      /\ q \subseteq u.quit /\ l \subseteq u.alive /\ r \subseteq u.alive /\ Menu \in r
  BY DEF Sound, States, Views
<1> HIDE DEF q, l, r
<1>3. x \in States
  BY <1>2 DEF States
<1>4. /\ x.stack = u.stack /\ x.alive = u.alive /\ x.quit = q /\ x.refilter = r
      /\ x.reload = l /\ x.dirty = u.dirty /\ x.stale = u.stale
      /\ x.corrupt = u.corrupt /\ x.loop = u.loop
  BY <1>2 DEF States
<1> HIDE DEF x
<1>5. Sound(x) /\ Grows(u, x)
  BY <1>2, <1>3, <1>4 DEF Sound, Grows
<1>6. Sound(y) /\ Grows(x, y) /\ y.stale \subseteq {"rows"}
  BY <1>1, <1>2, <1>4, <1>5, RefilterForceSound
<1>7. Sound(w) /\ Grows(y, w) /\ w.stale = y.stale
  BY <1>1, <1>6, UpdateSound DEF Same
<1>. QED  BY <1>5, <1>6, <1>7, Chain

\* A list that is computed is not due.
LEMMA ComputedNotDue ==
  ASSUME NEW w, w.stale \subseteq {"rows"}
  PROVE  Due(w)
BY DEF Due, InputDue, MatcherDue

\* process_result keeps the menu with a mode.
LEMMA SwitchedSound ==
  ASSUME NEW u, Sound(u), Menu \in u.alive, NEW w \in Switched(u)
  PROVE  Sound(w) /\ Grows(u, w) /\ Due(w)
<1>1. PICK retv \in Results, t \in BOOLEAN : w \in SwitchMode(Answered(u, retv, t))
  BY DEF Switched
<1> DEFINE m == NextMode(u.mode, retv)
           k == IF retv.ask = "reset" THEN FALSE ELSE t
           s == {"input", "rows"} \cup u.stale
           x == [u EXCEPT !.mode = m, !.typed = k, !.stale = s]
<1>2. u \in States /\ m \in Modes /\ k \in BOOLEAN /\ s \in SUBSET Parts
  <2>1. u \in States /\ u.mode \in Modes /\ u.stale \in SUBSET Parts
    BY DEF Sound, States
  <2>. QED  BY <2>1, NextModeType DEF Parts
<1>3. w \in SwitchMode(x)
  BY <1>1 DEF Answered
<1> HIDE DEF m, k, s
<1>4. x \in States
  BY <1>2 DEF States
<1>5. /\ x.stack = u.stack /\ x.alive = u.alive /\ x.quit = u.quit /\ x.refilter = u.refilter
      /\ x.reload = u.reload /\ x.dirty = u.dirty /\ x.loop = u.loop
  BY <1>2 DEF States
<1> HIDE DEF x
<1>6. Sound(x) /\ Grows(u, x)
  BY <1>4, <1>5 DEF Sound, Grows
<1>7. Sound(w) /\ Grows(x, w) /\ w.stale \subseteq {"rows"}
  BY <1>3, <1>5, <1>6, SwitchModeSound
<1>. QED  BY <1>6, <1>7, Chain, ComputedNotDue

\* Nothing is due for a menu that is gone.
LEMMA ClosedDue ==
  ASSUME NEW u, Sound(u), Due(u), NEW v \in u.alive
  PROVE  Sound(Closed(u, v)) /\ Due(Closed(u, v)) /\ Closed(u, v).loop = u.loop
<1>1. /\ Sound(Closed(u, v)) /\ Closed(u, v).alive = u.alive \ {v}
      /\ Closed(u, v).loop = u.loop /\ Closed(u, v).stale = u.stale
      /\ Closed(u, v).timer = u.timer /\ Closed(u, v).corrupt = u.corrupt
      /\ Closed(u, v).refilter = u.refilter \ {v} /\ Closed(u, v).quit = u.quit \ {v}
  BY ClosedSound
<1>. QED  BY <1>1 DEF Due, InputDue, MatcherDue

\* What changes none of the fields that decide leaves nothing behind.
LEMMA SameDue ==
  ASSUME NEW u, NEW w, Due(u), Grows(u, w), Same(u, w)
  PROVE  Due(w)
BY DEF Due, InputDue, MatcherDue, Grows, Same

\* process_result, whatever it is the result of.
LEMMA ProcessResultSound ==
  ASSUME NEW u, Sound(u), Due(u), NEW v \in u.alive, NEW w \in ProcessResult(u, v)
  PROVE  Sound(w) /\ Due(w) /\ w.loop = u.loop
<1>1. CASE v # Menu
  BY <1>1, ClosedDue DEF ProcessResult
<1>2. CASE v = Menu
  <2>1. \E x \in MayFail(u) : w \in Switched(x) \/ w = Closed(x, Menu)
    BY <1>2 DEF ProcessResult, Then
  <2>2. PICK x \in MayFail(u) : w \in Switched(x) \/ w = Closed(x, Menu)
    BY <2>1
  <2>3. Sound(x) /\ Grows(u, x) /\ Same(u, x)
    BY <2>2, MayFailSound
  <2>4. Due(x) /\ Menu \in x.alive
    BY <1>2, <2>3, SameDue DEF Grows
  <2>5. CASE w \in Switched(x)
    BY <2>3, <2>4, <2>5, SwitchedSound DEF Grows
  <2>6. CASE w = Closed(x, Menu)
    BY <2>3, <2>4, <2>6, ClosedDue DEF Grows
  <2>. QED  BY <2>2, <2>5, <2>6
<1>. QED  BY <1>1, <1>2

\* rofi_view_maybe_update of a view that is not done.
LEMMA RefreshSound ==
  ASSUME NEW u, Sound(u), Due(u), NEW v \in u.alive, NEW w \in Refresh(u, v)
  PROVE  Sound(w) /\ Due(w) /\ Grows(u, w)
<1>1. PICK x \in IF v \in u.refilter THEN Refilter(u, v) ELSE {u} : w = Update(x, v)
  BY DEF Refresh
<1>2. Sound(x) /\ Grows(u, x) /\ Due(x)
  <2>1. CASE v \in u.refilter
    BY <1>1, <2>1, RefilterSound DEF Due
  <2>2. CASE v \notin u.refilter
    BY <1>1, <2>2 DEF Grows
  <2>. QED  BY <2>1, <2>2
<1>3. Sound(w) /\ Grows(x, w) /\ Same(x, w)
  BY <1>1, <1>2, UpdateSound
<1>. QED  BY <1>2, <1>3, Chain, SameDue

\* The views that stay when one is done.
LEMMA FinalizedSound ==
  ASSUME NEW u, Sound(u), Due(u), NEW v \in u.alive, NEW w \in Finalized(u, v)
  PROVE  Sound(w) /\ Due(w) /\ w.loop = u.loop
<1>1. \E x \in MayFail(u) : w \in ProcessResult([x EXCEPT !.results = ~ x.results], v)
  BY DEF Finalized, Then
<1>2. PICK x \in MayFail(u) : w \in ProcessResult([x EXCEPT !.results = ~ x.results], v)
  BY <1>1
<1>3. Sound(x) /\ Grows(u, x) /\ Same(u, x)
  BY <1>2, MayFailSound
<1>4. Due(x) /\ v \in x.alive /\ x \in States
  BY <1>3, SameDue DEF Grows, Sound
<1> DEFINE b == ~ x.results
           y == [x EXCEPT !.results = b]
<1>5. b \in BOOLEAN
  OBVIOUS
<1>6. w \in ProcessResult(y, v)
  BY <1>2
<1> HIDE DEF b
<1>7. y \in States
  BY <1>4, <1>5 DEF States
<1>8. /\ y.stack = x.stack /\ y.alive = x.alive /\ y.quit = x.quit /\ y.refilter = x.refilter
      /\ y.reload = x.reload /\ y.dirty = x.dirty /\ y.stale = x.stale /\ y.timer = x.timer
      /\ y.corrupt = x.corrupt /\ y.loop = x.loop
  BY <1>4 DEF States
<1> HIDE DEF y
<1>9. Sound(y) /\ Grows(x, y) /\ Same(x, y)
  BY <1>3, <1>7, <1>8 DEF Sound, Grows, Same
<1>10. Due(y) /\ v \in y.alive
  BY <1>4, <1>8, <1>9, SameDue
<1>11. Sound(w) /\ Due(w) /\ w.loop = y.loop
  BY <1>6, <1>9, <1>10, ProcessResultSound
<1>. QED  BY <1>3, <1>8, <1>11 DEF Grows

\* The loop runs only while there is a view.
Served(w) == Sound(w) /\ Due(w) /\ (w.loop = "runs" => w.stack # <<>>)

\* rofi_view_maybe_update.
LEMMA MaybeUpdateServed ==
  ASSUME NEW u, Sound(u), Due(u), NEW v \in u.alive, NEW w \in MaybeUpdate(u, v)
  PROVE  Served(w)
<1>1. CASE v \notin u.quit
  <2>1. Sound(w) /\ Due(w) /\ Grows(u, w)
    BY <1>1, RefreshSound DEF MaybeUpdate
  <2>2. w.stack # <<>>
    BY <2>1, AliveStacked DEF Grows
  <2>. QED  BY <2>1, <2>2 DEF Served
<1>2. CASE v \in u.quit
  <2>1. \E x \in Finalized(u, v) :
          w \in IF x.stack = <<>> THEN {[x EXCEPT !.loop = "ends"]}
                ELSE Refresh(x, Head(x.stack))
    BY <1>2 DEF MaybeUpdate, Then
  <2>2. PICK x \in Finalized(u, v) :
               w \in IF x.stack = <<>> THEN {[x EXCEPT !.loop = "ends"]}
                     ELSE Refresh(x, Head(x.stack))
    BY <2>1
  <2>3. Sound(x) /\ Due(x) /\ x.loop = u.loop /\ x \in States
    BY <2>2, FinalizedSound DEF Sound
  <2>4. CASE x.stack = <<>>
    <3>1. w = [x EXCEPT !.loop = "ends"]
      BY <2>2, <2>4
    <3>2. w \in States
      BY <2>3, <3>1 DEF States
    <3>3. /\ w.stack = x.stack /\ w.alive = x.alive /\ w.quit = x.quit /\ w.refilter = x.refilter
          /\ w.reload = x.reload /\ w.dirty = x.dirty /\ w.stale = x.stale /\ w.timer = x.timer
          /\ w.corrupt = x.corrupt /\ w.loop = "ends"
      BY <2>3, <3>1 DEF States
    <3>4. Sound(w) /\ Due(w)
      BY <2>3, <3>2, <3>3 DEF Sound, Due, InputDue, MatcherDue
    <3>. QED  BY <3>3, <3>4 DEF Served
  <2>5. CASE x.stack # <<>>
    <3>1. w \in Refresh(x, Head(x.stack)) /\ Head(x.stack) \in x.alive
      BY <2>2, <2>3, <2>5, HeadAlive
    <3>2. Sound(w) /\ Due(w) /\ Grows(x, w)
      BY <2>3, <3>1, RefreshSound
    <3>3. w.stack # <<>>
      BY <3>1, <3>2, AliveStacked DEF Grows
    <3>. QED  BY <3>2, <3>3 DEF Served
  <2>. QED  BY <2>4, <2>5
<1>. QED  BY <1>1, <1>2

-----------------------------------------------------------------------------
(* What the events of the user do before the view is updated.              *)

\* An event of the user starts the user timeout again and changes nothing else.
LEMMA TriggeredSound ==
  ASSUME NEW u, Sound(u)
  PROVE  LET w == Triggered(u) IN
         /\ Sound(w) /\ Grows(u, w) /\ Same(u, w) /\ w.alive = u.alive /\ w.stack = u.stack
<1> DEFINE w == Triggered(u)
<1>1. u \in States /\ w = [u EXCEPT !.userTimer = UserTimeout]
  BY DEF Sound, Triggered
<1> HIDE DEF w
<1>2. w \in States
  BY <1>1 DEF States
<1>3. /\ w.stack = u.stack /\ w.alive = u.alive /\ w.quit = u.quit /\ w.refilter = u.refilter
      /\ w.reload = u.reload /\ w.dirty = u.dirty /\ w.stale = u.stale /\ w.timer = u.timer
      /\ w.corrupt = u.corrupt /\ w.loop = u.loop
  BY <1>1 DEF States
<1>4. Sound(w) /\ Grows(u, w) /\ Same(u, w)
  BY <1>2, <1>3 DEF Sound, Grows, Same
<1>. QED  BY <1>3, <1>4 DEF w

\* A view that is done: its quit is set.
LEMMA QuitSound ==
  ASSUME NEW u, Sound(u), NEW v \in u.alive
  PROVE  LET w == [u EXCEPT !.quit = @ \cup {v}] IN
         /\ Sound(w) /\ Grows(u, w) /\ w.alive = u.alive /\ w.quit = u.quit \cup {v}
         /\ w.refilter = u.refilter /\ w.stale = u.stale /\ w.timer = u.timer
         /\ w.corrupt = u.corrupt /\ w.stack = u.stack
<1> DEFINE q == u.quit \cup {v}
           w == [u EXCEPT !.quit = q]
<1>1. u \in States /\ q \in SUBSET Views /\ q \subseteq u.alive
  BY DEF Sound, States
<1>2. w = [u EXCEPT !.quit = @ \cup {v}] /\ q = u.quit \cup {v}
  OBVIOUS
<1> HIDE DEF q
<1>3. w \in States
  BY <1>1 DEF States
<1>4. /\ w.stack = u.stack /\ w.alive = u.alive /\ w.quit = q /\ w.refilter = u.refilter
      /\ w.reload = u.reload /\ w.dirty = u.dirty /\ w.stale = u.stale /\ w.timer = u.timer
      /\ w.corrupt = u.corrupt /\ w.loop = u.loop
  BY <1>1 DEF States
<1> HIDE DEF w
<1>5. Sound(w) /\ Grows(u, w)
  BY <1>1, <1>3, <1>4 DEF Sound, Grows
<1>. QED  BY <1>2, <1>4, <1>5

\* The actions that leave the view, with the filter forced or not.
LEMMA AcceptingSound ==
  ASSUME NEW u, Sound(u), InputDue(u), NEW v \in u.alive, NEW w \in Accepting(u, v)
  PROVE  Sound(w) /\ Due(w) /\ Grows(u, w)
<1>1. PICK x \in RefilterForce(u, v) : w = [x EXCEPT !.quit = @ \cup {v}]
  BY DEF Accepting
<1>2. Sound(x) /\ Grows(u, x) /\ InputDue(x)
  BY <1>1, RefilterForceSound
<1>3. v \in x.alive /\ v \in Views
  BY <1>2, AliveStacked DEF Grows
<1>4. /\ Sound(w) /\ Grows(x, w) /\ w.alive = x.alive /\ w.quit = x.quit \cup {v}
      /\ w.refilter = x.refilter /\ w.stale = x.stale
  BY <1>1, <1>2, <1>3, QuitSound
<1>5. Dialogs = {} => v = Menu
  BY <1>3 DEF Views
<1>6. Due(w)
  BY <1>2, <1>4, <1>5 DEF Due, InputDue, MatcherDue
<1>. QED  BY <1>2, <1>4, <1>6, Chain

\* An action that leaves a view without a filter sets its quit flag, and no more.
LEMMA LeavingSound ==
  ASSUME NEW u, Sound(u), InputDue(u), NEW v \in u.alive, NEW w \in Leaving(u, v)
  PROVE  Sound(w) /\ Due(w) /\ Grows(u, w)
<1>1. w = [u EXCEPT !.quit = @ \cup {v}]
  BY DEF Leaving
<1>2. /\ Sound(w) /\ Grows(u, w) /\ w.alive = u.alive /\ w.quit = u.quit \cup {v}
      /\ w.refilter = u.refilter /\ w.stale = u.stale
  BY <1>1, QuitSound
<1>3. Dialogs = {} => v = Menu
  BY AliveStacked DEF Views
<1>. QED  BY <1>2, <1>3 DEF Due, InputDue, MatcherDue

\* An edit asks for a filter.
LEMMA EditedSound ==
  ASSUME NEW u, Sound(u), Due(u), NEW v \in u.alive, NEW w \in Edited(u, v)
  PROVE  Sound(w) /\ Due(w) /\ Grows(u, w)
<1>1. CASE v # Menu
  BY <1>1 DEF Edited, Grows
<1>2. CASE v = Menu
  <2>1. PICK t \in BOOLEAN :
           \/ w = Retyped(u, v, t)
           \/ w \in Accepting(Retyped(u, v, t), v)
           \/ w \in Leaving(Retyped(u, v, t), v)
    BY <1>2 DEF Edited
  <2> DEFINE x == Retyped(u, v, t)
             s == u.stale \cup {"input"}
             r == u.refilter \cup {v}
             d == u.dirty \cup {v}
  <2>2. /\ u \in States /\ t \in BOOLEAN /\ s \in SUBSET Parts /\ r \in SUBSET Views
        /\ d \in SUBSET Views /\ r \subseteq u.alive /\ d \subseteq u.alive
        /\ u.refilter \subseteq r /\ v \in r
    BY DEF Sound, States, Parts
  <2>3. x = [u EXCEPT !.typed = t, !.stale = s, !.refilter = r, !.dirty = d]
    BY DEF Retyped
  <2> HIDE DEF x, s, r, d
  <2>4. x \in States
    BY <2>2, <2>3 DEF States
  <2>5. /\ x.stack = u.stack /\ x.alive = u.alive /\ x.quit = u.quit /\ x.refilter = r
        /\ x.reload = u.reload /\ x.dirty = d /\ x.stale = s /\ x.timer = u.timer
        /\ x.corrupt = u.corrupt /\ x.loop = u.loop
    BY <2>2, <2>3 DEF States
  <2>6. Sound(x) /\ Grows(u, x) /\ Due(x) /\ v \in x.alive
    BY <1>2, <2>2, <2>4, <2>5 DEF Sound, Grows, Due, InputDue, MatcherDue
  <2>7. w = x \/ w \in Accepting(x, v) \/ w \in Leaving(x, v)
    BY <2>1 DEF x
  <2>8. Sound(w) /\ Due(w) /\ Grows(x, w)
    <3>1. CASE w = x
      BY <2>6, <3>1 DEF Grows
    <3>2. CASE w \in Accepting(x, v)
      BY <2>6, <3>2, AcceptingSound DEF Due
    <3>3. CASE w \in Leaving(x, v)
      BY <2>6, <3>3, LeavingSound DEF Due
    <3>. QED  BY <2>7, <3>1, <3>2, <3>3
  <2>. QED  BY <2>6, <2>8, Chain
<1>. QED  BY <1>1, <1>2

\* Another matcher filters at once or starts the timer.
LEMMA RematchedSound ==
  ASSUME NEW u, Sound(u), Due(u), NEW v \in u.alive, NEW w \in Rematched(u, v)
  PROVE  Sound(w) /\ Due(w) /\ Grows(u, w)
<1> DEFINE s == u.stale \cup {"matcher"}
           x == [u EXCEPT !.stale = s]
<1>1. PICK y \in Refilter(x, v) : w = Overlaid(y, v)
  BY DEF Rematched
<1>2. u \in States /\ s \in SUBSET Parts /\ v \in Views
  BY AliveStacked DEF Sound, States, Parts
<1>3. "input" \in s => "input" \in u.stale
  OBVIOUS
<1> HIDE DEF s
<1>4. x \in States
  BY <1>2 DEF States
<1>5. /\ x.stack = u.stack /\ x.alive = u.alive /\ x.quit = u.quit /\ x.refilter = u.refilter
      /\ x.reload = u.reload /\ x.dirty = u.dirty /\ x.stale = s /\ x.timer = u.timer
      /\ x.corrupt = u.corrupt /\ x.loop = u.loop
  BY <1>2 DEF States
<1> HIDE DEF x
<1>6. Sound(x) /\ Grows(u, x) /\ InputDue(x) /\ v \in x.alive
  BY <1>3, <1>4, <1>5 DEF Sound, Grows, Due, InputDue
<1>7. v # Menu => MatcherDue(x)
  BY <1>2 DEF MatcherDue, Views
<1>8. Sound(y) /\ Grows(x, y) /\ Due(y)
  BY <1>1, <1>6, <1>7, RefilterSound
<1>9. Sound(w) /\ Grows(y, w) /\ Same(y, w)
  <2>1. CASE v # Menu
    BY <1>1, <1>8, <2>1 DEF Overlaid, Grows, Same
  <2>2. CASE v = Menu
    <3> DEFINE d == y.dirty \cup {v}
               z == [y EXCEPT !.overlayTimer = TRUE, !.dirty = d]
    <3>1. w = QueueRedraw(z)
      BY <1>1, <2>2 DEF Overlaid
    <3>2. y \in States /\ d \in SUBSET Views /\ d \subseteq y.alive
      BY <1>2, <1>6, <1>8 DEF Sound, States, Grows
    <3> HIDE DEF d
    <3>3. z \in States
      BY <3>2 DEF States
    <3>4. /\ z.stack = y.stack /\ z.alive = y.alive /\ z.quit = y.quit /\ z.refilter = y.refilter
          /\ z.reload = y.reload /\ z.dirty = d /\ z.stale = y.stale /\ z.timer = y.timer
          /\ z.corrupt = y.corrupt /\ z.loop = y.loop
      BY <3>2 DEF States
    <3> HIDE DEF z
    <3>5. Sound(z) /\ Grows(y, z) /\ Same(y, z)
      BY <1>8, <3>2, <3>3, <3>4 DEF Sound, Grows, Same
    <3>. QED  BY <3>1, <3>5, QueueRedrawSound, Chain
  <2>. QED  BY <2>1, <2>2
<1>. QED  BY <1>6, <1>8, <1>9, Chain, SameDue

\* A mark for redrawing.
LEMMA DirtySound ==
  ASSUME NEW u, Sound(u), NEW v \in u.alive
  PROVE  LET w == [u EXCEPT !.dirty = @ \cup {v}] IN
         Sound(w) /\ Grows(u, w) /\ Same(u, w) /\ w.stack = u.stack
<1> DEFINE d == u.dirty \cup {v}
           w == [u EXCEPT !.dirty = d]
<1>1. u \in States /\ d \in SUBSET Views /\ d \subseteq u.alive
  BY DEF Sound, States
<1>2. w = [u EXCEPT !.dirty = @ \cup {v}]
  OBVIOUS
<1> HIDE DEF d
<1>3. w \in States
  BY <1>1 DEF States
<1>4. /\ w.stack = u.stack /\ w.alive = u.alive /\ w.quit = u.quit /\ w.refilter = u.refilter
      /\ w.reload = u.reload /\ w.dirty = d /\ w.stale = u.stale /\ w.timer = u.timer
      /\ w.corrupt = u.corrupt /\ w.loop = u.loop
  BY <1>1 DEF States
<1> HIDE DEF w
<1>5. Sound(w) /\ Grows(u, w) /\ Same(u, w)
  BY <1>1, <1>3, <1>4 DEF Sound, Grows, Same
<1>. QED  BY <1>2, <1>4, <1>5

\* Everything else may fail.
LEMMA MovedSound ==
  ASSUME NEW u, Sound(u), Due(u), NEW v \in u.alive, NEW w \in Moved(u, v)
  PROVE  Sound(w) /\ Due(w) /\ Grows(u, w)
<1>1. CASE w = u
  BY <1>1 DEF Grows
<1>2. CASE \E x \in MayFail(u) : w = [x EXCEPT !.dirty = @ \cup {v}]
  <2>1. PICK x \in MayFail(u) : w = [x EXCEPT !.dirty = @ \cup {v}]
    BY <1>2
  <2>2. Sound(x) /\ Grows(u, x) /\ Same(u, x)
    BY <2>1, MayFailSound
  <2>3. Sound(w) /\ Grows(x, w) /\ Same(x, w)
    BY <2>1, <2>2, DirtySound DEF Grows
  <2>. QED  BY <2>2, <2>3, Chain, SameDue
<1>. QED  BY <1>1, <1>2 DEF Moved

-----------------------------------------------------------------------------
(* The actions.                                                            *)

\* What the invariant says of a state that an action leaves behind.
Kept(u) ==
  /\ Sound(u)
  /\ u.loop = "runs" => u.stack # <<>>
  /\ u.loop = "runs" /\ ~u.corrupt => Due(u)

\* What an update of the view leaves behind satisfies the invariant.
LEMMA ServedKept == ASSUME NEW u, Served(u) PROVE Kept(u)
BY DEF Served, Kept

\* The variables as one state.
LEMMA NowSound ==
  ASSUME IInv
  PROVE  /\ Sound(Now) /\ Now \in States /\ Kept(Now) /\ backend \in Backends
         /\ Running => Due(Now) /\ Active \in Now.alive /\ Active = Head(Now.stack)
         /\ Running => Now.loop = "runs" /\ ~Now.corrupt /\ Now.stack # <<>>
<1>1. /\ Now.stack = stack /\ Now.alive = alive /\ Now.quit = quit /\ Now.refilter = refilter
      /\ Now.reload = reload /\ Now.dirty = dirty /\ Now.stale = stale /\ Now.timer = timer
      /\ Now.loop = loop /\ Now.corrupt = corrupt
  BY DEF Now
<1>2. Now \in States /\ backend \in Backends
  BY DEF IInv, TypeOK, Now, States
<1>3. corrupt \in BOOLEAN
  BY DEF IInv, TypeOK
<1>4. Sound(Now)
  BY <1>1, <1>2 DEF IInv, StackSound, Sound
<1>5. Running => Due(Now)
  BY <1>1, <1>3, Zenon DEF IInv, ListFollowsInput, Running, Due, InputDue, MatcherDue
<1>6. Running <=> loop = "runs" /\ ~corrupt
  BY DEF Running
<1>7. loop = "runs" => stack # <<>>
  BY DEF IInv, StackSound
<1>8. Kept(Now)
  BY <1>1, <1>4, <1>5, <1>6, <1>7 DEF Kept
<1>9. Running => Active \in Now.alive /\ Active = Head(Now.stack)
  BY <1>1, <1>4, <1>6, <1>7, HeadAlive DEF Active
<1>. QED  BY <1>1, <1>2, <1>4, <1>5, <1>6, <1>7, <1>8, <1>9

\* A state is what the variables become.
LEMMA BecomeInv ==
  ASSUME backend \in Backends, NEW u, Become(u), Kept(u)
  PROVE  IInv'
<1>1. /\ stack' = u.stack /\ alive' = u.alive /\ quit' = u.quit /\ refilter' = u.refilter
      /\ reload' = u.reload /\ dirty' = u.dirty /\ mode' = u.mode /\ typed' = u.typed
      /\ stale' = u.stale /\ slow' = u.slow /\ count' = u.count /\ timer' = u.timer
      /\ reloadTimer' = u.reloadTimer /\ repaint' = u.repaint /\ reply' = u.reply
      /\ userTimer' = u.userTimer /\ overlayTimer' = u.overlayTimer /\ loop' = u.loop
      /\ corrupt' = u.corrupt /\ results' = u.results /\ backend' = backend
  BY DEF Become
<1>2. Sound(u) /\ u \in States
  BY DEF Kept, Sound
<1>3. TypeOK'
  BY <1>1, <1>2 DEF TypeOK, States
<1>4. StackSound'
  BY <1>1, <1>2 DEF StackSound, Sound, Kept
<1>5. ListFollowsInput'
  <2>1. u.loop = "runs" /\ ~u.corrupt => Due(u)
    BY DEF Kept
  <2>. QED  BY <1>1, <2>1 DEF ListFollowsInput, Running, Due, InputDue, MatcherDue
<1>. QED  BY <1>3, <1>4, <1>5 DEF IInv

\* An event: what it did, then rofi_view_maybe_update.
LEMMA EventKept ==
  ASSUME NEW u, Sound(u), Due(u), NEW v \in u.alive, NEW x, Sound(x), Due(x), Grows(u, x),
         NEW w \in MaybeUpdate(x, v)
  PROVE  Kept(w)
<1>1. v \in x.alive
  BY DEF Grows
<1>. QED  BY <1>1, MaybeUpdateServed, ServedKept

\* The state in which an event finds the view.
LEMMA TriggeredNow ==
  ASSUME IInv, Running
  PROVE  /\ Sound(Triggered(Now)) /\ Due(Triggered(Now)) /\ Active \in Triggered(Now).alive
         /\ backend \in Backends
<1>1. Sound(Now) /\ Due(Now) /\ Active \in Now.alive /\ backend \in Backends
  BY NowSound
<1>2. /\ Sound(Triggered(Now)) /\ Grows(Now, Triggered(Now)) /\ Same(Now, Triggered(Now))
      /\ Triggered(Now).alive = Now.alive
  BY <1>1, TriggeredSound
<1>. QED  BY <1>1, <1>2, SameDue

\* Accepting: the filter is run first, then the view quits and is updated.
LEMMA AcceptInv == IInv /\ Accept => IInv'
<1> SUFFICES ASSUME IInv, Accept PROVE IInv'
  OBVIOUS
<1>1. Running /\ \E x \in Accepting(Triggered(Now), Active) :
                   \E w \in MaybeUpdate(x, Active) : Become(w)
  BY DEF Accept, Event, Then
<1>2. PICK x \in Accepting(Triggered(Now), Active) : \E w \in MaybeUpdate(x, Active) : Become(w)
  BY <1>1
<1>3. PICK w \in MaybeUpdate(x, Active) : Become(w)
  BY <1>2
<1>4. Sound(x) /\ Due(x) /\ Grows(Triggered(Now), x)
  BY <1>1, <1>2, TriggeredNow, AcceptingSound DEF Due
<1>5. Kept(w)
  BY <1>1, <1>3, <1>4, TriggeredNow, EventKept
<1>. QED  BY <1>1, <1>3, <1>5, TriggeredNow, BecomeInv

\* Leaving without a filter: the view quits and is updated.
LEMMA LeaveInv == IInv /\ Leave => IInv'
<1> SUFFICES ASSUME IInv, Leave PROVE IInv'
  OBVIOUS
<1>1. Running /\ \E x \in Leaving(Triggered(Now), Active) :
                   \E w \in MaybeUpdate(x, Active) : Become(w)
  BY DEF Leave, Event, Then
<1>2. PICK x \in Leaving(Triggered(Now), Active) : \E w \in MaybeUpdate(x, Active) : Become(w)
  BY <1>1
<1>3. PICK w \in MaybeUpdate(x, Active) : Become(w)
  BY <1>2
<1>4. Sound(x) /\ Due(x) /\ Grows(Triggered(Now), x)
  BY <1>1, <1>2, TriggeredNow, LeavingSound DEF Due
<1>5. Kept(w)
  BY <1>1, <1>3, <1>4, TriggeredNow, EventKept
<1>. QED  BY <1>1, <1>3, <1>5, TriggeredNow, BecomeInv

\* Editing: the text changes, the filter is asked for, and the view is updated.
LEMMA EditInv == IInv /\ Edit => IInv'
<1> SUFFICES ASSUME IInv, Edit PROVE IInv'
  OBVIOUS
<1>1. Running /\ \E x \in Edited(Triggered(Now), Active) :
                   \E w \in MaybeUpdate(x, Active) : Become(w)
  BY DEF Edit, Event, Then
<1>2. PICK x \in Edited(Triggered(Now), Active) : \E w \in MaybeUpdate(x, Active) : Become(w)
  BY <1>1
<1>3. PICK w \in MaybeUpdate(x, Active) : Become(w)
  BY <1>2
<1>4. Sound(x) /\ Due(x) /\ Grows(Triggered(Now), x)
  BY <1>1, <1>2, TriggeredNow, EditedSound
<1>5. Kept(w)
  BY <1>1, <1>3, <1>4, TriggeredNow, EventKept
<1>. QED  BY <1>1, <1>3, <1>5, TriggeredNow, BecomeInv

\* Changing the matcher: the list is filtered or the timer started.
LEMMA RematchInv == IInv /\ Rematch => IInv'
<1> SUFFICES ASSUME IInv, Rematch PROVE IInv'
  OBVIOUS
<1>1. Running /\ \E x \in Rematched(Triggered(Now), Active) :
                   \E w \in MaybeUpdate(x, Active) : Become(w)
  BY DEF Rematch, Event, Then
<1>2. PICK x \in Rematched(Triggered(Now), Active) : \E w \in MaybeUpdate(x, Active) : Become(w)
  BY <1>1
<1>3. PICK w \in MaybeUpdate(x, Active) : Become(w)
  BY <1>2
<1>4. Sound(x) /\ Due(x) /\ Grows(Triggered(Now), x)
  BY <1>1, <1>2, TriggeredNow, RematchedSound
<1>5. Kept(w)
  BY <1>1, <1>3, <1>4, TriggeredNow, EventKept
<1>. QED  BY <1>1, <1>3, <1>5, TriggeredNow, BecomeInv

\* Everything else, which may push an error dialog.
LEMMA MoveInv == IInv /\ Move => IInv'
<1> SUFFICES ASSUME IInv, Move PROVE IInv'
  OBVIOUS
<1>1. Running /\ \E x \in Moved(Triggered(Now), Active) :
                   \E w \in MaybeUpdate(x, Active) : Become(w)
  BY DEF Move, Event, Then
<1>2. PICK x \in Moved(Triggered(Now), Active) : \E w \in MaybeUpdate(x, Active) : Become(w)
  BY <1>1
<1>3. PICK w \in MaybeUpdate(x, Active) : Become(w)
  BY <1>2
<1>4. Sound(x) /\ Due(x) /\ Grows(Triggered(Now), x)
  BY <1>1, <1>2, TriggeredNow, MovedSound
<1>5. Kept(w)
  BY <1>1, <1>3, <1>4, TriggeredNow, EventKept
<1>. QED  BY <1>1, <1>3, <1>5, TriggeredNow, BecomeInv

\* rofi_view_user_timeout sets the flag and no more.
LEMMA UserTimeoutInv == IInv /\ UserTimeoutFires => IInv'
<1> SUFFICES ASSUME IInv, UserTimeoutFires PROVE IInv'
  OBVIOUS
<1>1. Running /\ \E w \in Accepting(Triggered(Now), Active) \cup Leaving(Triggered(Now), Active) :
                   Become(w)
  BY DEF UserTimeoutFires
<1>2. PICK w \in Accepting(Triggered(Now), Active) \cup Leaving(Triggered(Now), Active) :
        Become(w)
  BY <1>1
<1>3. Sound(w) /\ Due(w) /\ Grows(Triggered(Now), w)
  BY <1>1, <1>2, TriggeredNow, AcceptingSound, LeavingSound DEF Due
<1>4. w.stack # <<>>
  BY <1>1, <1>3, TriggeredNow, AliveStacked DEF Grows
<1>. QED  BY <1>1, <1>2, <1>3, <1>4, TriggeredNow, BecomeInv DEF Kept

\* A flag that is none of the view's.
LEMMA FlagKept ==
  ASSUME NEW u, Kept(u), NEW w \in States,
         w.stack = u.stack, w.alive = u.alive, w.quit = u.quit, w.refilter = u.refilter,
         w.reload = u.reload, w.dirty \subseteq u.alive, w.loop = u.loop,
         w.corrupt = u.corrupt, w.timer.view = u.timer.view,
         "input" \in w.stale => "input" \in u.stale,
         "matcher" \in w.stale => "matcher" \in u.stale
  PROVE  Kept(w)
<1>1. Sound(w)
  BY DEF Kept, Sound
<1>2. Due(u) => Due(w)
  BY DEF Due, InputDue, MatcherDue
<1>. QED  BY <1>1, <1>2 DEF Kept

\* Asking for a redraw keeps the invariant.
LEMMA QueueRedrawKept ==
  ASSUME NEW u, Kept(u)
  PROVE  Kept(QueueRedraw(u))
<1>1. /\ Sound(QueueRedraw(u)) /\ Grows(u, QueueRedraw(u)) /\ Same(u, QueueRedraw(u))
  BY QueueRedrawSound DEF Kept
<1>2. QueueRedraw(u).stack = u.stack
  BY DEF QueueRedraw, Kept, Sound, States
<1>. QED  BY <1>1, <1>2, SameDue DEF Kept, Grows, Same

\* The cursor blinks.
LEMMA BlinkInv == IInv /\ BlinkFires => IInv'
<1> SUFFICES ASSUME IInv, BlinkFires PROVE IInv'
  OBVIOUS
<1> DEFINE d == Now.dirty \cup {Menu}
           w == [Now EXCEPT !.dirty = d]
<1>1. Menu \in Now.alive /\ Become(QueueRedraw(w))
  BY DEF BlinkFires, Now
<1>2. /\ Now \in States /\ Kept(Now) /\ backend \in Backends
      /\ d \in SUBSET Views /\ d \subseteq Now.alive
  BY <1>1, NowSound DEF Kept, Sound, States
<1> HIDE DEF d
<1>3. w \in States
  BY <1>2 DEF States
<1>4. /\ w.stack = Now.stack /\ w.alive = Now.alive /\ w.quit = Now.quit
      /\ w.refilter = Now.refilter /\ w.reload = Now.reload /\ w.dirty = d
      /\ w.loop = Now.loop /\ w.corrupt = Now.corrupt /\ w.timer = Now.timer
      /\ w.stale = Now.stale
  BY <1>2 DEF States
<1> HIDE DEF w
<1>5. Kept(w)
  BY <1>2, <1>3, <1>4, FlagKept
<1>. QED  BY <1>1, <1>2, <1>5, QueueRedrawKept, BecomeInv

\* The overlay goes away.
LEMMA OverlayInv == IInv /\ OverlayFires => IInv'
<1> SUFFICES ASSUME IInv, OverlayFires PROVE IInv'
  OBVIOUS
<1> DEFINE d == Now.dirty \cup {Active}
           w == [Now EXCEPT !.overlayTimer = FALSE, !.dirty = d]
<1>1. Running /\ Become(QueueRedraw(w))
  BY DEF OverlayFires
<1>2. /\ Now \in States /\ Kept(Now) /\ backend \in Backends /\ Active \in Now.alive
      /\ d \in SUBSET Views /\ d \subseteq Now.alive
  BY <1>1, NowSound DEF Kept, Sound, States
<1> HIDE DEF d
<1>3. w \in States
  BY <1>2 DEF States
<1>4. /\ w.stack = Now.stack /\ w.alive = Now.alive /\ w.quit = Now.quit
      /\ w.refilter = Now.refilter /\ w.reload = Now.reload /\ w.dirty = d
      /\ w.loop = Now.loop /\ w.corrupt = Now.corrupt /\ w.timer = Now.timer
      /\ w.stale = Now.stale
  BY <1>2 DEF States
<1> HIDE DEF w
<1>5. Kept(w)
  BY <1>2, <1>3, <1>4, FlagKept
<1>. QED  BY <1>1, <1>2, <1>5, QueueRedrawKept, BecomeInv

\* The rows of the mode change and a reload is asked for.
LEMMA RowsChangeInv == IInv /\ RowsChange => IInv'
<1> SUFFICES ASSUME IInv, RowsChange PROVE IInv'
  OBVIOUS
<1> DEFINE s == Now.stale \cup {"rows"}
           w == [Now EXCEPT !.stale = s, !.reloadTimer = TRUE]
<1>1. Become(w)
  BY DEF RowsChange
<1>2. /\ Now \in States /\ Kept(Now) /\ backend \in Backends /\ s \in SUBSET Parts
      /\ Now.dirty \subseteq Now.alive
      /\ ("input" \in s => "input" \in Now.stale) /\ ("matcher" \in s => "matcher" \in Now.stale)
  BY NowSound DEF Kept, Sound, States, Parts
<1> HIDE DEF s
<1>3. w \in States
  BY <1>2 DEF States
<1>4. /\ w.stack = Now.stack /\ w.alive = Now.alive /\ w.quit = Now.quit
      /\ w.refilter = Now.refilter /\ w.reload = Now.reload /\ w.dirty = Now.dirty
      /\ w.loop = Now.loop /\ w.corrupt = Now.corrupt /\ w.timer = Now.timer
      /\ w.stale = s
  BY <1>2 DEF States
<1> HIDE DEF w
<1>5. Kept(w)
  BY <1>2, <1>3, <1>4, FlagKept
<1>. QED  BY <1>1, <1>2, <1>5, BecomeInv

\* A view that is asked to read its rows again.
LEMMA ReloadInv == IInv /\ ReloadFires => IInv'
<1> SUFFICES ASSUME IInv, ReloadFires PROVE IInv'
  OBVIOUS
<1> DEFINE l == Now.reload \cup {Active}
           r == Now.refilter \cup {Active}
           x == [Now EXCEPT !.reload = l, !.refilter = r]
<1>1. /\ Running
      /\ \E u \in IF backend = "xcb" THEN {QueueRedraw(x)} ELSE MaybeUpdate(x, Active) :
           Become([u EXCEPT !.reloadTimer = FALSE])
  BY DEF ReloadFires
<1>2. /\ Now \in States /\ Kept(Now) /\ backend \in Backends /\ Active \in Now.alive
      /\ Sound(Now) /\ Due(Now) /\ Now.stack # <<>>
      /\ l \in SUBSET Views /\ l \subseteq Now.alive
      /\ r \in SUBSET Views /\ r \subseteq Now.alive /\ Now.refilter \subseteq r
  BY <1>1, NowSound DEF Kept, Sound, States
<1>3. PICK u \in IF backend = "xcb" THEN {QueueRedraw(x)} ELSE MaybeUpdate(x, Active) :
        Become([u EXCEPT !.reloadTimer = FALSE])
  BY <1>1
<1> HIDE DEF l, r
<1>4. x \in States
  BY <1>2 DEF States
<1>5. /\ x.stack = Now.stack /\ x.alive = Now.alive /\ x.quit = Now.quit
      /\ x.refilter = r /\ x.reload = l /\ x.dirty = Now.dirty
      /\ x.loop = Now.loop /\ x.corrupt = Now.corrupt /\ x.timer = Now.timer
      /\ x.stale = Now.stale
  BY <1>2 DEF States
<1> HIDE DEF x
<1>6. Sound(x) /\ Due(x) /\ x.stack # <<>> /\ Active \in x.alive
  BY <1>2, <1>4, <1>5 DEF Sound, Due, InputDue, MatcherDue
<1>7. Kept(u)
  <2>1. CASE backend = "xcb"
    <3>1. Kept(x)
      BY <1>6 DEF Kept
    <3>. QED  BY <1>3, <2>1, <3>1, QueueRedrawKept
  <2>2. CASE backend # "xcb"
    BY <1>3, <1>6, <2>2, MaybeUpdateServed, ServedKept
  <2>. QED  BY <2>1, <2>2
<1> DEFINE w == [u EXCEPT !.reloadTimer = FALSE]
<1>8. u \in States /\ u.dirty \subseteq u.alive
  BY <1>7 DEF Kept, Sound
<1>9. w \in States
  BY <1>8 DEF States
<1>10. /\ w.stack = u.stack /\ w.alive = u.alive /\ w.quit = u.quit
       /\ w.refilter = u.refilter /\ w.reload = u.reload /\ w.dirty = u.dirty
       /\ w.loop = u.loop /\ w.corrupt = u.corrupt /\ w.timer = u.timer
       /\ w.stale = u.stale
  BY <1>8 DEF States
<1>11. Become(w)
  BY <1>3
<1> HIDE DEF w
<1>12. Kept(w)
  BY <1>7, <1>8, <1>9, <1>10, FlagKept
<1>. QED  BY <1>2, <1>11, <1>12, BecomeInv

\* The repaint source: it draws (X11), or updates the view first (Wayland).
LEMMA RepaintInv == IInv /\ Repaint => IInv'
<1> SUFFICES ASSUME IInv, Repaint PROVE IInv'
  OBVIOUS
<1> DEFINE d == Now.dirty \ {Active}
           x == [Now EXCEPT !.dirty = d, !.reply = TRUE]
<1>1. /\ Running
      /\ \E u \in IF backend = "xcb" THEN {x} ELSE MaybeUpdate(Now, Active) :
           Become([u EXCEPT !.repaint = FALSE])
  BY DEF Repaint
<1>2. /\ Now \in States /\ Kept(Now) /\ backend \in Backends /\ Active \in Now.alive
      /\ Sound(Now) /\ Due(Now) /\ d \in SUBSET Views /\ d \subseteq Now.alive
  BY <1>1, NowSound DEF Kept, Sound, States
<1>3. PICK u \in IF backend = "xcb" THEN {x} ELSE MaybeUpdate(Now, Active) :
        Become([u EXCEPT !.repaint = FALSE])
  BY <1>1
<1> HIDE DEF d
<1>4. x \in States
  BY <1>2 DEF States
<1>5. /\ x.stack = Now.stack /\ x.alive = Now.alive /\ x.quit = Now.quit
      /\ x.refilter = Now.refilter /\ x.reload = Now.reload /\ x.dirty = d
      /\ x.loop = Now.loop /\ x.corrupt = Now.corrupt /\ x.timer = Now.timer
      /\ x.stale = Now.stale
  BY <1>2 DEF States
<1> HIDE DEF x
<1>6. Kept(x)
  BY <1>2, <1>4, <1>5, FlagKept
<1>7. Kept(u)
  <2>1. CASE backend = "xcb"
    BY <1>3, <1>6, <2>1
  <2>2. CASE backend # "xcb"
    BY <1>2, <1>3, <2>2, MaybeUpdateServed, ServedKept
  <2>. QED  BY <2>1, <2>2
<1> DEFINE w == [u EXCEPT !.repaint = FALSE]
<1>8. u \in States /\ u.dirty \subseteq u.alive
  BY <1>7 DEF Kept, Sound
<1>9. w \in States
  BY <1>8 DEF States
<1>10. /\ w.stack = u.stack /\ w.alive = u.alive /\ w.quit = u.quit
       /\ w.refilter = u.refilter /\ w.reload = u.reload /\ w.dirty = u.dirty
       /\ w.loop = u.loop /\ w.corrupt = u.corrupt /\ w.timer = u.timer
       /\ w.stale = u.stale
  BY <1>8 DEF States
<1>11. Become(w)
  BY <1>3
<1> HIDE DEF w
<1>12. Kept(w)
  BY <1>7, <1>8, <1>9, <1>10, FlagKept
<1>. QED  BY <1>2, <1>11, <1>12, BecomeInv

\* The answer of the display server: an update (X11), or a redraw (Wayland).
LEMMA ReplyInv == IInv /\ Reply => IInv'
<1> SUFFICES ASSUME IInv, Reply PROVE IInv'
  OBVIOUS
<1> DEFINE x == [Now EXCEPT !.reply = FALSE]
           y == [x EXCEPT !.repaint = TRUE]
<1>1. /\ Running
      /\ \E u \in IF backend = "xcb" THEN MaybeUpdate(x, Active) ELSE {y} : Become(u)
  BY DEF Reply
<1>2. /\ Now \in States /\ Kept(Now) /\ backend \in Backends /\ Active \in Now.alive
      /\ Now.dirty \subseteq Now.alive /\ Now.loop = "runs" /\ ~Now.corrupt
  BY <1>1, NowSound DEF Kept, Sound
<1>3. PICK u \in IF backend = "xcb" THEN MaybeUpdate(x, Active) ELSE {y} : Become(u)
  BY <1>1
<1>4. x \in States
  BY <1>2 DEF States
<1>5. /\ x.stack = Now.stack /\ x.alive = Now.alive /\ x.quit = Now.quit
      /\ x.refilter = Now.refilter /\ x.reload = Now.reload /\ x.dirty = Now.dirty
      /\ x.loop = Now.loop /\ x.corrupt = Now.corrupt /\ x.timer = Now.timer
      /\ x.stale = Now.stale
  BY <1>2 DEF States
<1> HIDE DEF x
<1>6. Kept(x)
  BY <1>2, <1>4, <1>5, FlagKept
<1>7. y \in States
  BY <1>4 DEF States
<1>8. /\ y.stack = x.stack /\ y.alive = x.alive /\ y.quit = x.quit
      /\ y.refilter = x.refilter /\ y.reload = x.reload /\ y.dirty = x.dirty
      /\ y.loop = x.loop /\ y.corrupt = x.corrupt /\ y.timer = x.timer
      /\ y.stale = x.stale
  BY <1>4 DEF States
<1> HIDE DEF y
<1>9. Kept(y)
  BY <1>2, <1>5, <1>6, <1>7, <1>8, FlagKept
<1>10. Kept(u)
  <2>1. CASE backend = "xcb"
    <3>1. Sound(x) /\ Due(x) /\ Active \in x.alive
      BY <1>2, <1>5, <1>6 DEF Kept
    <3>. QED  BY <1>3, <2>1, <3>1, MaybeUpdateServed, ServedKept
  <2>2. CASE backend # "xcb"
    BY <1>3, <1>9, <2>2
  <2>. QED  BY <2>1, <2>2
<1>. QED  BY <1>2, <1>3, <1>10, BecomeInv

\* The timer of the delayed filter becomes due.
LEMMA TimerRunsInv == IInv /\ TimerRuns => IInv'
<1> SUFFICES ASSUME IInv, TimerRuns PROVE IInv'
  OBVIOUS
<1> DEFINE t == [Now.timer EXCEPT !.due = TRUE]
           w == [Now EXCEPT !.timer = t]
<1>1. Become(w)
  BY DEF TimerRuns
<1>2. /\ Now \in States /\ Kept(Now) /\ backend \in Backends
      /\ Now.timer \in [view : Views \cup {None}, due : BOOLEAN]
      /\ Now.dirty \subseteq Now.alive
  BY NowSound DEF Kept, Sound, States
<1>3. t \in [view : Views \cup {None}, due : BOOLEAN] /\ t.view = Now.timer.view
  BY <1>2
<1> HIDE DEF t
<1>4. w \in States
  BY <1>2, <1>3 DEF States
<1>5. /\ w.stack = Now.stack /\ w.alive = Now.alive /\ w.quit = Now.quit
      /\ w.refilter = Now.refilter /\ w.reload = Now.reload /\ w.dirty = Now.dirty
      /\ w.loop = Now.loop /\ w.corrupt = Now.corrupt /\ w.timer = t
      /\ w.stale = Now.stale
  BY <1>2 DEF States
<1> HIDE DEF w
<1>6. Kept(w)
  BY <1>2, <1>3, <1>4, <1>5, FlagKept
<1>. QED  BY <1>1, <1>2, <1>6, BecomeInv

\* The timer computes the list, or finds a view that was freed.
LEMMA TimerFiresInv == IInv /\ TimerFires => IInv'
<1> SUFFICES ASSUME IInv, TimerFires PROVE IInv'
  OBVIOUS
<1>1. ~corrupt /\ \E u \in RefilterReal(Now, timer.view) : Become(u)
  BY DEF TimerFires
<1>2. PICK u \in RefilterReal(Now, timer.view) : Become(u)
  BY <1>1
<1>3. /\ Sound(Now) /\ Kept(Now) /\ backend \in Backends
      /\ Now.corrupt = corrupt
  BY NowSound DEF Now
<1>4. CASE timer.view \in Now.alive
  <2>1. /\ Sound(u) /\ Grows(Now, u) /\ u.corrupt = Now.corrupt
        /\ timer.view = Menu => u.stale \subseteq {"rows"}
        /\ timer.view # Menu =>
             u.quit = Now.quit /\ u.refilter = Now.refilter /\ u.stale = Now.stale
    BY <1>2, <1>3, <1>4, RefilterRealSound
  <2>2. u.stack # <<>>
    BY <1>4, <2>1, AliveStacked DEF Grows
  <2>3. timer.view = Menu => Due(u)
    BY <2>1, ComputedNotDue
  <2>4. timer.view # Menu /\ u.loop = "runs" => Due(u)
    <3> SUFFICES ASSUME timer.view # Menu, u.loop = "runs" PROVE Due(u)
      OBVIOUS
    <3>1. Dialogs # {}
      BY <1>3, <1>4, AliveStacked DEF Views
    <3>. QED  BY <1>1, <1>3, <2>1, <3>1 DEF Kept, Due, InputDue, MatcherDue, Grows
  <2>5. Kept(u)
    BY <2>1, <2>2, <2>3, <2>4 DEF Kept
  <2>. QED  BY <1>2, <1>3, <2>5, BecomeInv
<1>5. CASE timer.view \notin Now.alive
  <2>1. Sound(u) /\ Grows(Now, u) /\ u.corrupt = TRUE
    BY <1>2, <1>3, <1>5, RefilterFreed
  <2>2. u.loop = "runs" => u.stack # <<>>
    <3> SUFFICES ASSUME u.loop = "runs" PROVE u.stack # <<>>
      OBVIOUS
    <3>1. Now.stack # <<>>
      BY <1>3, <2>1 DEF Kept, Grows
    <3>2. Head(Now.stack) \in u.alive
      BY <1>3, <2>1, <3>1, HeadAlive DEF Grows
    <3>. QED  BY <2>1, <3>2, AliveStacked
  <2>3. Kept(u)
    BY <2>1, <2>2 DEF Kept
  <2>. QED  BY <1>2, <1>3, <2>3, BecomeInv
<1>. QED  BY <1>4, <1>5

\* The loop ends as it is.
LEMMA InterruptInv == IInv /\ Interrupt => IInv'
<1> SUFFICES ASSUME IInv, Interrupt PROVE IInv'
  OBVIOUS
<1> DEFINE w == [Now EXCEPT !.loop = "ends"]
<1>1. Become(w)
  BY DEF Interrupt
<1>2. Now \in States /\ Sound(Now) /\ backend \in Backends
  BY NowSound
<1>3. w \in States
  BY <1>2 DEF States
<1>4. /\ w.stack = Now.stack /\ w.alive = Now.alive /\ w.quit = Now.quit
      /\ w.refilter = Now.refilter /\ w.reload = Now.reload /\ w.dirty = Now.dirty
      /\ w.loop = "ends"
  BY <1>2 DEF States
<1> HIDE DEF w
<1>5. Kept(w)
  BY <1>2, <1>3, <1>4 DEF Kept, Sound
<1>. QED  BY <1>1, <1>2, <1>5, BecomeInv

\* The loop has ended: its sources are gone, and nothing is demanded of the list.
LEMMA TeardownInv == IInv /\ Teardown => IInv'
<1> SUFFICES ASSUME IInv, Teardown PROVE IInv'
  OBVIOUS
<1> DEFINE w == [Now EXCEPT !.loop = "over", !.timer = NoTimer, !.reloadTimer = FALSE,
                            !.repaint = FALSE, !.userTimer = FALSE, !.overlayTimer = FALSE]
<1>1. Become(w)
  BY DEF Teardown
<1>2. /\ Now \in States /\ Sound(Now) /\ backend \in Backends
      /\ NoTimer \in [view : Views \cup {None}, due : BOOLEAN]
  BY NowSound DEF NoTimer
<1>3. w \in States
  BY <1>2 DEF States
<1>4. /\ w.stack = Now.stack /\ w.alive = Now.alive /\ w.quit = Now.quit
      /\ w.refilter = Now.refilter /\ w.reload = Now.reload /\ w.dirty = Now.dirty
      /\ w.loop = "over"
  BY <1>2 DEF States
<1> HIDE DEF w
<1>5. Kept(w)
  BY <1>2, <1>3, <1>4 DEF Kept, Sound
<1>. QED  BY <1>1, <1>2, <1>5, BecomeInv

-----------------------------------------------------------------------------
(* The theorems.                                                           *)

\* The first state: the menu, or the menu below the first dialog.
LEMMA InitInv == Init => IInv
<1> SUFFICES ASSUME Init PROVE IInv
  OBVIOUS
<1>1. Menu \in Views /\ None \notin Views /\ Dialogs \subseteq Views /\ Menu \notin Dialogs
  BY DEF Menu, Views, None
<1>2. PICK s \in Seq(Views) : stack = s /\ IsInjective(s) /\ s # <<>> /\ ToSet(s) \subseteq Views
                              /\ Menu \in ToSet(s)
  <2>1. CASE stack = <<Menu>>
    <3>1. <<Menu>> \in Seq(Views) /\ IsInjective(<<Menu>>) /\ ToSet(<<Menu>>) = {Menu}
      BY <1>1 DEF IsInjective, ToSet
    <3>. QED  BY <1>1, <2>1, <3>1
  <2>2. CASE \E d \in Dialogs : stack = <<Menu, d>>
    <3>1. PICK d \in Dialogs : stack = <<Menu, d>>
      BY <2>2
    <3> DEFINE s == <<Menu, d>>
    <3>2. s \in Seq(Views) /\ DOMAIN s = 1 .. 2 /\ s[1] = Menu /\ s[2] = d /\ d # Menu
      BY <1>1
    <3>3. s # <<>>
      BY <3>2
    <3> HIDE DEF s
    <3>4. IsInjective(s) /\ ToSet(s) = {Menu, d}
      <4>1. \A i \in 1 .. 2 : i = 1 \/ i = 2
        OBVIOUS
      <4>. QED  BY <3>2, <4>1 DEF IsInjective, ToSet
    <3>. QED  BY <1>1, <3>1, <3>2, <3>3, <3>4 DEF s
  <2>. QED  BY <2>1, <2>2 DEF Init
<1>3. TypeOK
  <2>1. /\ alive = ToSet(s) /\ stack = s /\ dirty = ToSet(s) /\ quit \subseteq {Menu}
        /\ slow \in {FALSE, typed} /\ typed \in BOOLEAN /\ stale = {} /\ refilter = {}
        /\ reload = {} /\ mode \in Modes /\ count = 0 /\ backend \in Backends
        /\ reloadTimer = FALSE /\ repaint = TRUE /\ reply = FALSE
        /\ userTimer = UserTimeout /\ overlayTimer = FALSE
        /\ loop = "runs" /\ corrupt = FALSE /\ results = FALSE
    BY <1>2 DEF Init
  <2>2. timer \in [view : Views \cup {None}, due : BOOLEAN]
    BY DEF Init, NoTimer
  <2>3. /\ slow \in BOOLEAN /\ reloadTimer \in BOOLEAN /\ repaint \in BOOLEAN
        /\ reply \in BOOLEAN /\ userTimer \in BOOLEAN /\ overlayTimer \in BOOLEAN
        /\ corrupt \in BOOLEAN /\ results \in BOOLEAN
    BY <2>1
  <2>4. /\ quit \subseteq Views /\ alive \subseteq Views /\ dirty \subseteq Views
        /\ refilter \subseteq Views /\ reload \subseteq Views /\ stale \subseteq Parts
        /\ count \in 0 .. CountLimit - 1 /\ loop \in {"runs", "ends", "over"}
        /\ stack \in Seq(Views)
    BY <1>1, <1>2, <2>1
  <2>. QED  BY <2>1, <2>2, <2>3, <2>4, Zenon DEF TypeOK
<1>4. StackSound
  <2>1. /\ alive = ToSet(s) /\ dirty = ToSet(s) /\ quit \subseteq {Menu} /\ refilter = {}
        /\ reload = {}
    BY <1>2 DEF Init
  <2>. QED  BY <1>2, <2>1 DEF StackSound
<1>5. ListFollowsInput
  BY DEF Init, ListFollowsInput
<1>. QED  BY <1>3, <1>4, <1>5 DEF IInv

\* The invariant is kept by every source of the main loop.
LEMMA NextInv == IInv /\ [Next]_vars => IInv'
<1> SUFFICES ASSUME IInv, [Next]_vars PROVE IInv'
  OBVIOUS
<1>1. CASE UserStep
  BY <1>1, AcceptInv, LeaveInv, EditInv, RematchInv, MoveInv DEF UserStep
<1>2. CASE SourceStep
  BY <1>2, BlinkInv, OverlayInv, ReloadInv, RepaintInv, ReplyInv, TimerRunsInv, TimerFiresInv
  DEF SourceStep
<1>3. CASE UserTimeoutFires \/ RowsChange \/ Interrupt \/ Teardown
  BY <1>3, UserTimeoutInv, RowsChangeInv, InterruptInv, TeardownInv
<1>4. CASE UNCHANGED vars
  BY <1>4 DEF vars, IInv, TypeOK, StackSound, ListFollowsInput, Running
<1>. QED  BY <1>1, <1>2, <1>3, <1>4 DEF Next

\* The inductive invariant holds in every state of the main loop.
THEOREM Invariance == Spec => []IInv
BY InitInv, NextInv, PTL DEF Spec

\* The variables of the main loop always have their types; the count of
\* filters that were put off stays below its limit.
THEOREM TypeCorrect == Spec => []TypeOK
<1>1. IInv => TypeOK
  BY DEF IInv
<1>. QED  BY <1>1, Invariance, PTL

\* The views on the stack are those that are allocated, each once; nothing is
\* marked on one that is gone; and while the loop runs there is one.
THEOREM StackCorrect == Spec => []StackSound
<1>1. IInv => StackSound
  BY DEF IInv
<1>. QED  BY <1>1, Invariance, PTL

\* The list never silently disagrees with the text or the matcher.
THEOREM InputFollowed == Spec => []ListFollowsInput
<1>1. IInv => ListFollowsInput
  BY DEF IInv
<1>. QED  BY <1>1, Invariance, PTL

HIDE ViewAssumption
USE WaylandSeatAssumption, WaylandSurfaceAssumption

-----------------------------------------------------------------------------
(* The keys.                                                               *)

\* At most one timer: the one the seat knows.
KnownTimer == \A t \in timers : t = repeatSource

\* A new timer has a number that no timer has.
LEMMA TimerIsNew ==
  ASSUME SeatTypeOK, KnownTimer, NEW kind \in {"delay", "repeat"}
  PROVE  NewTimer(kind) \in Timers
<1> DEFINE free == {i \in 1 .. 3 : \A t \in timers : t.id # i}
<1>1. free # {}
  <2>1. CASE timers = {}
    BY <2>1
  <2>2. CASE timers # {}
    <3>1. timers = {repeatSource}
      BY <2>2 DEF KnownTimer
    <3>2. 1 \in free \/ 2 \in free
      BY <3>1
    <3> QED BY <3>2
  <2> QED BY <2>1, <2>2
<1>2. free \subseteq Nat
  OBVIOUS
<1> HIDE DEF free
<1>3. \E i \in free : \A j \in free : i <= j
  BY <1>1, <1>2, Least
<1>4. (CHOOSE i \in free : \A j \in free : i <= j) \in free
  BY <1>3
<1>5. \A i \in free : i \in 1 .. 3
  BY DEF free
<1>6. \A i \in 1 .. 3 : [id |-> i, kind |-> kind] \in Timers
  BY DEF Timers
<1> QED BY <1>4, <1>5, <1>6 DEF NewTimer, free

\* A distance of the touch pad is a number.
LEMMA DistanceIsInt ==
  ASSUME SeatTypeOK
  PROVE  Distance \in Int
<1>1. turning.value \in Int
  BY DEF SeatTypeOK
<1> QED BY <1>1 DEF Distance

\* The conversion to gint drops less than one, of either sign, and nothing of
\* a whole number.
LEMMA TruncationError ==
  ASSUME NEW v \in Int
  PROVE  /\ Truncated(v) \in Int
         /\ -63 <= v - 64 * Truncated(v) /\ v - 64 * Truncated(v) <= 63
<1>1. ASSUME NEW n \in Nat
      PROVE  n \div 64 \in Nat /\ 0 <= n - 64 * (n \div 64) /\ n - 64 * (n \div 64) <= 63
  OBVIOUS
<1>2. CASE v < 0
  <2>1. -v \in Nat /\ Truncated(v) = -((-v) \div 64)
    BY <1>2 DEF Truncated
  <2>2. /\ (-v) \div 64 \in Nat /\ 0 <= (-v) - 64 * ((-v) \div 64)
        /\ (-v) - 64 * ((-v) \div 64) <= 63
    BY <1>1, <2>1
  <2> QED BY <2>1, <2>2
<1>3. CASE v >= 0
  <2>1. v \in Nat /\ Truncated(v) = v \div 64
    BY <1>3 DEF Truncated
  <2> QED BY <1>1, <2>1
<1> QED BY <1>2, <1>3
LEMMA WholeIsKept ==
  ASSUME NEW n \in Int
  PROVE  Truncated(64 * n) = n
<1>1. ASSUME NEW m \in Nat PROVE (64 * m) \div 64 = m
  OBVIOUS
<1>2. CASE n < 0
  <2>1. -n \in Nat /\ 64 * n < 0 /\ -(64 * n) = 64 * (-n)
    BY <1>2
  <2> QED BY <1>1, <2>1 DEF Truncated
<1>3. CASE n >= 0
  <2>1. n \in Nat /\ ~ (64 * n < 0)
    BY <1>3
  <2> QED BY <1>1, <2>1 DEF Truncated
<1> QED BY <1>2, <1>3

\* Whole notches and the rest, of either sign, are all there is.
LEMMA NotchesAndRest ==
  ASSUME NEW v \in Int
  PROVE  Notches(v) \in Int /\ Rest(v) \in Int /\ 120 * Notches(v) + Rest(v) = v
<1>1. CASE v > 0
  BY <1>1 DEF Notches, Rest
<1>2. CASE v <= 0
  <2>1. ASSUME NEW n \in Nat
        PROVE  n \div 120 \in Nat /\ n % 120 \in Nat /\ n = 120 * (n \div 120) + (n % 120)
    OBVIOUS
  <2>2. -v \in Nat /\ (v = 0 => -v = 0)
    BY <1>2
  <2>3. /\ (-v) \div 120 \in Nat /\ (-v) % 120 \in Nat
        /\ -v = 120 * ((-v) \div 120) + ((-v) % 120)
    BY <2>1, <2>2
  <2>4. CASE v = 0
    BY <2>4 DEF Notches, Rest
  <2>5. CASE v < 0
    <3>1. Notches(v) = -((-v) \div 120) /\ Rest(v) = -((-v) % 120)
      BY <2>5 DEF Notches, Rest
    <3> QED BY <3>1, <2>3
  <2> QED BY <1>2, <2>4, <2>5
<1> QED BY <1>1, <1>2

SeatInv == SeatTypeOK /\ SeatSound

\* The seat without keyboard and pointer.
LEMMA SeatInitInv == SeatInit => SeatInv
<1> SUFFICES ASSUME SeatInit PROVE SeatInv
  OBVIOUS
<1>1. SeatTypeOK
  <2>1. turning \in [source : {"wheel", "finger", "continuous"}, value : Int]
    BY DEF SeatInit, Still
  <2>2. keyboard \in BOOLEAN /\ pointer \in BOOLEAN /\ open \in BOOLEAN
    BY Zenon DEF SeatInit
  <2> QED BY <2>1, <2>2 DEF SeatInit, SeatTypeOK
<1>2. SeatSound
  <2>1. timers = {} /\ repeatSource = NoRepeat /\ turned = 0 /\ scrolled = 0 /\ wheel = 0 /\ frames = 0
    BY DEF SeatInit
  <2>2. turned - 64 * (120 * scrolled + wheel) = 0 /\ 63 * frames = 0
    BY <2>1
  <2>3. ScrollCounts
    BY <2>2 DEF ScrollCounts, Abs
  <2> QED BY <2>1, <2>3 DEF SeatSound, RepeatStops
<1> QED BY <1>1, <1>2 DEF SeatInv

\* What is true of the timers before a step.
LEMMA SeatFacts ==
  ASSUME SeatInv
  PROVE  /\ KnownTimer
         /\ timers # {} => repeatKey # NoKey
         /\ \A t \in timers : Without(t) = {}
         /\ Without(repeatSource) = {}
         /\ \A kind \in {"delay", "repeat"} : NewTimer(kind) \in Timers
<1>1. KnownTimer
  BY DEF SeatInv, SeatSound, RepeatStops, KnownTimer
<1>2. timers # {} => repeatKey # NoKey
  BY DEF SeatInv, SeatSound, SeatTypeOK, RepeatStops, NoKey
<1>3. Without(repeatSource) = {} /\ \A t \in timers : Without(t) = {}
  BY <1>1 DEF KnownTimer, Without
<1>4. \A kind \in {"delay", "repeat"} : NewTimer(kind) \in Timers
  BY <1>1, TimerIsNew DEF SeatInv
<1> QED BY <1>1, <1>2, <1>3, <1>4

\* Stopping the repetition leaves no timer.
LEMMA StopIsSound ==
  ASSUME SeatInv, StopRepeat
  PROVE  /\ repeatKey' \in RepeatKeys \cup {NoKey} /\ repeatSource' = NoRepeat /\ timers' = {}
BY SeatFacts DEF StopRepeat

\* The variables of the keys have their types after the step.
KeyTypes ==
  /\ held' \subseteq RepeatKeys /\ lifted' \subseteq RepeatKeys /\ repeatKey' \in RepeatKeys \cup {NoKey}
  /\ repeatSource' \in Timers \cup {NoRepeat} /\ timers' \subseteq Timers

\* A step of the keys that leaves the wheel alone.
LEMMA KeyStep ==
  ASSUME SeatInv, KeyTypes, RepeatStops', caps' \subseteq {"keyboard", "pointer"},
         keyboard' \in BOOLEAN, pointer' \in BOOLEAN, open' \in BOOLEAN, UNCHANGED wheelvars
  PROVE  SeatInv'
<1>1. SeatTypeOK'
  BY DEF SeatInv, SeatTypeOK, KeyTypes, wheelvars
<1>2. ScrollCounts'
  BY DEF SeatInv, SeatSound, ScrollCounts, wheelvars
<1> QED BY <1>1, <1>2 DEF SeatInv, SeatSound

\* A step of the wheel that leaves the keys alone.
LEMMA WheelStep ==
  ASSUME SeatInv, UNCHANGED <<caps, keyboard, pointer, keyvars, open>>,
         wheel' \in Int, turned' \in Int, scrolled' \in Int, frames' \in Nat,
         turning' \in [source : {"wheel", "finger", "continuous"}, value : Int], ScrollCounts'
  PROVE  SeatInv'
<1>1. SeatTypeOK'
  BY DEF SeatInv, SeatTypeOK, keyvars
<1>2. RepeatStops'
  BY DEF SeatInv, SeatSound, RepeatStops, keyvars
<1> QED BY <1>1, <1>2 DEF SeatInv, SeatSound

\* wayland_seat_capabilities
LEMMA CapabilitiesInv ==
  ASSUME SeatInv, NEW c \in SUBSET {"keyboard", "pointer"}, Capabilities(c)
  PROVE  SeatInv'
<1>1. caps' \subseteq {"keyboard", "pointer"} /\ keyboard' \in BOOLEAN /\ pointer' \in BOOLEAN
  <2>1. keyboard' \in BOOLEAN
    BY Zenon DEF Capabilities, SeatInv, SeatTypeOK
  <2>2. caps' \subseteq {"keyboard", "pointer"}
    BY DEF Capabilities
  <2>3. pointer' \in BOOLEAN
    <3>1. pointer' = ("pointer" \in c)
      BY DEF Capabilities
    <3> QED BY <3>1
  <2> QED BY <2>1, <2>2, <2>3
<1>2. open' = open /\ open \in BOOLEAN /\ UNCHANGED wheelvars
  BY DEF Capabilities, SeatInv, SeatTypeOK, wheelvars
<1>3. /\ held' \subseteq held /\ held' \subseteq RepeatKeys /\ lifted' \subseteq RepeatKeys
      /\ held \cup lifted \subseteq held' \cup lifted'
  BY DEF Capabilities, SeatInv, SeatTypeOK
<1>4. CASE StopRepeat
  <2>1. KeyTypes
    BY <1>3, <1>4, StopIsSound DEF KeyTypes
  <2>2. RepeatStops'
    BY <1>4, StopIsSound DEF RepeatStops
  <2> QED BY <1>1, <1>2, <2>1, <2>2, KeyStep
<1>5. CASE UNCHANGED <<repeatKey, repeatSource, timers>>
  <2>1. KeyTypes
    BY <1>3, <1>5 DEF KeyTypes, SeatInv, SeatTypeOK
  <2>2. RepeatStops'
    BY <1>2, <1>3, <1>5 DEF RepeatStops, SeatInv, SeatSound
  <2> QED BY <1>1, <1>2, <2>1, <2>2, KeyStep
<1> QED BY <1>4, <1>5 DEF Capabilities

\* wayland_keyboard_leave
LEMMA KeyboardLeaveInv ==
  ASSUME SeatInv, KeyboardLeave
  PROVE  SeatInv'
<1>1. KeyTypes
  BY DEF KeyTypes, KeyboardLeave, SeatInv, SeatTypeOK
<1>2. RepeatStops'
  BY DEF KeyboardLeave, SeatInv, SeatSound, RepeatStops
<1>3. /\ caps' \subseteq {"keyboard", "pointer"} /\ keyboard' \in BOOLEAN /\ pointer' \in BOOLEAN
      /\ open' \in BOOLEAN /\ UNCHANGED wheelvars
  BY DEF KeyboardLeave, SeatInv, SeatTypeOK, wheelvars
<1> QED BY <1>1, <1>2, <1>3, KeyStep

\* wayland_keyboard_repeat_info
LEMMA RepeatInfoInv ==
  ASSUME SeatInv, RepeatInfo
  PROVE  SeatInv'
<1>1. KeyTypes
  BY StopIsSound DEF KeyTypes, RepeatInfo, SeatInv, SeatTypeOK
<1>2. RepeatStops'
  BY StopIsSound DEF RepeatInfo, RepeatStops
<1>3. /\ caps' \subseteq {"keyboard", "pointer"} /\ keyboard' \in BOOLEAN /\ pointer' \in BOOLEAN
      /\ open' \in BOOLEAN /\ UNCHANGED wheelvars
  BY DEF RepeatInfo, SeatInv, SeatTypeOK, wheelvars
<1> QED BY <1>1, <1>2, <1>3, KeyStep

\* wayland_keyboard_key, a key goes down.
LEMMA KeyPressInv ==
  ASSUME SeatInv, NEW k \in RepeatKeys, NEW stays \in BOOLEAN, KeyPress(k, stays)
  PROVE  SeatInv'
<1> DEFINE new == NewTimer("delay")
<1>1. new \in Timers
  BY SeatFacts
<1> HIDE DEF new
<1>2. repeatSource' = new /\ timers' = {new} /\ repeatKey' = k
  BY SeatFacts DEF KeyPress, new
<1>3. k \in held' /\ held' \subseteq RepeatKeys /\ lifted' \subseteq RepeatKeys
  BY DEF KeyPress, SeatInv, SeatTypeOK
<1>4. KeyTypes
  BY <1>1, <1>2, <1>3 DEF KeyTypes
<1>5. RepeatStops'
  BY <1>2, <1>3 DEF RepeatStops
<1>6. /\ caps' \subseteq {"keyboard", "pointer"} /\ keyboard' \in BOOLEAN /\ pointer' \in BOOLEAN
      /\ open' \in BOOLEAN /\ UNCHANGED wheelvars
  BY DEF KeyPress, SeatInv, SeatTypeOK, wheelvars
<1> QED BY <1>4, <1>5, <1>6, KeyStep

\* wayland_keyboard_key, a key goes up.
LEMMA KeyReleaseInv ==
  ASSUME SeatInv, NEW k \in RepeatKeys, NEW stays \in BOOLEAN, KeyRelease(k, stays)
  PROVE  SeatInv'
<1>1. /\ caps' \subseteq {"keyboard", "pointer"} /\ keyboard' \in BOOLEAN /\ pointer' \in BOOLEAN
      /\ open' \in BOOLEAN /\ UNCHANGED wheelvars
  BY DEF KeyRelease, SeatInv, SeatTypeOK, wheelvars
<1>2. open /\ held' = held \ {k} /\ lifted' = lifted /\ held' \subseteq RepeatKeys /\ lifted' \subseteq RepeatKeys
  BY DEF KeyRelease, Listening, SeatInv, SeatTypeOK
<1>3. CASE k = repeatKey
  <2>1. StopRepeat
    BY <1>3 DEF KeyRelease
  <2>2. KeyTypes
    BY <1>2, <2>1, StopIsSound DEF KeyTypes
  <2>3. RepeatStops'
    BY <2>1, StopIsSound DEF RepeatStops
  <2> QED BY <1>1, <2>2, <2>3, KeyStep
<1>4. CASE k # repeatKey
  <2>1. UNCHANGED <<repeatKey, repeatSource, timers>>
    BY <1>4 DEF KeyRelease
  <2>2. KeyTypes
    BY <1>2, <2>1 DEF KeyTypes, SeatInv, SeatTypeOK
  <2>3. RepeatStops'
    BY <1>2, <1>4, <2>1 DEF RepeatStops, SeatInv, SeatSound
  <2> QED BY <1>1, <2>2, <2>3, KeyStep
<1> QED BY <1>3, <1>4

\* wayland_key_repeat_delay
LEMMA RepeatDelayInv ==
  ASSUME SeatInv, NEW t \in timers, NEW stays \in BOOLEAN, RepeatDelay(t, stays)
  PROVE  SeatInv'
<1>1. /\ caps' \subseteq {"keyboard", "pointer"} /\ keyboard' \in BOOLEAN /\ pointer' \in BOOLEAN
      /\ UNCHANGED wheelvars
  BY DEF RepeatDelay, SeatInv, SeatTypeOK, wheelvars
<1>2. /\ UNCHANGED <<held, lifted, repeatKey>> /\ held \subseteq RepeatKeys /\ lifted \subseteq RepeatKeys
      /\ repeatKey \in held \cup lifted /\ repeatKey # NoKey /\ Without(t) = {}
  <2>1. UNCHANGED <<held, lifted, repeatKey>> /\ held \subseteq RepeatKeys /\ lifted \subseteq RepeatKeys
    BY DEF RepeatDelay, SeatInv, SeatTypeOK
  <2>2. repeatKey \in held \cup lifted
    BY DEF SeatInv, SeatSound, RepeatStops
  <2>3. /\ timers # {} => repeatKey # NoKey
        /\ \A x \in timers : Without(x) = {}
    BY SeatFacts
  <2>4. repeatKey # NoKey
    BY <2>3
  <2>5. Without(t) = {}
    BY <2>3, Zenon
  <2> QED BY <2>1, <2>2, <2>4, <2>5
<1>3. CASE ~ open
  <2>1. timers' = {} /\ open' = open /\ repeatSource' = repeatSource
    BY <1>2, <1>3 DEF RepeatDelay
  <2>2. KeyTypes
    BY <1>2, <2>1 DEF KeyTypes, SeatInv, SeatTypeOK
  <2>3. RepeatStops'
    BY <1>3, <2>1 DEF RepeatStops
  <2>4. open' \in BOOLEAN
    BY <2>1 DEF SeatInv, SeatTypeOK
  <2> QED BY <1>1, <2>2, <2>3, <2>4, KeyStep
<1>4. CASE open
  <2> DEFINE new == NewTimer("repeat")
  <2>1. new \in Timers
    BY SeatFacts
  <2> HIDE DEF new
  <2>2. repeatSource' = new /\ timers' = {new} /\ open' = stays
    BY <1>2, <1>4 DEF RepeatDelay, new
  <2>3. KeyTypes
    BY <1>2, <2>1, <2>2 DEF KeyTypes
  <2>4. RepeatStops'
    BY <1>2, <2>2 DEF RepeatStops
  <2>5. open' \in BOOLEAN
    BY <2>2
  <2> QED BY <1>1, <2>3, <2>4, <2>5, KeyStep
<1>5. open \in BOOLEAN
  BY DEF SeatInv, SeatTypeOK
<1> QED BY <1>3, <1>4, <1>5

\* wayland_key_repeat
LEMMA KeyRepeatInv ==
  ASSUME SeatInv, NEW t \in timers, NEW stays \in BOOLEAN, KeyRepeat(t, stays)
  PROVE  SeatInv'
<1>1. /\ caps' \subseteq {"keyboard", "pointer"} /\ keyboard' \in BOOLEAN /\ pointer' \in BOOLEAN
      /\ UNCHANGED wheelvars
  BY DEF KeyRepeat, SeatInv, SeatTypeOK, wheelvars
<1>2. /\ UNCHANGED <<held, lifted, repeatKey>> /\ held \subseteq RepeatKeys /\ lifted \subseteq RepeatKeys
      /\ repeatKey \in held \cup lifted /\ repeatKey # NoKey /\ Without(t) = {}
  <2>1. UNCHANGED <<held, lifted, repeatKey>> /\ held \subseteq RepeatKeys /\ lifted \subseteq RepeatKeys
    BY DEF KeyRepeat, SeatInv, SeatTypeOK
  <2>2. repeatKey \in held \cup lifted
    BY DEF SeatInv, SeatSound, RepeatStops
  <2>3. /\ timers # {} => repeatKey # NoKey
        /\ \A x \in timers : Without(x) = {}
    BY SeatFacts
  <2>4. repeatKey # NoKey
    BY <2>3
  <2>5. Without(t) = {}
    BY <2>3, Zenon
  <2> QED BY <2>1, <2>2, <2>4, <2>5
<1>3. repeatSource' = repeatSource
  BY <1>2 DEF KeyRepeat
<1>4. timers' \subseteq timers /\ open' \in BOOLEAN /\ (open' => open /\ timers' = timers)
  BY <1>2 DEF KeyRepeat, SeatInv, SeatTypeOK
<1>5. KeyTypes
  BY <1>2, <1>3, <1>4 DEF KeyTypes, SeatInv, SeatTypeOK
<1>6. RepeatStops'
  BY <1>2, <1>3, <1>4 DEF RepeatStops, SeatInv, SeatSound
<1> QED BY <1>1, <1>4, <1>5, <1>6, KeyStep

\* wayland_pointer_axis120
LEMMA Axis120Inv ==
  ASSUME SeatInv, NEW n \in Turns, Axis120(n)
  PROVE  SeatInv'
<1>1. n \in Int /\ wheel \in Int /\ turned \in Int /\ scrolled \in Int
  BY DEF SeatInv, SeatTypeOK
<1>2. wheel' = wheel + n /\ turned' = turned + 64 * n /\ UNCHANGED <<scrolled, frames, turning>>
  BY DEF Axis120
<1>3. ScrollCounts'
  <2>1. turned' - 64 * (120 * scrolled' + wheel') = turned - 64 * (120 * scrolled + wheel)
    BY <1>1, <1>2
  <2> QED BY <1>2, <2>1 DEF ScrollCounts, SeatInv, SeatSound
<1>4. UNCHANGED <<caps, keyboard, pointer, keyvars, open>>
  BY DEF Axis120
<1>5. turning' \in [source : {"wheel", "finger", "continuous"}, value : Int]
  BY <1>2 DEF SeatInv, SeatTypeOK
<1>6. wheel' \in Int /\ turned' \in Int /\ scrolled' \in Int /\ frames' \in Nat
  BY <1>1, <1>2 DEF SeatInv, SeatTypeOK
<1> QED BY <1>3, <1>4, <1>5, <1>6, WheelStep

\* wayland_pointer_axis_source
LEMMA AxisSourceInv ==
  ASSUME SeatInv, NEW s \in {"wheel", "finger", "continuous"}, AxisSource(s)
  PROVE  SeatInv'
<1>1. turning' \in [source : {"wheel", "finger", "continuous"}, value : Int]
  BY DEF AxisSource, SeatInv, SeatTypeOK
<1>2. UNCHANGED <<caps, keyboard, pointer, keyvars, wheel, scrolled, turned, frames, open>>
  BY DEF AxisSource
<1>3. ScrollCounts' /\ wheel' \in Int /\ turned' \in Int /\ scrolled' \in Int /\ frames' \in Nat
  BY <1>2 DEF ScrollCounts, SeatInv, SeatSound, SeatTypeOK
<1> QED BY <1>1, <1>2, <1>3, WheelStep

\* wayland_pointer_axis
LEMMA AxisInv ==
  ASSUME SeatInv, NEW n \in Distances, Axis(n)
  PROVE  SeatInv'
<1>1. turning' \in [source : {"wheel", "finger", "continuous"}, value : Int]
  BY DEF Axis, SeatInv, SeatTypeOK
<1>2. UNCHANGED <<caps, keyboard, pointer, keyvars, wheel, scrolled, turned, frames, open>>
  BY DEF Axis
<1>3. ScrollCounts' /\ wheel' \in Int /\ turned' \in Int /\ scrolled' \in Int /\ frames' \in Nat
  BY <1>2 DEF ScrollCounts, SeatInv, SeatSound, SeatTypeOK
<1> QED BY <1>1, <1>2, <1>3, WheelStep

\* wayland_pointer_send_events
LEMMA PointerFrameInv ==
  ASSUME SeatInv, PointerFrame
  PROVE  SeatInv'
<1> DEFINE sum == 64 * wheel + Distance
           now == Truncated(sum)
           error == turned - 64 * (120 * scrolled + wheel)
<1>1. /\ Distance \in Int /\ wheel \in Int /\ turned \in Int /\ scrolled \in Int /\ frames \in Nat
  BY DistanceIsInt DEF SeatInv, SeatTypeOK
<1>2. sum \in Int
  BY <1>1
<1>3. now \in Int /\ -63 <= sum - 64 * now /\ sum - 64 * now <= 63
  <2> HIDE DEF sum
  <2> QED BY <1>2, TruncationError
<1>4. /\ wheel' \in Int /\ scrolled' \in Int
      /\ 120 * scrolled' + wheel' = 120 * scrolled + now
  <2>1. 120 * Notches(now) + Rest(now) = now /\ Notches(now) \in Int /\ Rest(now) \in Int
    BY <1>3, NotchesAndRest
  <2>2. CASE Abs(now) >= 120
    <3>1. wheel' = Rest(now) /\ scrolled' = scrolled + Notches(now)
      BY <2>2 DEF PointerFrame
    <3> HIDE DEF now
    <3> QED BY <3>1, <1>1, <2>1
  <2>3. CASE ~ (Abs(now) >= 120)
    <3>1. wheel' = now /\ scrolled' = scrolled
      BY <2>3 DEF PointerFrame
    <3> HIDE DEF now
    <3> QED BY <3>1, <1>1, <1>3
  <2> QED BY <2>2, <2>3
<1>5. /\ turned' = turned + Distance
      /\ frames' = IF Distance = 0 THEN frames ELSE frames + 1
  BY DEF PointerFrame
<1>6. turned' - 64 * (120 * scrolled' + wheel') = error + (sum - 64 * now)
  <2> HIDE DEF now
  <2> DEFINE told == 120 * scrolled' + wheel'
  <2>0. told = 120 * scrolled + now /\ turned' = turned + Distance
    BY <1>4, <1>5
  <2> HIDE DEF told
  <2>1. turned' - 64 * told = turned + Distance - 64 * (120 * scrolled + now)
    BY <1>1, <1>3, <2>0
  <2>2. turned + Distance - 64 * (120 * scrolled + now) = error + (sum - 64 * now)
    BY <1>1, <1>3
  <2> QED BY <2>1, <2>2 DEF told
<1>7. error \in Int /\ -(63 * frames) <= error /\ error <= 63 * frames
  <2>1. error \in Int /\ Abs(error) <= 63 * frames
    BY <1>1 DEF SeatInv, SeatSound, ScrollCounts
  <2> HIDE DEF error
  <2> QED BY <2>1, <1>1 DEF Abs
<1>8. Distance = 0 => sum - 64 * now = 0
  <2>1. SUFFICES ASSUME Distance = 0 PROVE sum - 64 * now = 0
    OBVIOUS
  <2>2. sum = 64 * wheel
    BY <1>1, <2>1
  <2>3. now = wheel
    BY <1>1, <2>2, WholeIsKept
  <2> HIDE DEF now
  <2> QED BY <1>1, <2>2, <2>3
<1>9. ScrollCounts'
  <2> HIDE DEF now, error, sum
  <2>1. CASE Distance = 0
    <3>1. frames' = frames /\ turned' - 64 * (120 * scrolled' + wheel') = error
      BY <2>1, <1>1, <1>3, <1>5, <1>6, <1>7, <1>8
    <3> QED BY <1>1, <1>7, <3>1 DEF ScrollCounts, Abs
  <2>2. CASE Distance # 0
    <3>1. frames' = frames + 1 /\ 63 * frames' = 63 * frames + 63
      BY <2>2, <1>1, <1>5
    <3> DEFINE lost == sum - 64 * now
    <3>2. lost \in Int /\ -63 <= lost /\ lost <= 63
      BY <1>2, <1>3
    <3> HIDE DEF lost
    <3>3. -(63 * frames + 63) <= error + lost /\ error + lost <= 63 * frames + 63 /\ error + lost \in Int
      BY <1>1, <1>7, <3>2
    <3>4. turned' - 64 * (120 * scrolled' + wheel') = error + lost
      BY <1>6 DEF lost
    <3> QED BY <1>1, <3>1, <3>3, <3>4 DEF ScrollCounts, Abs
  <2> QED BY <2>1, <2>2
<1>10. UNCHANGED <<caps, keyboard, pointer, keyvars, open>> /\ turning' = Still
  BY DEF PointerFrame
<1>11. /\ turning' \in [source : {"wheel", "finger", "continuous"}, value : Int]
       /\ turned' \in Int /\ frames' \in Nat
  BY <1>1, <1>5, <1>10 DEF Still
<1> QED BY <1>4, <1>9, <1>10, <1>11, WheelStep

\* Every step of the seat.
LEMMA SeatNextInv == SeatInv /\ [SeatNext]_seatvars => SeatInv'
<1> SUFFICES ASSUME SeatInv, [SeatNext]_seatvars PROVE SeatInv'
  OBVIOUS
<1>1. ASSUME NEW c \in SUBSET {"keyboard", "pointer"}, Capabilities(c) PROVE SeatInv'
  BY <1>1, CapabilitiesInv
<1>2. CASE KeyboardLeave
  BY <1>2, KeyboardLeaveInv
<1>3. CASE RepeatInfo
  BY <1>3, RepeatInfoInv
<1>4. CASE PointerFrame
  BY <1>4, PointerFrameInv
<1>5. ASSUME NEW k \in RepeatKeys, NEW stays \in BOOLEAN, KeyPress(k, stays) PROVE SeatInv'
  BY <1>5, KeyPressInv
<1>6. ASSUME NEW k \in RepeatKeys, NEW stays \in BOOLEAN, KeyRelease(k, stays) PROVE SeatInv'
  BY <1>6, KeyReleaseInv
<1>7. ASSUME NEW t \in timers, NEW stays \in BOOLEAN, RepeatDelay(t, stays) PROVE SeatInv'
  BY <1>7, RepeatDelayInv
<1>8. ASSUME NEW t \in timers, NEW stays \in BOOLEAN, KeyRepeat(t, stays) PROVE SeatInv'
  BY <1>8, KeyRepeatInv
<1>9. ASSUME NEW n \in Turns, Axis120(n) PROVE SeatInv'
  BY <1>9, Axis120Inv
<1>10. ASSUME NEW s \in {"wheel", "finger", "continuous"}, AxisSource(s) PROVE SeatInv'
  BY <1>10, AxisSourceInv
<1>11. ASSUME NEW n \in Distances, Axis(n) PROVE SeatInv'
  BY <1>11, AxisInv
<1>12. CASE UNCHANGED seatvars
  <2>1. UNCHANGED <<caps, keyboard, pointer, keyvars, wheel, turning, scrolled, turned, frames, open>>
    BY <1>12 DEF seatvars, keyvars
  <2>2. SeatTypeOK'
    BY <2>1 DEF SeatInv, SeatTypeOK, keyvars
  <2>3. RepeatStops' /\ ScrollCounts'
    BY <2>1 DEF SeatInv, SeatSound, RepeatStops, ScrollCounts, keyvars
  <2> QED BY <2>2, <2>3 DEF SeatInv, SeatSound
<1> QED BY <1>1, <1>2, <1>3, <1>4, <1>5, <1>6, <1>7, <1>8, <1>9, <1>10, <1>11, <1>12
       DEF SeatNext, KeyNext, WheelNext

\* Whatever keys are pressed and released in whichever order, while the focus
\* is lost or the keyboard unplugged: at most one timer repeats a key, it is
\* the one the seat destroys, and the key is down or was when the keyboard was
\* lost.  And of the turns of a wheel (wayland_pointer_send_events) no part is
\* lost or told twice, of the distances of a touch pad less than 1/120 of a
\* notch in each frame.  For any keys, any turns and distances, any number of
\* them.
THEOREM SeatIsSound == SeatSpec => [](SeatTypeOK /\ SeatSound)
<1>1. SeatInv => SeatTypeOK /\ SeatSound
  BY DEF SeatInv
<1> QED BY <1>1, SeatInitInv, SeatNextInv, PTL DEF SeatSpec

-----------------------------------------------------------------------------
(* Drawing: what the handlers do to a record of the state.                 *)

Surfaces ==
  [pools : [Pools -> PoolType], pool : 0 .. MaxPools, made : 0 .. MaxPools,
   reading : SUBSET (Pools \X Buffers), current : (Pools \X Buffers) \cup {NoBuffer},
   need : BOOLEAN, repaint : BOOLEAN, frame : {"none", "asked", "committed", "done"}]
Good(s) == s \in Surfaces /\ s.current \in s.reading \cup {NoBuffer} /\ BuffersFit(s)

\* What the pools and the buffers are does not depend on the other fields.
LEMMA SamePools ==
  ASSUME NEW s, NEW t, BuffersFit(s),
         t.pools = s.pools, t.pool = s.pool, t.made = s.made, t.reading = s.reading
  PROVE  BuffersFit(t)
BY DEF BuffersFit

\* The fields that say what is to be drawn.
LEMMA FieldsGood ==
  ASSUME NEW s, Good(s)
  PROVE  /\ Good([s EXCEPT !.need = TRUE]) /\ [s EXCEPT !.need = TRUE].made = s.made
         /\ Good([s EXCEPT !.need = FALSE]) /\ [s EXCEPT !.need = FALSE].made = s.made
         /\ Good([s EXCEPT !.repaint = FALSE])
         /\ Good([s EXCEPT !.current = NoBuffer]) /\ [s EXCEPT !.current = NoBuffer].made = s.made
<1>1. s \in Surfaces /\ BuffersFit(s) /\ s.current \in s.reading \cup {NoBuffer}
  BY DEF Good
<1>2. ASSUME NEW v \in BOOLEAN
      PROVE  Good([s EXCEPT !.need = v]) /\ [s EXCEPT !.need = v].made = s.made
  <2> DEFINE t == [s EXCEPT !.need = v]
  <2>1. /\ t \in Surfaces /\ t.pools = s.pools /\ t.pool = s.pool /\ t.made = s.made
        /\ t.reading = s.reading /\ t.current = s.current
    BY <1>1 DEF Surfaces
  <2> HIDE DEF t
  <2>2. BuffersFit(t)
    BY <1>1, <2>1, SamePools
  <2>3. Good(t) /\ t.made = s.made
    BY <1>1, <2>1, <2>2 DEF Good
  <2> QED BY <2>3 DEF t
<1>3. Good([s EXCEPT !.repaint = FALSE])
  <2> DEFINE t == [s EXCEPT !.repaint = FALSE]
  <2>1. /\ t \in Surfaces /\ t.pools = s.pools /\ t.pool = s.pool /\ t.made = s.made
        /\ t.reading = s.reading /\ t.current = s.current
    BY <1>1 DEF Surfaces
  <2> HIDE DEF t
  <2>2. BuffersFit(t)
    BY <1>1, <2>1, SamePools
  <2>3. Good(t)
    BY <1>1, <2>1, <2>2 DEF Good
  <2> QED BY <2>3 DEF t
<1>4. Good([s EXCEPT !.current = NoBuffer]) /\ [s EXCEPT !.current = NoBuffer].made = s.made
  <2> DEFINE t == [s EXCEPT !.current = NoBuffer]
  <2>1. /\ t \in Surfaces /\ t.pools = s.pools /\ t.pool = s.pool /\ t.made = s.made
        /\ t.reading = s.reading /\ t.current = NoBuffer
    BY <1>1 DEF Surfaces
  <2> HIDE DEF t
  <2>2. BuffersFit(t)
    BY <1>1, <2>1, SamePools
  <2>3. Good(t) /\ t.made = s.made
    BY <2>1, <2>2 DEF Good
  <2> QED BY <2>3 DEF t
<1> QED BY <1>2, <1>3, <1>4

\* wayland_rofi_view_queue_redraw
LEMMA QueueGood ==
  ASSUME NEW s, Good(s)
  PROVE  Good(QueueViewRedraw(s)) /\ QueueViewRedraw(s).made = s.made
<1>1. s \in Surfaces /\ BuffersFit(s) /\ s.current \in s.reading \cup {NoBuffer}
  BY DEF Good
<1>2. CASE s.repaint
  BY <1>2 DEF QueueViewRedraw
<1>3. CASE ~ s.repaint
  <2> DEFINE t == [s EXCEPT !.need = TRUE, !.repaint = TRUE]
  <2>1. /\ t \in Surfaces /\ t.pools = s.pools /\ t.pool = s.pool /\ t.made = s.made
        /\ t.reading = s.reading /\ t.current = s.current
    BY <1>1 DEF Surfaces
  <2> HIDE DEF t
  <2>2. BuffersFit(t)
    BY <1>1, <2>1, SamePools
  <2>3. Good(t) /\ t.made = s.made
    BY <1>1, <2>1, <2>2 DEF Good
  <2> QED BY <1>3, <2>3 DEF t, QueueViewRedraw
<1> QED BY <1>2, <1>3

\* wayland_frame_callback
LEMMA FrameGood ==
  ASSUME NEW s, Good(s)
  PROVE  Good(FrameCallback(s)) /\ FrameCallback(s).made = s.made
<1>1. s \in Surfaces /\ BuffersFit(s) /\ s.current \in s.reading \cup {NoBuffer}
  BY DEF Good
<1> DEFINE t == FrameCallback(s)
<1>2. /\ t \in Surfaces /\ t.pools = s.pools /\ t.pool = s.pool /\ t.made = s.made
      /\ t.reading = s.reading /\ t.current = s.current
  BY <1>1 DEF Surfaces, FrameCallback
<1> HIDE DEF t
<1>3. BuffersFit(t)
  BY <1>1, <1>2, SamePools
<1>4. Good(t) /\ t.made = s.made
  BY <1>1, <1>2, <1>3 DEF Good
<1> QED BY <1>4 DEF t

\* A pool is made when the view has none.
LEMMA WithPoolGood ==
  ASSUME NEW s, Good(s), s.made + 1 <= MaxPools
  PROVE  /\ Good(WithPool(s)) /\ WithPool(s).pool \in Pools
         /\ WithPool(s).made \in Nat /\ WithPool(s).made <= s.made + 1
<1>1. s \in Surfaces /\ BuffersFit(s) /\ s.current \in s.reading \cup {NoBuffer}
  BY DEF Good
<1>2. s.pool \in 0 .. MaxPools /\ s.made \in 0 .. MaxPools
  BY <1>1 DEF Surfaces
<1>3. CASE s.pool # 0
  BY <1>2, <1>3 DEF WithPool, Pools
<1>4. CASE s.pool = 0
  <2> DEFINE t == [s EXCEPT !.pool = s.made + 1, !.made = @ + 1]
  <2>1. /\ t \in Surfaces /\ t.pools = s.pools /\ t.pool = s.made + 1 /\ t.made = s.made + 1
        /\ t.reading = s.reading /\ t.current = s.current
    <3>1. s.made + 1 \in 0 .. MaxPools
      BY <1>2
    <3> QED BY <1>1, <3>1 DEF Surfaces
  <2> HIDE DEF t
  <2>2. s.made + 1 \in Pools /\ s.made + 1 > s.made
    BY <1>2 DEF Pools
  <2>3. s.pools[s.made + 1] = NewPool
    BY <1>1, <2>2 DEF BuffersFit
  <2>4. \A p \in Pools : p > t.made => p > s.made
    BY <1>2, <2>1 DEF Pools
  <2>5. BuffersFit(t)
    <3>1. t.pool <= t.made /\ ~ t.pools[t.pool].toFree
      BY <1>2, <2>1, <2>3 DEF NewPool
    <3> QED BY <1>1, <2>1, <2>4, <3>1 DEF BuffersFit
  <2>6. Good(t) /\ t.made = s.made + 1 /\ t.pool \in Pools
    BY <1>1, <2>1, <2>2, <2>5 DEF Good
  <2> QED BY <1>2, <1>4, <2>6 DEF t, WithPool
<1> QED BY <1>3, <1>4

\* display_surface_commit of a buffer of the view's pool that is free.
LEMMA CommitGood ==
  ASSUME NEW s, Good(s), s.pool \in Pools, NEW b \in Released(s)
  PROVE  Good(Commit(s, b)) /\ Commit(s, b).made = s.made
<1>1. s \in Surfaces /\ BuffersFit(s)
  BY DEF Good
<1> DEFINE p == s.pool
           q == s.pools[p]
           t == Commit(s, b)
<1>2. q \in PoolType /\ b \in q.released /\ b \in Buffers /\ p \in Pools
  BY <1>1 DEF Surfaces, Released, PoolType
<1>3. ~ q.toFree /\ q.mapped /\ q.buffers = Buffers /\ p <= s.made /\ s.pool # 0 /\ s.made \in Nat
  <2>1. s.pool # 0 /\ s.made \in Nat
    BY <1>1, <1>2 DEF Pools, Surfaces
  <2>2. ~ q.toFree /\ p <= s.made
    BY <1>1, <2>1 DEF BuffersFit
  <2> QED BY <1>1, <1>2, <2>1, <2>2 DEF BuffersFit
<1>4. /\ t.pools = [s.pools EXCEPT ![p] = [q EXCEPT !.released = @ \ {b}]]
      /\ t.pool = p /\ t.made = s.made /\ t.reading = s.reading \cup {<<p, b>>}
      /\ t.current = <<p, b>> /\ t \in Surfaces
  <2> DEFINE new == [s.pools EXCEPT ![p] = [q EXCEPT !.released = @ \ {b}]]
  <2>1. new \in [Pools -> PoolType]
    BY <1>1, <1>2 DEF Surfaces, PoolType
  <2>2. new = [s.pools EXCEPT ![p].released = @ \ {b}]
    BY <1>1, <1>2 DEF Surfaces, PoolType
  <2>3. s.reading \cup {<<p, b>>} \in SUBSET (Pools \X Buffers) /\ <<p, b>> \in Pools \X Buffers
    BY <1>1, <1>2 DEF Surfaces
  <2>4. t.pools = new
    BY <1>1, <2>2 DEF Commit, Surfaces
  <2>5. /\ t.pool = p /\ t.made = s.made /\ t.reading = s.reading \cup {<<p, b>>}
        /\ t.current = <<p, b>>
    BY <1>1 DEF Commit, Surfaces
  <2>6. t \in Surfaces
    BY <1>1, <2>1, <2>3, <2>4, <2>5 DEF Commit, Surfaces
  <2> QED BY <2>4, <2>5, <2>6
<1> HIDE DEF t, q
<1>5. /\ t.pools[p] = [q EXCEPT !.released = @ \ {b}]
      /\ \A x \in Pools : x # p => t.pools[x] = s.pools[x]
  BY <1>1, <1>2, <1>4 DEF Surfaces
<1>6. /\ t.pools[p].toFree = q.toFree /\ t.pools[p].mapped = q.mapped
      /\ t.pools[p].buffers = q.buffers /\ t.pools[p].released = q.released \ {b}
  BY <1>2, <1>5 DEF PoolType
<1>7. ASSUME NEW x \in Pools, NEW c \in Buffers
      PROVE  <<x, c>> \in t.reading <=> c \in t.pools[x].buffers /\ c \notin t.pools[x].released
  <2>1. <<x, c>> \in s.reading <=> c \in s.pools[x].buffers /\ c \notin s.pools[x].released
    BY <1>1 DEF BuffersFit
  <2>2. <<x, c>> \in t.reading <=> <<x, c>> \in s.reading \/ (x = p /\ c = b)
    BY <1>4
  <2>3. CASE x # p
    BY <1>5, <2>1, <2>2, <2>3
  <2>4. CASE x = p
    BY <1>2, <1>3, <1>6, <2>1, <2>2, <2>4 DEF q
  <2> QED BY <2>3, <2>4
<1>8. ASSUME NEW x \in Pools
      PROVE  IF t.pools[x].toFree
             THEN /\ t.pools[x].mapped <=> t.pools[x].buffers # {}
                  /\ t.pools[x].buffers \cap t.pools[x].released = {}
             ELSE t.pools[x].mapped /\ t.pools[x].buffers = Buffers
  <2>1. CASE x # p
    BY <1>1, <1>5, <2>1 DEF BuffersFit
  <2>2. CASE x = p
    BY <1>3, <1>6, <2>2
  <2> QED BY <2>1, <2>2
<1>9. ASSUME NEW x \in Pools, x > t.made PROVE t.pools[x] = NewPool
  <2>1. x # p /\ x > s.made
    BY <1>2, <1>3, <1>4, <1>9 DEF Pools
  <2> QED BY <1>1, <1>5, <2>1 DEF BuffersFit
<1>10. t.pool <= t.made /\ ~ t.pools[t.pool].toFree
  BY <1>3, <1>4, <1>6
<1>11. BuffersFit(t)
  BY <1>7, <1>8, <1>9, <1>10 DEF BuffersFit
<1>12. Good(t) /\ t.made = s.made
  BY <1>4, <1>11 DEF Good
<1> QED BY <1>12 DEF t

\* wayland_rofi_view_update
LEMMA UpdateGood ==
  ASSUME NEW s, Good(s), s.made + 1 <= MaxPools
  PROVE  /\ Good(ViewUpdate(s))
         /\ ViewUpdate(s).made \in Nat /\ ViewUpdate(s).made <= s.made + 1
<1>0. s.made \in Nat
  BY DEF Good, Surfaces
<1>1. CASE ~ s.need
  BY <1>0, <1>1 DEF ViewUpdate
<1>2. CASE s.need
  <2> DEFINE p == WithPool(s)
  <2>1. Good(p) /\ p.pool \in Pools /\ p.made \in Nat /\ p.made <= s.made + 1
    BY WithPoolGood
  <2> HIDE DEF p
  <2>2. CASE Released(p) = {}
    <3>1. ViewUpdate(s) = p
      BY <1>2, <2>2 DEF ViewUpdate, p
    <3> QED BY <2>1, <3>1
  <2>3. CASE Released(p) # {}
    <3> DEFINE u == [p EXCEPT !.need = FALSE]
               b == First(Released(p))
    <3>1. Good(u) /\ u.made = p.made
      BY <2>1, FieldsGood
    <3>2. u.pool = p.pool /\ Released(u) = Released(p)
      BY <2>1 DEF Good, Surfaces, Released
    <3>3. b \in Released(p)
      <4>1. Released(p) \subseteq Nat
        BY <2>1 DEF Good, Surfaces, PoolType, Released
      <4>2. \E x \in Released(p) : \A y \in Released(p) : x <= y
        BY <2>3, <4>1, Least
      <4> QED BY <4>2 DEF First
    <3>4. ViewUpdate(s) = QueueViewRedraw(Commit(u, b))
      BY <1>2, <2>3 DEF ViewUpdate, p
    <3> HIDE DEF u, b
    <3> DEFINE c == Commit(u, b)
    <3>5. Good(c) /\ c.made = u.made
      BY <2>1, <3>1, <3>2, <3>3, CommitGood
    <3>6. ViewUpdate(s) = QueueViewRedraw(c)
      BY <3>4
    <3> HIDE DEF c
    <3>7. Good(QueueViewRedraw(c)) /\ QueueViewRedraw(c).made = c.made
      BY <3>5, QueueGood
    <3> QED BY <2>1, <3>1, <3>5, <3>6, <3>7
  <2> QED BY <2>2, <2>3
<1> QED BY <1>1, <1>2

\* wayland_buffer_cleanup of a pool that is to be freed.
LEMMA CleanupFreed ==
  ASSUME NEW p \in PoolType, p.toFree
  PROVE  /\ Cleanup(p) \in PoolType /\ Cleanup(p).toFree
         /\ Cleanup(p).released = p.released /\ Cleanup(p).buffers = p.buffers \ p.released
         /\ Cleanup(p).mapped <=> Cleanup(p).buffers # {}
<1> DEFINE left == p.buffers \ p.released
           there == left # {}
           c == [p EXCEPT !.buffers = left, !.mapped = there]
<1>1. left \in SUBSET Buffers /\ there \in BOOLEAN
  BY DEF PoolType
<1>2. Cleanup(p) = c
  BY DEF Cleanup
<1> HIDE DEF left, there
<1>3. c \in PoolType /\ c.toFree = p.toFree /\ c.released = p.released /\ c.buffers = left
  BY <1>1 DEF PoolType
<1>4. c.mapped = there
  BY <1>1 DEF PoolType
<1>5. there <=> left # {}
  BY DEF there
<1> QED BY <1>2, <1>3, <1>4, <1>5 DEF left

\* The buffers of a pool that is to be freed are the ones that are read: one
\* pool changes, and what is read changes with it.
LEMMA PoolChanges ==
  ASSUME NEW s, Good(s), NEW t \in Surfaces, NEW i \in Pools,
         t.made = s.made, t.current \in t.reading \cup {NoBuffer}, i <= s.made,
         t.pool # 0 => t.pool = s.pool,
         t.pool # i \/ ~ t.pools[i].toFree,
         \A x \in Pools : x # i => t.pools[x] = s.pools[x],
         \A x \in Pools, c \in Buffers : x # i => (<<x, c>> \in t.reading <=> <<x, c>> \in s.reading),
         \A c \in Buffers :
           <<i, c>> \in t.reading <=> c \in t.pools[i].buffers /\ c \notin t.pools[i].released,
         IF t.pools[i].toFree
         THEN /\ t.pools[i].mapped <=> t.pools[i].buffers # {}
              /\ t.pools[i].buffers \cap t.pools[i].released = {}
         ELSE t.pools[i].mapped /\ t.pools[i].buffers = Buffers
  PROVE  Good(t)
<1>1. s \in Surfaces /\ BuffersFit(s)
  BY DEF Good
<1>2. i \in Nat /\ s.made \in Nat
  BY <1>1 DEF Pools, Surfaces
<1>3. ASSUME NEW x \in Pools, NEW c \in Buffers
      PROVE  <<x, c>> \in t.reading <=> c \in t.pools[x].buffers /\ c \notin t.pools[x].released
  <2>1. CASE x # i
    BY <1>1, <2>1 DEF BuffersFit
  <2>2. CASE x = i
    BY <2>2
  <2> QED BY <2>1, <2>2
<1>4. ASSUME NEW x \in Pools
      PROVE  IF t.pools[x].toFree
             THEN /\ t.pools[x].mapped <=> t.pools[x].buffers # {}
                  /\ t.pools[x].buffers \cap t.pools[x].released = {}
             ELSE t.pools[x].mapped /\ t.pools[x].buffers = Buffers
  <2>1. CASE x # i
    BY <1>1, <2>1 DEF BuffersFit
  <2>2. CASE x = i
    BY <2>2
  <2> QED BY <2>1, <2>2
<1>5. ASSUME NEW x \in Pools, x > t.made PROVE t.pools[x] = NewPool
  <2>1. x # i /\ x > s.made
    BY <1>2, <1>5 DEF Pools
  <2> QED BY <1>1, <2>1 DEF BuffersFit
<1>6. ASSUME t.pool # 0 PROVE t.pool <= t.made /\ ~ t.pools[t.pool].toFree
  <2>1. t.pool = s.pool /\ s.pool # 0 /\ t.pool \in Pools
    BY <1>6 DEF Surfaces, Pools
  <2>2. s.pool <= s.made /\ ~ s.pools[s.pool].toFree
    BY <1>1, <2>1 DEF BuffersFit
  <2> QED BY <2>1, <2>2
<1>7. BuffersFit(t)
  BY <1>3, <1>4, <1>5, <1>6 DEF BuffersFit
<1> QED BY <1>7 DEF Good

\* display_buffer_pool_free: the view's pool is given up.
LEMMA PoolFreeGood ==
  ASSUME NEW s, Good(s)
  PROVE  /\ Good([s EXCEPT !.pools = PoolFree(s.pools, s.pool), !.pool = 0])
         /\ [s EXCEPT !.pools = PoolFree(s.pools, s.pool), !.pool = 0].made = s.made
<1> DEFINE t == [s EXCEPT !.pools = PoolFree(s.pools, s.pool), !.pool = 0]
           i == s.pool
<1>1. s \in Surfaces /\ BuffersFit(s) /\ s.current \in s.reading \cup {NoBuffer}
  BY DEF Good
<1>2. i \in 0 .. MaxPools /\ s.made \in Nat /\ s.pools \in [Pools -> PoolType]
  BY <1>1 DEF Surfaces
<1>3. CASE i = 0
  <2>1. PoolFree(s.pools, s.pool) = s.pools
    BY <1>3 DEF PoolFree
  <2>2. /\ t \in Surfaces /\ t.pools = s.pools /\ t.pool = s.pool /\ t.made = s.made
        /\ t.reading = s.reading /\ t.current = s.current
    BY <1>1, <1>3, <2>1 DEF Surfaces
  <2> HIDE DEF t
  <2>3. BuffersFit(t)
    BY <1>1, <2>2, SamePools
  <2>4. Good(t) /\ t.made = s.made
    BY <1>1, <2>2, <2>3 DEF Good
  <2> QED BY <2>4 DEF t
<1>4. CASE i # 0
  <2> DEFINE q == s.pools[i]
             f == [q EXCEPT !.toFree = TRUE]
             c == Cleanup(f)
  <2>1. i \in Pools /\ q \in PoolType
    BY <1>2, <1>4 DEF Pools
  <2>2. i <= s.made /\ ~ q.toFree
    BY <1>1, <1>4 DEF BuffersFit
  <2>3. f \in PoolType /\ f.toFree /\ f.released = q.released /\ f.buffers = q.buffers
    BY <2>1 DEF PoolType
  <2> HIDE DEF f
  <2>4. /\ c \in PoolType /\ c.toFree /\ c.released = q.released
        /\ c.buffers = q.buffers \ q.released
        /\ c.mapped <=> c.buffers # {}
    BY <2>3, CleanupFreed
  <2>5. PoolFree(s.pools, s.pool) = [s.pools EXCEPT ![i] = c]
    BY <1>2, <1>4, <2>1 DEF PoolFree, f
  <2> HIDE DEF c
  <2>6. /\ [s.pools EXCEPT ![i] = c] \in [Pools -> PoolType]
        /\ [s.pools EXCEPT ![i] = c][i] = c
        /\ \A x \in Pools : x # i => [s.pools EXCEPT ![i] = c][x] = s.pools[x]
    BY <1>2, <2>1, <2>4
  <2>7. /\ t \in Surfaces /\ t.pools = [s.pools EXCEPT ![i] = c] /\ t.pool = 0 /\ t.made = s.made
        /\ t.reading = s.reading /\ t.current = s.current
    <3>1. PoolFree(s.pools, s.pool) \in [Pools -> PoolType]
      BY <2>5, <2>6
    <3>2. ASSUME NEW ps \in [Pools -> PoolType]
          PROVE  LET u == [s EXCEPT !.pools = ps, !.pool = 0]
                 IN  /\ u \in Surfaces /\ u.pools = ps /\ u.pool = 0 /\ u.made = s.made
                     /\ u.reading = s.reading /\ u.current = s.current
      <4>1. 0 \in 0 .. MaxPools
        OBVIOUS
      <4> HIDE DEF i
      <4> QED BY <1>1, <4>1 DEF Surfaces
    <3> HIDE DEF i
    <3> QED BY <2>5, <3>1, <3>2
  <2> HIDE DEF t
  <2>8. t.pools[i] = c /\ \A x \in Pools : x # i => t.pools[x] = s.pools[x]
    BY <2>6, <2>7
  <2>9. \A d \in Buffers : <<i, d>> \in t.reading <=> d \in c.buffers /\ d \notin c.released
    <3>1. \A d \in Buffers : <<i, d>> \in s.reading <=> d \in q.buffers /\ d \notin q.released
      BY <1>1, <2>1 DEF BuffersFit
    <3> QED BY <2>4, <2>7, <3>1
  <2>10. c.buffers \cap c.released = {}
    BY <2>4
  <2>11. Good(t)
    <3>1. t.current \in t.reading \cup {NoBuffer} /\ t.pool # i
      BY <1>1, <1>4, <2>7
    <3> HIDE DEF q, i
    <3> QED BY <2>1, <2>2, <2>4, <2>7, <2>8, <2>9, <2>10, <3>1, PoolChanges
  <2> QED BY <2>7, <2>11 DEF t
<1> QED BY <1>3, <1>4

\* wayland_rofi_view_pool_refresh
LEMMA RefreshGood ==
  ASSUME NEW s, Good(s), s.made + 1 <= MaxPools
  PROVE  /\ Good(PoolRefresh(s))
         /\ PoolRefresh(s).made \in Nat /\ PoolRefresh(s).made <= s.made + 1
<1> DEFINE t == [s EXCEPT !.pools = PoolFree(s.pools, s.pool), !.pool = 0]
<1>1. Good(t) /\ t.made = s.made
  BY PoolFreeGood
<1>2. PoolRefresh(s) = ViewUpdate(t)
  BY DEF PoolRefresh
<1> HIDE DEF t
<1> QED BY <1>1, <1>2, UpdateGood

\* wayland_rofi_view_set_size
LEMMA SetSizeGood ==
  ASSUME NEW s, Good(s), s.made + 1 <= MaxPools
  PROVE  Good(SetSize(s))
<1> DEFINE t == [s EXCEPT !.need = TRUE]
<1>1. Good(t) /\ t.made = s.made
  BY FieldsGood
<1>2. SetSize(s) = PoolRefresh(t)
  BY DEF SetSize
<1> HIDE DEF t
<1> QED BY <1>1, <1>2, RefreshGood

-----------------------------------------------------------------------------
(* Drawing: the steps.                                                     *)

\* The state and the record of it.
LEMMA NowIsGood == SurfaceTypeOK /\ BuffersFit(SurfaceNow) <=> Good(SurfaceNow)
<1> DEFINE s == SurfaceNow
<1>1. /\ s.pools = pools /\ s.pool = pool /\ s.made = made /\ s.reading = reading
      /\ s.current = current /\ s.need = needRedraw /\ s.repaint = painter /\ s.frame = frame
  BY DEF SurfaceNow
<1>2. SurfaceTypeOK => s \in Surfaces /\ s.current \in s.reading \cup {NoBuffer}
  <2> SUFFICES ASSUME SurfaceTypeOK PROVE s \in Surfaces /\ s.current \in s.reading \cup {NoBuffer}
    OBVIOUS
  <2>1. current \in (Pools \X Buffers) \cup {NoBuffer} /\ reading \in SUBSET (Pools \X Buffers)
    BY DEF SurfaceTypeOK
  <2>2. s \in Surfaces
    BY <2>1 DEF SurfaceTypeOK, Surfaces, SurfaceNow
  <2> QED BY <1>1, <2>2 DEF SurfaceTypeOK
<1>3. s \in Surfaces /\ s.current \in s.reading \cup {NoBuffer} => SurfaceTypeOK
  <2> HIDE DEF s
  <2> QED BY <1>1 DEF SurfaceTypeOK, Surfaces
<1> QED BY <1>2, <1>3 DEF Good

\* A step that makes the state a good one.
LEMMA BecomesGood ==
  ASSUME NEW s, Good(s), SurfaceBecomes(s)
  PROVE  SurfaceTypeOK' /\ BuffersFit(SurfaceNow)'
<1>1. s \in Surfaces /\ s.current \in s.reading \cup {NoBuffer} /\ BuffersFit(s)
  BY DEF Good
<1>2. SurfaceTypeOK'
  BY <1>1 DEF SurfaceBecomes, SurfaceTypeOK, Surfaces
<1>3. /\ (SurfaceNow').pools = s.pools /\ (SurfaceNow').pool = s.pool
      /\ (SurfaceNow').made = s.made /\ (SurfaceNow').reading = s.reading
  BY DEF SurfaceNow, SurfaceBecomes
<1>4. BuffersFit(SurfaceNow)'
  BY <1>1, <1>3 DEF BuffersFit
<1> QED BY <1>2, <1>4

\* What the compositor reads is safe as long as reading and pools fit.
LEMMA FitIsSafe ==
  ASSUME SurfaceTypeOK, BuffersFit(SurfaceNow)
  PROVE  BuffersAreSafe
<1>1. SurfaceNow.pools = pools /\ SurfaceNow.reading = reading
  BY DEF SurfaceNow
<1>2. ASSUME NEW p \in Pools, NEW b \in Buffers
      PROVE  <<p, b>> \in reading <=> b \in pools[p].buffers /\ b \notin pools[p].released
  BY <1>1 DEF BuffersFit
<1>3. ASSUME NEW p \in Pools
      PROVE  IF pools[p].toFree
             THEN /\ pools[p].mapped <=> pools[p].buffers # {}
                  /\ pools[p].buffers \cap pools[p].released = {}
             ELSE pools[p].mapped /\ pools[p].buffers = Buffers
  BY <1>1 DEF BuffersFit
<1>4. ASSUME NEW r \in reading
      PROVE  /\ pools[r[1]].mapped /\ r[2] \in pools[r[1]].buffers
             /\ r[2] \notin pools[r[1]].released
  <2>0. r \in Pools \X Buffers
    BY DEF SurfaceTypeOK
  <2>1. r = <<r[1], r[2]>> /\ r[1] \in Pools /\ r[2] \in Buffers
    BY <2>0
  <2>2. r[2] \in pools[r[1]].buffers /\ r[2] \notin pools[r[1]].released
    BY <1>2, <2>1
  <2>3. pools[r[1]].mapped
    BY <1>3, <2>1, <2>2
  <2> QED BY <2>2, <2>3
<1>5. ASSUME NEW p \in Pools, pools[p].toFree, pools[p].mapped
      PROVE  \E r \in reading : r[1] = p
  <2>1. PICK b \in pools[p].buffers : b \notin pools[p].released
    BY <1>3, <1>5
  <2>2. b \in Buffers
    BY DEF SurfaceTypeOK, PoolType
  <2>3. <<p, b>> \in reading
    BY <1>2, <2>1, <2>2
  <2> QED BY <2>3
<1> QED BY <1>4, <1>5 DEF BuffersAreSafe

\* The pools are not made yet.
LEMMA SurfaceInitInv == SurfaceInit => SurfaceInv
<1> SUFFICES ASSUME SurfaceInit PROVE SurfaceInv
  OBVIOUS
<1>1. NewPool \in PoolType /\ ~ NewPool.toFree /\ NewPool.mapped /\ NewPool.buffers = Buffers
      /\ NewPool.released = Buffers
  BY DEF NewPool, PoolType
<1>2. SurfaceTypeOK
  <2>1. pools \in [Pools -> PoolType] /\ pool \in 0 .. MaxPools /\ made \in 0 .. MaxPools
    BY <1>1 DEF SurfaceInit
  <2>2. needRedraw \in BOOLEAN /\ painter \in BOOLEAN
    BY DEF SurfaceInit
  <2> QED BY <2>1, <2>2 DEF SurfaceInit, SurfaceTypeOK
<1>3. BuffersFit(SurfaceNow)
  <2>1. /\ SurfaceNow.pools = pools /\ SurfaceNow.pool = 0 /\ SurfaceNow.reading = {}
    BY DEF SurfaceNow, SurfaceInit
  <2>2. \A p \in Pools : pools[p] = NewPool
    BY DEF SurfaceInit
  <2> QED BY <1>1, <2>1, <2>2 DEF BuffersFit
<1> QED BY <1>2, <1>3, FitIsSafe DEF SurfaceInv

\* wayland_buffer_release
LEMMA ReleaseInv ==
  ASSUME SurfaceInv, NEW p \in Pools, NEW b \in Buffers, Release(p, b)
  PROVE  SurfaceTypeOK' /\ BuffersFit(SurfaceNow)'
<1> DEFINE s == SurfaceNow
           t == SurfaceNow'
           q == pools[p]
           f == [q EXCEPT !.released = @ \cup {b}]
           c == Cleanup(f)
<1>1. Good(s) /\ SurfaceTypeOK
  BY NowIsGood DEF SurfaceInv
<1>2. /\ s.pools = pools /\ s.pool = pool /\ s.made = made /\ s.reading = reading
      /\ s.current = current
  BY DEF SurfaceNow
<1>3. /\ t.pools = pools' /\ t.pool = pool' /\ t.made = made' /\ t.reading = reading'
      /\ t.current = current'
  BY DEF SurfaceNow
<1>4. <<p, b>> \in reading /\ <<p, b>> # current /\ reading' = reading \ {<<p, b>>}
  BY DEF Release
<1>5. pools' = [pools EXCEPT ![p] = c]
  BY DEF Release
<1>6. UNCHANGED <<pool, made, current, needRedraw, painter, frame>>
  BY DEF Release
<1>7. q \in PoolType /\ pools \in [Pools -> PoolType]
  BY <1>1 DEF SurfaceTypeOK
<1>8. /\ f \in PoolType /\ f.toFree = q.toFree /\ f.released = q.released \cup {b}
      /\ f.buffers = q.buffers /\ f.mapped = q.mapped
  BY <1>7 DEF PoolType
<1> HIDE DEF f
<1>9. /\ BuffersFit(s)
      /\ \A d \in Buffers : <<p, d>> \in reading <=> d \in q.buffers /\ d \notin q.released
  BY <1>1, <1>2 DEF Good, BuffersFit
<1>10. b \in q.buffers /\ b \notin q.released
  BY <1>4, <1>9
<1>11. p <= made /\ made \in Nat
  <2>1. made \in Nat /\ p \in Nat
    BY <1>1 DEF SurfaceTypeOK, Pools
  <2>2. p > made => q = NewPool
    BY <1>2, <1>9 DEF BuffersFit
  <2>3. q # NewPool
    BY <1>10 DEF NewPool
  <2> QED BY <2>1, <2>2, <2>3
<1>12. /\ c \in PoolType /\ c.toFree = q.toFree /\ c.released = q.released \cup {b}
       /\ \A d \in Buffers : d \in c.buffers /\ d \notin c.released
                             <=> d \in q.buffers /\ d \notin q.released /\ d # b
       /\ IF c.toFree THEN /\ c.mapped <=> c.buffers # {}
                           /\ c.buffers \cap c.released = {}
          ELSE c.mapped /\ c.buffers = Buffers
  <2>1. CASE q.toFree
    <3>1. /\ c \in PoolType /\ c.toFree /\ c.released = f.released
          /\ c.buffers = f.buffers \ f.released
          /\ c.mapped <=> c.buffers # {}
      BY <1>8, <2>1, CleanupFreed
    <3>2. c.toFree = q.toFree
      BY <2>1, <3>1, <1>7 DEF PoolType
    <3> HIDE DEF c, q
    <3> QED BY <1>8, <2>1, <3>1, <3>2
  <2>2. CASE ~ q.toFree
    <3>1. c = f
      BY <1>8, <2>2 DEF Cleanup
    <3>2. q.mapped /\ q.buffers = Buffers
      BY <1>2, <1>9, <2>2 DEF BuffersFit
    <3> HIDE DEF c, q
    <3> QED BY <1>8, <2>2, <3>1, <3>2
  <2> QED BY <2>1, <2>2
<1> HIDE DEF c
<1>13. /\ pools' \in [Pools -> PoolType] /\ pools'[p] = c
       /\ \A x \in Pools : x # p => pools'[x] = pools[x]
  BY <1>5, <1>7, <1>12
<1>14. SurfaceTypeOK'
  BY <1>1, <1>4, <1>6, <1>13 DEF SurfaceTypeOK
<1>15. t \in Surfaces /\ t.current \in t.reading \cup {NoBuffer}
  <2>1. /\ current' \in (Pools \X Buffers) \cup {NoBuffer}
        /\ reading' \in SUBSET (Pools \X Buffers)
    BY <1>14 DEF SurfaceTypeOK
  <2>2. t \in Surfaces
    BY <1>14, <2>1 DEF SurfaceTypeOK, Surfaces, SurfaceNow
  <2> QED BY <1>3, <1>14, <2>2 DEF SurfaceTypeOK
<1>16. t.pool # p \/ ~ t.pools[p].toFree
  <2>1. pool = p => ~ q.toFree
    <3>1. p # 0
      BY DEF Pools
    <3> QED BY <1>2, <1>9, <3>1 DEF BuffersFit
  <2>2. t.pool = pool /\ t.pools[p] = c
    BY <1>3, <1>6, <1>13
  <2> QED BY <1>12, <2>1, <2>2
<1>17. /\ \A x \in Pools : x # p => t.pools[x] = s.pools[x]
       /\ \A x \in Pools, d \in Buffers : x # p => (<<x, d>> \in t.reading <=> <<x, d>> \in s.reading)
       /\ \A d \in Buffers :
            <<p, d>> \in t.reading <=> d \in t.pools[p].buffers /\ d \notin t.pools[p].released
  <2>1. \A x \in Pools : x # p => t.pools[x] = s.pools[x]
    BY <1>2, <1>3, <1>13
  <2>2. \A x \in Pools, d \in Buffers : <<x, d>> \in t.reading <=> <<x, d>> \in s.reading /\ (x # p \/ d # b)
    BY <1>2, <1>3, <1>4
  <2>3. t.pools[p] = c /\ s.reading = reading
    BY <1>2, <1>3, <1>13
  <2> HIDE DEF s, t, q
  <2> QED BY <1>9, <1>12, <2>1, <2>2, <2>3
<1>18. /\ t.made = s.made /\ p <= s.made /\ t.pool = s.pool /\ t.pools[p] = c
  BY <1>2, <1>3, <1>6, <1>11, <1>13
<1>19. Good(t)
  <2> HIDE DEF s, t, q
  <2> QED BY <1>1, <1>12, <1>15, <1>16, <1>17, <1>18, PoolChanges
<1> QED BY <1>14, <1>19 DEF Good

\* Every step of the surface.
LEMMA SurfaceNextInv == SurfaceInv /\ [SurfaceNext]_wlvars => SurfaceInv'
<1> SUFFICES ASSUME SurfaceInv, [SurfaceNext]_wlvars
             PROVE  SurfaceTypeOK' /\ BuffersFit(SurfaceNow)'
  <2>1. ASSUME SurfaceTypeOK', BuffersFit(SurfaceNow)' PROVE BuffersAreSafe'
    BY <2>1, FitIsSafe, PTL
  <2> QED BY <2>1 DEF SurfaceInv
<1> DEFINE s == SurfaceNow
           redraw == [s EXCEPT !.need = TRUE]
<1>1. Good(s) /\ s.made = made /\ made \in Nat
  BY NowIsGood DEF SurfaceInv, SurfaceNow, SurfaceTypeOK
<1>2. Good(redraw) /\ redraw.made = made
  BY <1>1, FieldsGood
<1>3. CanMake(1) => s.made + 1 <= MaxPools
  BY <1>1 DEF CanMake
<1>4. CanMake(2) => s.made + 1 <= MaxPools /\ s.made + 2 <= MaxPools
  BY <1>1 DEF CanMake
<1>5. CASE WidgetChanges
  <2>1. Good(ViewUpdate(redraw))
    <3> HIDE DEF redraw
    <3> QED BY <1>1, <1>2, <1>3, <1>5, UpdateGood DEF WidgetChanges
  <2>2. SurfaceBecomes(ViewUpdate(redraw))
    BY <1>5 DEF WidgetChanges
  <2> QED BY <2>1, <2>2, BecomesGood
<1>6. CASE CursorBlinks
  <2>1. Good(QueueViewRedraw(redraw))
    <3> HIDE DEF redraw
    <3> QED BY <1>2, QueueGood
  <2>2. SurfaceBecomes(QueueViewRedraw(redraw))
    BY <1>6 DEF CursorBlinks
  <2> QED BY <2>1, <2>2, BecomesGood
<1>7. CASE ViewRepaint
  <2> DEFINE u == ViewUpdate(s)
             v == [u EXCEPT !.repaint = FALSE]
  <2>1. Good(u)
    <3> HIDE DEF s
    <3> QED BY <1>1, <1>3, <1>7, UpdateGood DEF ViewRepaint
  <2>2. SurfaceBecomes(v)
    BY <1>7 DEF ViewRepaint
  <2> HIDE DEF u
  <2>3. Good(v)
    BY <2>1, FieldsGood
  <2> HIDE DEF v
  <2> QED BY <2>2, <2>3, BecomesGood
<1>8. CASE ChangeScale
  <2> DEFINE u == PoolRefresh(s)
             v == SetSize(u)
  <2>1. Good(u) /\ u.made + 1 <= MaxPools
    <3> HIDE DEF s
    <3>1. Good(u) /\ u.made \in Nat /\ u.made <= s.made + 1
      BY <1>1, <1>4, <1>8, RefreshGood DEF ChangeScale
    <3>2. made + 2 <= MaxPools
      BY <1>1, <1>4, <1>8 DEF ChangeScale
    <3> HIDE DEF u
    <3> QED BY <1>1, <3>1, <3>2
  <2>2. SurfaceBecomes(v)
    BY <1>8 DEF ChangeScale
  <2> HIDE DEF u
  <2>3. Good(v)
    BY <2>1, SetSizeGood
  <2> HIDE DEF v
  <2> QED BY <2>2, <2>3, BecomesGood
<1>9. CASE Resize
  <2> DEFINE v == SetSize(s)
  <2>1. SurfaceBecomes(v)
    BY <1>9 DEF Resize
  <2>2. Good(v)
    <3> HIDE DEF s
    <3> QED BY <1>1, <1>3, <1>9, SetSizeGood DEF Resize
  <2> HIDE DEF v
  <2> QED BY <2>1, <2>2, BecomesGood
<1>10. CASE FrameDone
  <2> DEFINE v == FrameCallback(s)
  <2>1. SurfaceBecomes(v)
    BY <1>10 DEF FrameDone
  <2>2. Good(v)
    <3> HIDE DEF s
    <3> QED BY <1>1, FrameGood
  <2> HIDE DEF v
  <2> QED BY <2>1, <2>2, BecomesGood
<1>11. CASE SurfaceClosed
  <2> DEFINE n == [s EXCEPT !.current = NoBuffer]
             u == FrameCallback(n)
             w == PoolRefresh(u)
             v == SetSize(w)
  <2>1. SurfaceBecomes(v) /\ made + 2 <= MaxPools
    BY <1>11 DEF SurfaceClosed, CanMake
  <2>2. Good(n) /\ n.made = made
    BY <1>1, FieldsGood
  <2> HIDE DEF n
  <2>3. Good(u) /\ u.made = made
    BY <2>2, FrameGood
  <2> HIDE DEF u
  <2>4. u.made + 1 <= MaxPools
    BY <1>1, <2>1, <2>3
  <2>5. Good(w) /\ w.made \in Nat /\ w.made <= made + 1
    BY <2>3, <2>4, RefreshGood
  <2> HIDE DEF w
  <2>6. w.made + 1 <= MaxPools
    BY <1>1, <2>1, <2>5
  <2>7. Good(v)
    BY <2>5, <2>6, SetSizeGood
  <2> HIDE DEF v
  <2> QED BY <2>1, <2>7, BecomesGood
<1>12. CASE Shown
  <2>1. SurfaceTypeOK'
    BY <1>12 DEF SurfaceInv, SurfaceTypeOK, Shown
  <2>2. /\ (SurfaceNow').pools = s.pools /\ (SurfaceNow').pool = s.pool
        /\ (SurfaceNow').made = s.made /\ (SurfaceNow').reading = s.reading
    BY <1>12 DEF SurfaceNow, Shown
  <2>3. BuffersFit(s)
    BY DEF SurfaceInv
  <2>4. BuffersFit(SurfaceNow)'
    <3> HIDE DEF s
    <3> QED BY <2>2, <2>3 DEF BuffersFit
  <2> QED BY <2>1, <2>4
<1>13. ASSUME NEW p \in Pools, NEW b \in Buffers, Release(p, b)
       PROVE  SurfaceTypeOK' /\ BuffersFit(SurfaceNow)'
  BY <1>13, ReleaseInv
<1>14. CASE UNCHANGED wlvars
  <2>1. SurfaceTypeOK'
    BY <1>14 DEF SurfaceInv, SurfaceTypeOK, wlvars
  <2>2. /\ (SurfaceNow').pools = s.pools /\ (SurfaceNow').pool = s.pool
        /\ (SurfaceNow').made = s.made /\ (SurfaceNow').reading = s.reading
    BY <1>14 DEF SurfaceNow, wlvars
  <2>3. BuffersFit(s)
    BY DEF SurfaceInv
  <2>4. BuffersFit(SurfaceNow)'
    <3> HIDE DEF s
    <3> QED BY <2>2, <2>3 DEF BuffersFit
  <2> QED BY <2>1, <2>4
<1> QED BY <1>5, <1>6, <1>7, <1>8, <1>9, <1>10, <1>11, <1>12, <1>13, <1>14 DEF SurfaceNext

\* Whatever the compositor releases and when, while the size, the scale or the
\* surface changes: a buffer that it may read is mapped, belongs to its pool
\* and is not drawn into (wayland_buffer_cleanup, display_surface_commit); and
\* a pool that was given up is there only as long as one of its buffers is
\* read.  For any buffers of a pool and any number of pools.
THEOREM SurfaceIsSafe == SurfaceSpec => []BuffersAreSafe
<1>1. SurfaceInv => BuffersAreSafe
  BY DEF SurfaceInv
<1> QED BY <1>1, SurfaceInitInv, SurfaceNextInv, PTL DEF SurfaceSpec
===============================================================================
