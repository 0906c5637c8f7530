----------------------------- MODULE WaylandSeat -----------------------------
(***************************************************************************)
(* A seat of the Wayland backend (wayland/display.c): the keys that repeat *)
(* while they are held, and the turns of a wheel.  The compositor tells    *)
(* when a key goes down and up, but not that a key is up because the       *)
(* window lost the focus or the keyboard was unplugged.                    *)
(***************************************************************************)
EXTENDS Integers

CONSTANTS
  RepeatKeys,  \* keys that repeat
  Turns,       \* what one event of a wheel reports, in 1/120 of a notch
  Distances,   \* what one event of a touch pad reports, in 1/256 of a pixel (wl_fixed)
  MaxTurn,     \* bound: how far it is turned in one direction, in 1/120 of a notch
  MaxFrames    \* bound: frames in which a touch pad moved

ASSUME WaylandSeatAssumption ==
  /\ "none" \notin RepeatKeys /\ Turns \subseteq Int /\ Distances \subseteq Int
  /\ MaxTurn \in Nat /\ MaxFrames \in Nat

VARIABLES
  caps,              \* what the seat says it has
  keyboard, pointer, \* self->keyboard, self->pointer
  held,              \* the keys that are down, as the compositor told
  lifted,            \* keys that were down when the keyboard was lost
  repeatKey,         \* self->repeat.key
  repeatSource,      \* self->repeat.source
  timers,            \* the timers of this seat in the main loop
  wheel,             \* self->wheel.vertical
  turning,           \* self->wheel_continuous.vertical and self->axis_source
  scrolled,          \* the notches that the bindings were told
  turned, frames,    \* how far it was turned, in 1/64 of 1/120 of a notch, and the
                     \* number of frames in which a touch pad moved
  open               \* a view is active

seatvars == <<caps, keyboard, pointer, held, lifted, repeatKey, repeatSource, timers, wheel,
              turning, scrolled, turned, frames, open>>
keyvars == <<held, lifted, repeatKey, repeatSource, timers>>
wheelvars == <<wheel, turning, scrolled, turned, frames>>

NoKey == "none"
NoRepeat == [id |-> 0, kind |-> "none"]
Still == [source |-> "wheel", value |-> 0]

SeatInit ==
  /\ caps = {} /\ keyboard = FALSE /\ pointer = FALSE /\ held = {} /\ lifted = {}
  /\ repeatKey = NoKey /\ repeatSource = NoRepeat /\ timers = {}
  /\ wheel = 0 /\ turning = Still /\ scrolled = 0 /\ turned = 0 /\ frames = 0
  /\ open = TRUE

(* g_source_destroy of the timer the seat knows, and g_timeout_add.        *)
Without(t) == timers \ {t}
NewTimer(kind) ==
  LET free == {i \in 1 .. 3 : \A t \in timers : t.id # i}
  IN  [id |-> CHOOSE i \in free : \A j \in free : i <= j, kind |-> kind]
(* Mutant: the seat forgets the timer but does not destroy it.             *)
ForgetRepeat == repeatKey' = NoKey /\ repeatSource' = NoRepeat /\ timers' = timers
StopRepeat == /\ repeatKey' = NoKey /\ repeatSource' = NoRepeat
              /\ timers' = Without(repeatSource)

(* wayland_seat_capabilities: it is the pointer that decides whether the   *)
(* keyboard is given up.                                                   *)
Capabilities(c) ==
  /\ open /\ caps' = c
  /\ keyboard' = (IF "keyboard" \in c /\ ~keyboard THEN TRUE
                  ELSE keyboard /\ "pointer" \in c)
  /\ pointer' = ("pointer" \in c)
  /\ IF keyboard /\ ~keyboard' THEN StopRepeat
     ELSE UNCHANGED <<repeatKey, repeatSource, timers>>
  /\ held' = IF "keyboard" \in c /\ keyboard' THEN held ELSE {}
  /\ lifted' = lifted \cup (held \ held')
  /\ UNCHANGED <<wheelvars, open>>

Listening == open /\ keyboard /\ "keyboard" \in caps

(* wayland_keyboard_leave does nothing.                                    *)
KeyboardLeave ==
  /\ Listening /\ held' = {} /\ lifted' = lifted \cup held
  /\ UNCHANGED <<caps, keyboard, pointer, repeatKey, repeatSource, timers, wheelvars, open>>

(* wayland_keyboard_key; the key or its text may close the last view.      *)
KeyPress(k, stays) ==
  /\ Listening /\ k \notin held /\ held' = held \cup {k} /\ lifted' = lifted \ {k}
  /\ repeatKey' = k
  /\ repeatSource' = NewTimer("delay")
  /\ timers' = Without(repeatSource) \cup {NewTimer("delay")}
  /\ open' = stays /\ UNCHANGED <<caps, keyboard, pointer, wheelvars>>
KeyRelease(k, stays) ==
  /\ Listening /\ k \in held /\ held' = held \ {k}
  /\ IF k = repeatKey THEN StopRepeat ELSE UNCHANGED <<repeatKey, repeatSource, timers>>
  /\ open' = stays /\ UNCHANGED <<caps, keyboard, pointer, lifted, wheelvars>>
RepeatInfo == /\ Listening /\ StopRepeat
              /\ UNCHANGED <<caps, keyboard, pointer, held, lifted, wheelvars, open>>

(* wayland_key_repeat_delay: the first repetition starts the quick timer.  *)
(* A timer that is due with the event that closed the last view comes      *)
(* after it and leaves the number of the timer behind.                     *)
RepeatDelay(t, stays) ==
  /\ t \in timers /\ t.kind = "delay"
  /\ IF repeatKey = NoKey \/ ~open
     THEN timers' = Without(t) /\ open' = open /\ UNCHANGED repeatSource
     ELSE /\ repeatSource' = NewTimer("repeat")
          /\ timers' = Without(t) \cup {NewTimer("repeat")} /\ open' = stays
  /\ UNCHANGED <<caps, keyboard, pointer, held, lifted, repeatKey, wheelvars>>

(* wayland_key_repeat                                                      *)
KeyRepeat(t, stays) ==
  /\ t \in timers /\ t.kind = "repeat"
  /\ repeatSource' = IF repeatKey = NoKey THEN NoRepeat ELSE repeatSource
  /\ IF repeatKey = NoKey \/ ~open THEN timers' = Without(t) /\ open' = open
     ELSE timers' = timers /\ open' = stays
  /\ UNCHANGED <<caps, keyboard, pointer, held, lifted, repeatKey, wheelvars>>

-----------------------------------------------------------------------------
(* A wheel reports notches, or parts of them; a touch pad distances, of    *)
(* which a pixel counts as 20/120 of a notch.                              *)
Abs(n) == IF n < 0 THEN -n ELSE n
Inside(n) == Abs(turned + n) <= 64 * MaxTurn
Axis120(n) ==
  /\ open /\ pointer /\ Inside(64 * n) /\ wheel' = wheel + n /\ turned' = turned + 64 * n
  /\ UNCHANGED <<caps, keyboard, pointer, keyvars, turning, scrolled, frames, open>>
AxisSource(s) ==
  /\ open /\ pointer /\ turning' = [turning EXCEPT !.source = s]
  /\ UNCHANGED <<caps, keyboard, pointer, keyvars, wheel, scrolled, turned, frames, open>>
Axis(n) ==
  /\ open /\ pointer /\ frames < MaxFrames /\ Inside(5 * (turning.value + n))
  /\ turning' = [turning EXCEPT !.value = @ + n]
  /\ UNCHANGED <<caps, keyboard, pointer, keyvars, wheel, scrolled, turned, frames, open>>

(* wayland_pointer_send_events: the distance is a double, the sum is a     *)
(* gint again, without its fraction; whole notches go to the bindings, the *)
(* rest stays, with its sign.                                              *)
Distance == IF turning.source = "wheel" THEN 0 ELSE 5 * turning.value
Truncated(v) == IF v < 0 THEN -((-v) \div 64) ELSE v \div 64
Notches(v) == IF v < 0 THEN -((-v) \div 120) ELSE v \div 120
Rest(v) == IF v > 0 THEN v % 120 ELSE -((-v) % 120)
PointerFrame ==
  /\ open /\ pointer
  /\ LET now == Truncated(64 * wheel + Distance)
     IN  IF Abs(now) >= 120
         THEN wheel' = Rest(now) /\ scrolled' = scrolled + Notches(now)
         ELSE wheel' = now /\ UNCHANGED scrolled
  /\ turned' = turned + Distance /\ frames' = IF Distance = 0 THEN frames ELSE frames + 1
  /\ turning' = Still /\ UNCHANGED <<caps, keyboard, pointer, keyvars, open>>

KeyNext ==
  \/ KeyboardLeave \/ RepeatInfo
  \/ (\E k \in RepeatKeys, stays \in BOOLEAN : KeyPress(k, stays) \/ KeyRelease(k, stays))
  \/ (\E t \in timers, stays \in BOOLEAN : RepeatDelay(t, stays) \/ KeyRepeat(t, stays))
WheelNext ==
  \/ PointerFrame \/ (\E n \in Turns : Axis120(n)) \/ (\E n \in Distances : Axis(n))
  \/ (\E s \in {"wheel", "finger", "continuous"} : AxisSource(s))
SeatNext ==
  \/ (\E c \in SUBSET {"keyboard", "pointer"} : Capabilities(c)) \/ KeyNext \/ WheelNext

SeatSpec == SeatInit /\ [][SeatNext]_seatvars

Timers == [id : 1 .. 3, kind : {"delay", "repeat"}]
SeatTypeOK ==
  /\ caps \subseteq {"keyboard", "pointer"} /\ keyboard \in BOOLEAN /\ pointer \in BOOLEAN
  /\ held \subseteq RepeatKeys /\ lifted \subseteq RepeatKeys /\ repeatKey \in RepeatKeys \cup {NoKey}
  /\ repeatSource \in Timers \cup {NoRepeat} /\ timers \subseteq Timers
  /\ wheel \in Int /\ turned \in Int /\ scrolled \in Int /\ frames \in Nat /\ open \in BOOLEAN
  /\ turning \in [source : {"wheel", "finger", "continuous"}, value : Int]

(* One key repeats at most, and one that is down or was when the keyboard  *)
(* was lost: whatever is pressed and released in whichever order, the      *)
(* timer in the main loop is the one the seat would destroy, and while a   *)
(* view is open it destroys no timer that is gone.                         *)
RepeatStops ==
  /\ \A t \in timers : t = repeatSource /\ repeatKey \in held \cup lifted
  /\ open /\ repeatSource # NoRepeat => repeatSource \in timers

(* Of a wheel no part of a turn is lost or told twice, in whichever parts, *)
(* frames and directions it comes.  Of a touch pad each frame loses or     *)
(* adds less than 1/120 of a notch, by the conversion to gint; so that the *)
(* error grows with the number of frames, and a finger that moves less     *)
(* than 1/20 of a pixel in a frame does not scroll at all.                 *)
ScrollCounts == Abs(turned - 64 * (120 * scrolled + wheel)) <= 63 * frames

(* The keys and the wheel, for any order of their events.                  *)
SeatSound == RepeatStops /\ ScrollCounts
=============================================================================
