------------------------------ MODULE Widgets ------------------------------
(***************************************************************************)
(* The layout of the widget tree (widgets/box.c, container.c, icon.c and   *)
(* widget.c): boxes stack their children vertically or horizontally, give  *)
(* the space that is left to the children that expand, and tell their      *)
(* parent, which lays itself out again - in the middle of the parent's own *)
(* layout when it is the parent that resized the box.  A state of the tree *)
(* is threaded through these calls as the record ui.                       *)
(***************************************************************************)
EXTENDS Integers, Sequences, SequencesExt, FiniteSetsExt

CONSTANTS
  Tree,     \* the widgets: [kind, parent, expand, size] of each name
  Top,      \* the main window
  Order,    \* the order in which the view adds the widgets
  Pad,      \* padding, border and margin on each side of a box
  Spacing,  \* the spacing of a box
  Toggled,  \* the widgets that are switched on and off
  Sizes     \* the sizes <<w, h>> the main window is given

VARIABLES
  ui,      \* [at: widget -> [x, y, w, h], on, dirty, kids, max: box -> max_size]
  screen   \* the rectangles of the last drawing

wvars == <<ui, screen>>

Widget == DOMAIN Tree
Parent(c) == Tree[c].parent
IsBox(b) == Tree[b].kind \in {"vertical", "horizontal"}
Inset(b) == IF Tree[b].kind = "leaf" THEN 0 ELSE Pad
RemW(s, b) == s.at[b].w - 2 * Inset(b)
RemH(s, b) == s.at[b].h - 2 * Inset(b)
Active(s, b) == SelectSeq(s.kids[b], LAMBDA c : s.on[c])
Fixed(s, b) == SelectSeq(Active(s, b), LAMBDA c : ~Tree[c].expand)
Total(F(_), cs) == FoldLeft(LAMBDA n, c : n + F(c), 0, cs)
Larger(m, n) == IF m >= n THEN m ELSE n
Gaps(cs) == Larger(0, Len(cs) - 1) * Spacing

RECURSIVE Ancestors(_), DesiredW(_, _), DesiredH(_, _, _), Resize(_, _, _, _),
          Update(_, _), Target(_, _, _, _), Drawn(_, _)

Ancestors(c) == {c} \union IF c = Top THEN {} ELSE Ancestors(Parent(c))
(* Mutant: the boxes around the widget are not marked. *)
QueueRedrawHere(s, c) == [s EXCEPT !.dirty[c] = TRUE]

QueueRedraw(s, c) ==
  [s EXCEPT !.dirty = [d \in Widget |-> @[d] \/ d \in Ancestors(c)]]

(* Desired sizes: a text that gets less than its width wraps. *)
LeafW(c) == Tree[c].size[1]
LeafH(c, width) == IF width < Tree[c].size[1] THEN 2 * Tree[c].size[2] ELSE Tree[c].size[2]

DesiredW(s, c) ==
  CASE Tree[c].kind = "leaf" -> LeafW(c)
    [] Tree[c].kind = "container" -> s.at[c].w
    [] Tree[c].kind = "horizontal" ->
         Total(LAMBDA d : DesiredW(s, d), Active(s, c)) + Gaps(Active(s, c)) + 2 * Pad
    [] OTHER -> Max({0} \union {DesiredW(s, d) : d \in ToSet(Active(s, c))}) + 2 * Pad

DesiredH(s, c, width) ==
  CASE Tree[c].kind = "leaf" -> LeafH(c, width)
    [] Tree[c].kind = "container" ->
         Total(LAMBDA d : DesiredH(s, d, width), s.kids[c]) + 2 * Pad
    [] Tree[c].kind = "vertical" ->
         Total(LAMBDA d : DesiredH(s, d, width - 2 * Pad), Active(s, c))
           + Gaps(Active(s, c)) + 2 * Pad
    [] OTHER -> Max({0} \union {DesiredH(s, d, width - 2 * Pad) : d \in ToSet(Active(s, c))})
                  + 2 * Pad

(* widget_resize: a box and a container react only to another size. *)
Resize(s, c, w, h) ==
  LET set == [s EXCEPT !.at[c].w = w, !.at[c].h = h]
      changed == <<s.at[c].w, s.at[c].h>> # <<w, h>>
  IN  QueueRedraw(IF Tree[c].kind # "leaf" /\ changed THEN Update(set, c) ELSE set, c)

Move(s, c, x, y) == [s EXCEPT !.at[c].x = x, !.at[c].y = y]

(***************************************************************************)
(* vert_calculate_size and hori_calculate_size.  The room of the box and   *)
(* the space left over are read once, before the children are resized.     *)
(***************************************************************************)
Vertical(b) == Tree[b].kind = "vertical"
Room(s, b) == IF Vertical(b) THEN RemH(s, b) ELSE RemW(s, b)
Extent(s, b, c) == IF Vertical(b) THEN s.at[c].h ELSE s.at[c].w

SizeFixed(s, b) ==
  FoldLeft(LAMBDA t, c :
             IF Vertical(b)
             THEN Resize(t, c, RemW(s, b), DesiredH(t, c, RemW(s, b)))
             ELSE Resize(t, c, DesiredW(t, c), RemH(s, b)),
           s, Fixed(s, b))

Used(s, b) ==
  Total(LAMBDA c : IF s.at[c].h > 0 THEN Extent(s, b, c) ELSE 0, Fixed(s, b))
    + Gaps(Active(s, b))

Place(s, b, left) ==
  LET expanding == Len(Active(s, b)) - Len(Fixed(s, b))
      W(a, size) == IF Vertical(b) THEN RemW(s, b) ELSE size
      H(a, size) == IF Vertical(b) THEN size ELSE RemH(s, b)
      Step(a, c) ==
        LET size == a.rem \div (expanding - a.index)
            moved == IF Vertical(b) THEN Move(a.ui, c, Pad, a.top) ELSE Move(a.ui, c, a.top, Pad)
        IN  IF Tree[c].expand
            THEN [ui |-> Resize(moved, c, W(a, size), H(a, size)), top |-> a.top + size + Spacing,
                  rem |-> a.rem - size, index |-> a.index + 1]
            ELSE [a EXCEPT !.ui = moved, !.top = @ + Extent(moved, b, c) + Spacing]
  IN  FoldLeft(Step, [ui |-> s, top |-> Pad, rem |-> left, index |-> 0], Active(s, b)).ui

Calculate(s, b) ==
  LET room == Room(s, b)
      t == SizeFixed(s, b)
      used == Used(t, b)
      full == [t EXCEPT !.max[b] = room]
      done == IF used > room THEN [Place(t, b, 0) EXCEPT !.max[b] = room + 2 * Pad]
              ELSE [Place(t, b, room - used) EXCEPT !.max[b] = used + 2 * Pad]
  IN  IF used > room /\ Vertical(b) THEN full ELSE done

ContainerUpdate(s, c) ==
  FoldLeft(LAMBDA t, d : Move(Resize(t, d, RemW(s, c), RemH(s, c)), d, Pad, Pad),
           s, Active(s, c))

(* box_update tells the parent, container_update does not. *)
Update(s, c) ==
  CASE IsBox(c) -> LET t == Calculate(s, c)
                   IN  IF c = Top THEN t ELSE Update(t, Parent(c))
    [] Tree[c].kind = "container" -> ContainerUpdate(s, c)
    [] OTHER -> s

(***************************************************************************)
(* The operations.                                                         *)
(***************************************************************************)
WidgetsInit ==
  /\ ui = [at |-> [c \in Widget |-> [x |-> 0, y |-> 0, w |-> 0, h |-> 0]],
           on |-> [c \in Widget |-> TRUE], dirty |-> [c \in Widget |-> FALSE],
           kids |-> [c \in Widget |-> <<>>], max |-> [c \in Widget |-> 0]]
  /\ screen = {}

Added == {Top} \union UNION {ToSet(ui.kids[c]) : c \in Widget}

(* box_add and container_add: the box grows across, then lays itself out. *)
Add(c) ==
  LET p == Parent(c)
      grown == IF ~IsBox(p) THEN ui
               ELSE IF Vertical(p) THEN [ui EXCEPT !.at[p].w = Larger(@, ui.at[c].w + 2 * Pad)]
               ELSE [ui EXCEPT !.at[p].h = Larger(@, ui.at[c].h + 2 * Pad)]
  IN  /\ Cardinality(Added) <= Len(Order)
      /\ c = Order[Cardinality(Added)]
      /\ ui' = Update([grown EXCEPT !.kids[p] = Append(@, c)], p)
      /\ UNCHANGED screen

ResizeWindow(size) ==
  /\ Widget = Added
  /\ ui' = Resize(ui, Top, size[1], size[2])
  /\ UNCHANGED screen

SetEnabled(c) ==
  /\ Widget = Added /\ c \in Toggled
  /\ LET s == [ui EXCEPT !.on[c] = ~@]
     IN  ui' = QueueRedraw(Update(Update(s, c), Parent(c)), c)
  /\ UNCHANGED screen

(* widget_draw: a disabled widget keeps its mark, one without room loses it. *)
Drawn(s, c) ==
  IF ~s.on[c] THEN {}
  ELSE IF s.at[c].w < 1 \/ s.at[c].h < 1 THEN {c}
  ELSE {c} \union UNION {Drawn(s, d) : d \in ToSet(s.kids[c])}
Visible(s) == {c \in Drawn(s, Top) : s.at[c].w >= 1 /\ s.at[c].h >= 1}
Rectangles(s) == {<<c, s.at[c]>> : c \in Visible(s)}

(* The view draws when the main window asks for it. *)
Draw ==
  /\ ui.dirty[Top] /\ ui.on[Top]
  /\ ui' = [ui EXCEPT !.dirty = [c \in Widget |-> @[c] /\ c \notin Drawn(ui, Top)]]
  /\ screen' = Rectangles(ui)

WidgetsNext ==
  \/ \E c \in Widget : Add(c) \/ SetEnabled(c)
  \/ \E size \in Sizes : ResizeWindow(size)
  \/ Draw

(***************************************************************************)
(* Where a click goes: find_mouse_target, in the coordinates of the widget.*)
(***************************************************************************)
Inside(r, x, y) == x \in r.x .. r.x + r.w - 1 /\ y \in r.y .. r.y + r.h - 1
(* Mutant: a disabled child still takes the click. *)
TriesAll(s, c, d) == TRUE

(* box_find_mouse_target passes over what is disabled, the container does not. *)
BoxTries(s, c, d) == IsBox(c) => s.on[d]
Target(s, c, x, y) ==
  LET Hits(d) == BoxTries(s, c, d) /\ Inside(s.at[d], x, y)
      hit == SelectSeq(s.kids[c], Hits)
  IN  IF hit = <<>> THEN c ELSE Target(s, hit[1], x - s.at[hit[1]].x, y - s.at[hit[1]].y)
Absolute(s, c, axis) ==
  FoldSet(LAMBDA d, n : n + IF axis = "x" THEN s.at[d].x ELSE s.at[d].y, 0, Ancestors(c))

WidgetsTypeOK ==
  /\ \A c \in Widget : ui.at[c] \in [x : Int, y : Int, w : Int, h : Int]
  /\ ui.on \in [Widget -> BOOLEAN] /\ ui.dirty \in [Widget -> BOOLEAN]
  /\ ui.max \in [Widget -> Int] /\ \A c \in Widget : ToSet(ui.kids[c]) \subseteq Widget
  /\ \A p \in screen : p[1] \in Widget

(* The layout of a box on the screen that has room for its children: they  *)
(* follow each other without overlap and end inside the box, exactly at    *)
(* its edge when one of them expands.                                      *)
Tiled(b) ==
  LET cs == Active(ui, b)
      Start(i) == IF Vertical(b) THEN ui.at[cs[i]].y ELSE ui.at[cs[i]].x
      End(i) == Start(i) + Extent(ui, b, cs[i])
      edge == Pad + Room(ui, b)
  IN  cs # <<>> =>
        /\ Start(1) = Pad
        /\ \A i \in 2 .. Len(cs) : Start(i) = End(i - 1) + Spacing
        /\ End(Len(cs)) <= edge
        /\ Len(Fixed(ui, b)) < Len(cs) => End(Len(cs)) = edge

Roomy(b) == IsBox(b) /\ Used(ui, b) <= Room(ui, b) /\ RemH(ui, b) > 0

(* A layout is final: to lay out the tree again changes nothing, although  *)
(* the boxes laid themselves out in the middle of their parents' layout.   *)
Settled ==
  Widget = Added => LET t == Update(ui, Top) IN t.at = ui.at /\ t.max = ui.max

(* When the main window does not ask for a redraw, the screen shows every  *)
(* widget that is visible where the layout has put it.                     *)
ScreenIsCurrent == ~ui.dirty[Top] => screen = Rectangles(ui)

(* The click at a point reaches a widget that is enabled, as everything it *)
(* is in, and whose rectangle on the screen contains the point.            *)
ClicksArrive ==
  \A x \in 0 .. ui.at[Top].w - 1, y \in 0 .. ui.at[Top].h - 1 :
    LET c == Target(ui, Top, x, y)
    IN  /\ \A d \in Ancestors(c) : d = Top \/ Tree[Parent(d)].kind = "container" \/ ui.on[d]
        /\ x - Absolute(ui, c, "x") \in 0 .. ui.at[c].w - 1
        /\ y - Absolute(ui, c, "y") \in 0 .. ui.at[c].h - 1

LayoutSound == Settled /\ \A b \in Visible(ui) : Roomy(b) => Tiled(b)
=============================================================================
