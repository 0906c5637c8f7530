------------------------------ MODULE ListView ------------------------------
(***************************************************************************)
(* The list view (widgets/listview.c) with its scroll bar (scrollbar.c):   *)
(* which row is selected, which rows the elements on the screen show, and  *)
(* what a key or a click on an element does.  Rows are counted in unsigned *)
(* words; a row that is selected stays so while the list is empty.         *)
(***************************************************************************)
EXTENDS Integers, Sequences

CONSTANTS
  Looks,     \* [bar, scroll, across, reverse, cycle, fixedCols, columns, lines,
             \*  fixedLines, dynamic, needInput]: the themes to check
  Heights,   \* the heights the list is given
  MaxListed, \* bound: rows of the filtered list
  ElementH,  \* element_height
  Gap,       \* spacing
  Word       \* stands for 2^32

VARIABLES
  look,      \* the theme of the list
  req, sel,  \* req_elements, selected
  off,       \* last_offset
  rows, max, \* max_rows, max_elements
  cur, cols, \* cur_elements, cur_columns
  redo,      \* rchanged
  back,      \* barview.direction is RIGHT_TO_LEFT
  vis,       \* barview.cur_visible
  shown,     \* the row each element showed when it was drawn
  clean,     \* nothing has changed since the drawing
  sb         \* the scroll bar: [h, length, pos_length]

place == <<rows, max, cur, cols, redo>>
lvars == <<look, req, sel, off, place, back, vis, shown, clean, sb>>

(* A theme has at least one column (scroll_continious_rows divides by it) *)
(* and an element some height; the counts of rows and elements fit a word. *)
ElementsAt(r, l) == r * l.columns
RowsAt(h) == (Gap + h) \div (ElementH + Gap)
ListViewAssumption ==
  /\ Looks \subseteq [bar : BOOLEAN, scroll : {"page", "continuous"}, across : BOOLEAN,
                     reverse : BOOLEAN, cycle : BOOLEAN, fixedCols : BOOLEAN,
                     columns : Nat \ {0}, lines : Nat, fixedLines : BOOLEAN,
                     dynamic : BOOLEAN, needInput : BOOLEAN]
  /\ Heights \subseteq Nat /\ ElementH \in Nat \ {0} /\ Gap \in Nat
  /\ MaxListed \in Nat /\ Word \in Nat /\ 2 * MaxListed < Word
  /\ \A l \in Looks : /\ ElementsAt(l.lines, l) < Word
                      /\ \A h \in Heights : ElementsAt(RowsAt(h), l) < Word
ASSUME ListViewAssumption

Minus(a, b) == (a - b) % Word
MIN(a, b) == IF a <= b THEN a ELSE b
MAX(a, b) == IF a >= b THEN a ELSE b

(* listview_recompute_elements for req elements, max rows r and m elements. *)
Recompute(n, r, m) ==
  IF r = 0 THEN UNCHANGED <<cur, cols, redo>>
  ELSE /\ redo' = TRUE
       /\ IF ~look.fixedCols /\ n < m
          THEN /\ cur' = n
               /\ cols' = IF look.across THEN MIN(n, look.columns) ELSE (n + r - 1) \div r
          ELSE cur' = MIN(n, m) /\ cols' = look.columns

ListInit ==
  /\ look \in Looks
  /\ req = 0 /\ sel = 0 /\ off = 0 /\ rows = 0 /\ max = 0 /\ cur = 0 /\ cols = 0
  /\ redo = FALSE /\ back = FALSE /\ vis = 0
  /\ shown = <<>> /\ clean = FALSE
  /\ sb = [h |-> 0, length |-> 10, pos_length |-> 4]

(* listview_set_selected, when n rows are listed. *)
SetSelected(n, i) ==
  IF n > 0 THEN sel' = MIN(i, n - 1) /\ back' = FALSE ELSE UNCHANGED <<sel, back>>

SetNumElements(n, filtered) ==
  LET listed == IF look.needInput /\ ~filtered THEN 0 ELSE n
  IN  /\ req' = listed
      /\ SetSelected(listed, sel)
      /\ Recompute(listed, rows, max)
      /\ clean' = FALSE
      /\ UNCHANGED <<look, off, rows, max, vis, shown, sb>>

ResizeList(h) ==
  LET r == IF h = 0 THEN look.lines ELSE RowsAt(h)
      m == IF look.bar THEN look.lines ELSE ElementsAt(r, look)
  IN  /\ rows' = r /\ max' = m /\ Recompute(req, r, m)
      /\ sb' = [sb EXCEPT !.h = h]
      /\ clean' = FALSE
      /\ UNCHANGED <<look, req, sel, off, back, vis, shown>>

(* listview_get_desired_height when the mode has t rows                    *)
(* (max_displayed_lines), and the view giving the list that height.  The   *)
(* bound: the mode has the rows that are listed, or MaxListed.             *)
HeightLines(t) ==
  LET h == CASE look.fixedLines -> look.lines
             [] ~look.fixedLines /\ look.dynamic -> MIN(look.lines, req)
             [] OTHER -> MIN(look.lines, t)
  IN  IF look.bar THEN MIN(h, 1) ELSE h
Totals == {req, MaxListed}
DesiredHeight(t) ==
  IF HeightLines(t) = 0 THEN 0 ELSE HeightLines(t) * (ElementH + Gap) - Gap
Fit(t) == ResizeList(DesiredHeight(t))

(***************************************************************************)
(* Scrolling: the first row that is drawn.                                 *)
(***************************************************************************)
(* Mutant: a selection before the page leaves the page where it is. *)
PerPageForward ==
  IF Minus(sel, off) < max \/ sel < off THEN off
  ELSE IF max > 0 THEN (sel \div max) * max ELSE 0

PerPage ==
  IF Minus(sel, off) < max /\ sel >= off THEN off
  ELSE IF max > 0 THEN (sel \div max) * max ELSE 0

Centred(s, n, r, middle) ==
  IF s <= middle THEN 0
  ELSE IF s < Minus(n, Minus(r, middle)) THEN s - middle
  ELSE IF n > r THEN n - r ELSE 0

ContinuousElements ==
  Centred(sel, req, max, (rows * ((look.columns - 1) \div 2) + (Minus(rows, 1) \div 2)) % Word)
ContinuousRows ==
  look.columns * Centred(sel \div look.columns, (req + look.columns - 1) \div look.columns,
                         rows, Minus(rows, 1) \div 2)

Offset == IF look.scroll = "page" THEN PerPage
          ELSE IF look.across THEN ContinuousRows ELSE ContinuousElements

RowsFrom(first, n) == [i \in 1 .. n |-> first + i - 1]
(* Mutant: the first row of the page is left out. *)
ShowsNext(o) == IF cur > 0 /\ rows > 0 THEN RowsFrom(o + 1, MIN(cur, Minus(req, o))) ELSE <<>>

Shows(o) == IF cur > 0 /\ rows > 0 THEN RowsFrom(o, MIN(cur, Minus(req, o))) ELSE <<>>

(* listview_draw; the scroll bar learns of the rows. *)
DrawList ==
  /\ ~look.bar
  /\ off' = Offset /\ shown' = Shows(Offset)
  /\ redo' = (redo /\ ~(cur > 0 /\ rows > 0))
  /\ sb' = [sb EXCEPT !.length = MAX(1, req),
                      !.pos_length = MIN(MAX(1, req), MAX(1, cols * rows))]
  /\ clean' = TRUE
  /\ UNCHANGED <<look, req, sel, rows, max, cur, cols, back, vis>>

(* barview_draw: how many elements fit depends on their widths.  Towards   *)
(* the left the elements are placed from the right edge, and swapped.      *)
BarOffset == IF sel < off \/ sel >= off + vis THEN sel ELSE off
DrawBar ==
  /\ look.bar
  /\ LET o == BarOffset
         again == redo \/ o # off \/ sel >= off + vis
         most == IF back THEN MIN(cur, o + 1) ELSE MIN(cur, Minus(req, o))
     IN  IF cur = 0 THEN off' = o /\ redo' = again /\ shown' = <<>> /\ UNCHANGED vis
         ELSE IF ~again THEN shown' = RowsFrom(o, vis) /\ UNCHANGED <<off, redo, vis>>
         ELSE \E n \in 1 .. most :
                /\ vis' = n /\ redo' = FALSE
                /\ off' = IF back THEN Minus(o, n - 1) ELSE o
                /\ shown' = RowsFrom(IF back THEN Minus(o, n - 1) ELSE o, n)
  /\ clean' = TRUE
  /\ UNCHANGED <<look, req, sel, rows, max, cur, cols, back, sb>>

(***************************************************************************)
(* Navigation.                                                             *)
(***************************************************************************)
Settle(s, b) ==
  /\ sel' = s /\ back' = b /\ clean' = FALSE
  /\ UNCHANGED <<look, req, off, place, vis, shown, sb>>

UpInt ==
  /\ req # 0 /\ (sel # 0 \/ look.cycle)
  /\ Settle((IF sel = 0 THEN req ELSE sel) - 1, TRUE)
DownInt ==
  /\ req # 0 /\ (sel # req - 1 \/ look.cycle)
  /\ Settle(IF sel < req - 1 THEN sel + 1 ELSE 0, FALSE)
ColumnLeft == sel >= cols /\ Settle(sel - cols, back)
ColumnRight == sel + cols < req /\ Settle(sel + cols, back)

Up == IF look.across THEN (IF look.reverse THEN ColumnRight ELSE ColumnLeft)
      ELSE IF look.reverse THEN DownInt ELSE UpInt
Down == IF look.across THEN (IF look.reverse THEN ColumnLeft ELSE ColumnRight)
        ELSE IF look.reverse THEN UpInt ELSE DownInt

Left ==
  /\ rows # 0
  /\ IF look.across \/ look.bar THEN UpInt ELSE sel >= rows /\ Settle(sel - rows, back)

(* Past the last full column the last row is taken. *)
LastColumn == sel + rows >= req /\ sel < Minus(req, 1) /\ sel \div rows # req \div rows
Right ==
  /\ rows # 0
  /\ IF look.across \/ look.bar THEN DownInt
     ELSE \/ sel + rows < req /\ Settle(sel + rows, back)
          \/ LastColumn /\ Settle(Minus(req, 1), back)

PagePrevInt ==
  IF look.bar THEN Settle(IF off = 0 THEN 0 ELSE off - 1, TRUE)
  ELSE Settle(IF sel < max THEN 0 ELSE sel - max, back)
PageNextInt ==
  /\ req # 0
  /\ IF look.bar THEN Settle(MIN(off + vis, req - 1), FALSE)
     ELSE Settle(IF sel + max >= req THEN req - 1 ELSE sel + max, back)
PagePrev == IF look.reverse THEN PageNextInt ELSE PagePrevInt
PageNext == IF look.reverse THEN PagePrevInt ELSE PageNextInt

Navigate ==
  \/ UpInt \/ DownInt \/ Up \/ Down \/ Left \/ Right \/ PagePrev \/ PageNext

(* A click or the pointer on element i of those that can be hit. *)
Hit(i) ==
  /\ i < MIN(cur, Minus(req, off))
  /\ SetSelected(req, off + i)
  /\ clean' = FALSE
  /\ UNCHANGED <<look, req, off, place, vis, shown, sb>>

(***************************************************************************)
(* scrollbar_scroll_get_line.  A bar without length divides by zero: the   *)
(* conversion of the result is undefined and may give any line.            *)
(***************************************************************************)
HandleRange == (sb.length * sb.h) \div (sb.length + sb.pos_length)
GetLine(y) ==
  LET half == (sb.h - HandleRange) \div 2
      z == MIN(MAX(0, y - half), sb.h - 2 * half)
  IN  IF y < 0 THEN {0}
      ELSE IF y > sb.h THEN {sb.length - 1}
      ELSE IF HandleRange = 0 /\ sb.length > 1 THEN 0 .. sb.length - 1
      ELSE IF sb.length = 1 THEN {0}
      ELSE {MIN((z * (sb.length - 1)) \div HandleRange, sb.length - 1)}

Scroll(y) ==
  /\ ~look.bar
  /\ \E i \in GetLine(y) : SetSelected(req, i)
  /\ clean' = FALSE
  /\ UNCHANGED <<look, req, off, place, vis, shown, sb>>

ListNext ==
  \/ \E n \in 0 .. MaxListed, f \in BOOLEAN : SetNumElements(n, f)
  \/ \E h \in Heights : ResizeList(h)
  \/ \E t \in Totals : Fit(t)
  \/ DrawList \/ DrawBar \/ Navigate
  \/ \E i \in 0 .. MaxListed : Hit(i)
  \/ \E y \in {-1, 0, sb.h, sb.h + 1} : Scroll(y)

ListSpec == ListInit /\ [][ListNext]_lvars

ListTypeOK ==
  /\ look \in Looks /\ req \in 0 .. MaxListed /\ sel \in 0 .. Word - 1 /\ off \in 0 .. Word - 1
  /\ rows \in Nat /\ max \in Nat /\ cur \in Nat /\ cols \in Nat
  /\ {redo, back, clean} \subseteq BOOLEAN /\ vis \in Nat
  /\ shown \in Seq(0 .. Word - 1)
  /\ sb \in [h : Nat, length : Nat \ {0}, pos_length : Nat \ {0}]

(* A list that is not empty has its selection inside, whatever happened to *)
(* the selection while it was empty.                                       *)
SelectionExists == req > 0 /\ ~look.bar => sel < req

UpToDate == clean /\ req > 0 /\ rows > 0

(* What is drawn are rows of the list, the selected one among them.  (Not  *)
(* so in a bar: its elements may have become wider, and a step to the page *)
(* before leaves the list when rows have gone since the drawing.)          *)
SelectionShown ==
  UpToDate /\ max > 0 /\ ~look.bar =>
    /\ \E i \in 1 .. Len(shown) : shown[i] = sel
    /\ \A i \in 1 .. Len(shown) : shown[i] < req

(* The selection is a row of the list and is on the page that is drawn,    *)
(* whatever happened to the list and to its size since it was chosen.      *)
SelectionSound == SelectionExists /\ SelectionShown

FitStep ==
  \A t \in Totals : Fit(t) /\ HeightLines(t) > 0 => rows' = HeightLines(t)
ClickStep ==
  \A i \in 0 .. MaxListed :
    Hit(i) /\ UpToDate /\ i < Len(shown) => sel' = MIN(shown[i + 1], req - 1)

(* A list at the height it asked for shows the lines it asked it for, and  *)
(* a click on an up-to-date list selects the row that is under it.         *)
ListSteps == [][FitStep /\ ClickStep]_lvars
=============================================================================
