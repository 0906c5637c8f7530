----------------------------- MODULE DmenuSelect -----------------------------
(***************************************************************************)
(* Choosing rows in dmenu mode (dmenu_finalize, dmenu_print_results of     *)
(* source/modes/dmenu.c, with rofi_view_get_next_position and              *)
(* rofi_view_set_selected_line of source/view.c): rows are marked in a bit *)
(* map that grows with the list, while the reader thread goes on adding    *)
(* rows and the user goes on filtering.  Rows count from 0; line_map is    *)
(* a sequence, of which the first filtered entries are shown.              *)
(***************************************************************************)
EXTENDS Integers, FiniteSets, Sequences, SequencesExt, FiniteSetsExt

CONSTANTS
  MaxRows,       \* bound: rows that are read
  WordBits,      \* bits in a word of selected_list (32)
  MultiSelect,   \* -multi-select
  Modes          \* what may be chosen: any input, only a row ("-no-custom"), or
                 \* only a row and no cancelling ("-only-match")

ASSUME DmenuSelectAssumption ==
  /\ MaxRows \in Nat \ {0} /\ WordBits \in Nat \ {0}
  /\ MultiSelect \in BOOLEAN
  /\ Modes \subseteq {"any", "no-custom", "only-match"} /\ Modes # {}

VARIABLES
  mode,           \* the member of Modes on the command line
  len,            \* cmd_list_length
  barred,         \* rows that are nonselectable
  line_map,       \* rows in the order of the view; its length is num_lines
  filtered,       \* filtered_lines
  selected,       \* the selected element of the list view
  selected_line,  \* the row of the last action
  words,          \* selected_list, a set of bits per word
  num_selected,   \* num_selected_list
  selected_count, \* selected_count
  toggled,        \* rows that were toggled an odd number of times
  finished,       \* dmenu_finish was called
  printed,        \* rows that were printed
  custom          \* the input was printed

vars == <<mode, len, barred, line_map, filtered, selected, selected_line, words,
          num_selected, selected_count, toggled, finished, printed, custom>>
view == <<mode, len, barred, line_map, filtered>>
bitmap == <<words, num_selected, selected_count, toggled>>
output == <<finished, printed, custom>>

OnlySelected == mode # "any"
OnlyMatch == mode = "only-match"
None == -1  \* UINT32_MAX
Rows == 0 .. len - 1
Bits == 0 .. WordBits - 1

\* bitget, for the rows the bit map is known to cover.
BitGet(w, row) == row % WordBits \in w[row \div WordBits]
Marked == {row \in 0 .. num_selected - 1 : BitGet(words, row)}

Init ==
  /\ mode \in Modes
  /\ len \in 1 .. MaxRows /\ barred \in SUBSET Rows
  /\ line_map = [i \in 1 .. len |-> i - 1] /\ filtered = len
  /\ selected = 0 /\ selected_line = 0
  /\ words = <<>> /\ num_selected = 0 /\ selected_count = 0 /\ toggled = {}
  /\ finished = FALSE /\ printed = {} /\ custom = FALSE

-----------------------------------------------------------------------------
\* The reader thread delivers another row; rows keep their numbers.
Append1 ==
  /\ ~finished /\ ~OnlySelected /\ len < MaxRows
  /\ len' = len + 1 /\ barred' \in {barred, barred \cup {len}}
  /\ UNCHANGED <<mode, line_map, filtered, selected, selected_line, bitmap, output>>

\* What a filter can find among the first n rows: some of them, in their order.
Ascending(n) ==
  {s \in UNION {[1 .. m -> 0 .. n - 1] : m \in 0 .. n} :
     \A i, j \in DOMAIN s : i < j => s[i] < s[j]}

\* rofi_view_refilter_real on a list short enough for one thread: the rows that
\* match move to the front, and what stood behind them stays, or is zero
\* after a reload.  The selection is cut to the rows that are shown.
Filter ==
  /\ ~finished
  /\ \E reloaded \in BOOLEAN :
       LET old == IF reloaded THEN [i \in 1 .. len |-> 0] ELSE line_map
       IN \E matched \in Ascending(Len(old)) :
            /\ line_map' = matched \o SubSeq(old, Len(matched) + 1, Len(old))
            /\ filtered' = Len(matched)
            /\ selected' = IF matched # <<>> /\ selected >= Len(matched)
                           THEN Len(matched) - 1 ELSE selected
  /\ UNCHANGED <<mode, len, barred, selected_line, bitmap, output>>

\* The user moves the selection.
Move ==
  /\ ~finished /\ filtered > 0
  /\ selected' \in 0 .. filtered - 1
  /\ UNCHANGED <<view, selected_line, bitmap, output>>

-----------------------------------------------------------------------------
\* Mutant: the selected row itself.
SamePosition(line) ==
  IF selected < Len(line_map) THEN line_map[selected + 1] ELSE line

\* rofi_view_get_next_position.
NextPosition(line) ==
  IF selected + 1 < Len(line_map) THEN line_map[selected + 2] ELSE line

\* rofi_view_set_selected_line: the element that shows the row, or the first.
Select(row) ==
  /\ selected_line' = row
  /\ LET shows == {i \in 1 .. filtered : line_map[i] = row} IN
     selected' = IF filtered = 0 THEN selected
                 ELSE IF shows = {} THEN 0 ELSE Min(shows) - 1

\* The words that hold the bits of n rows.
WordsOf(n) == n \div WordBits + 1

\* Mutant: the word in which the old bits end is cleared, too.
GrownFromLast(garbage) ==
  [w \in 0 .. WordsOf(len) - 1 |->
     IF num_selected > 0 /\ w < num_selected \div WordBits THEN words[w] ELSE {}]

\* g_realloc, and memset of the words behind the old ones; the rest of the new
\* memory is garbage.
Grown(garbage) ==
  LET size == IF num_selected = 0 THEN 0 ELSE WordsOf(num_selected)
      cleared == size .. WordsOf(len) - 1
  IN [w \in 0 .. WordsOf(len) - 1 |->
        IF w \in cleared THEN {} ELSE IF w < size THEN words[w] ELSE garbage[w]]

\* Mutant: the count goes the wrong way.
ToggleMiscounted(row) ==
  /\ \E garbage \in [0 .. WordsOf(len) - 1 -> {{}, Bits}] :
       LET w == IF num_selected # len THEN Grown(garbage) ELSE words
           bit == row % WordBits
           index == row \div WordBits
       IN /\ selected_count' = IF BitGet(w, row) THEN selected_count + 1
                               ELSE selected_count - 1
          /\ words' = [w EXCEPT ![index] = IF bit \in @ THEN @ \ {bit} ELSE @ \cup {bit}]
  /\ num_selected' = len
  /\ toggled' = IF row \in toggled THEN toggled \ {row} ELSE toggled \cup {row}
  /\ Select(Min({NextPosition(row), len - 1}))
  /\ UNCHANGED <<view, output>>

\* Toggle the bit of the row, and go to the next line.
Toggle(row) ==
  /\ \E garbage \in [0 .. WordsOf(len) - 1 -> {{}, Bits}] :
       LET w == IF num_selected # len THEN Grown(garbage) ELSE words
           bit == row % WordBits
           index == row \div WordBits
       IN /\ selected_count' = IF BitGet(w, row) THEN selected_count - 1
                               ELSE selected_count + 1
          /\ words' = [w EXCEPT ![index] = IF bit \in @ THEN @ \ {bit} ELSE @ \cup {bit}]
  /\ num_selected' = len
  /\ toggled' = IF row \in toggled THEN toggled \ {row} ELSE toggled \cup {row}
  /\ Select(Min({NextPosition(row), len - 1}))
  /\ UNCHANGED <<view, output>>

\* Mutant: the row of the selection is always printed.
PrintSelection(line) ==
  /\ printed' = Marked \cup ({line} \ {None})
  /\ custom' = (printed' = {})

\* dmenu_print_results: the marked rows, or the row of the action, or the input.
PrintResults(line) ==
  /\ printed' = IF Marked # {} THEN Marked ELSE {line} \ {None}
  /\ custom' = (printed' = {})

\* dmenu_finish.
Finish(line) ==
  /\ finished' = TRUE /\ selected_line' = line
  /\ UNCHANGED <<view, selected, bitmap>>

Stay(line) ==
  /\ selected_line' = line
  /\ UNCHANGED <<view, selected, bitmap, output>>

Leave(line) == Finish(line) /\ UNCHANGED <<printed, custom>>
PrintAndLeave(line) == PrintResults(line) /\ Finish(line)
Restart(row) == Select(row) /\ UNCHANGED <<view, bitmap, output>>

-----------------------------------------------------------------------------
\* What the actions of the view ask for: the row and the flags of MenuReturn.
Current == IF selected < filtered THEN line_map[selected + 1] ELSE None
Chosen == IF Current # None THEN "ok" ELSE "input"

Requests ==
  {[line |-> Current, retv |-> {Chosen}],                 \* ACCEPT_ENTRY
   [line |-> Current, retv |-> {Chosen, "action"}],       \* ACCEPT_ALT
   [line |-> None, retv |-> {"input"}],                   \* ACCEPT_CUSTOM
   [line |-> None, retv |-> {"input", "action"}],         \* ACCEPT_CUSTOM_ALT
   [line |-> Current, retv |-> {"command"}],              \* CUSTOM_1 ... CUSTOM_19
   [line |-> selected_line, retv |-> {"cancel"}]}         \* CANCEL
  \cup
  {r \in {[line |-> Current, retv |-> {"delete"}]} : Current # None}  \* DELETE_ENTRY

\* dmenu_finalize without -only-match and -no-custom.
FinalizeAny(line, retv) ==
  IF "ok" \in retv /\ line # None THEN
    IF line \in barred THEN Stay(line)
    ELSE IF "action" \in retv /\ MultiSelect THEN Toggle(line)
    ELSE PrintAndLeave(line)
  ELSE IF retv \cap {"input", "command"} # {} THEN PrintAndLeave(line)
  ELSE Leave(line)

\* dmenu_finalize with one of them.
FinalizeSelected(line, retv) ==
  IF "cancel" \in retv THEN IF OnlyMatch THEN Restart(line) ELSE Leave(line)
  ELSE IF line = None THEN Restart(line)
  ELSE IF "action" \in retv /\ MultiSelect THEN Toggle(line)
  ELSE IF retv \cap {"ok", "command"} = {} THEN Restart(NextPosition(line) - 1)
  ELSE IF line \in barred THEN Stay(line)
  ELSE PrintAndLeave(line)

Finalize ==
  /\ ~finished
  /\ \E r \in Requests :
       IF OnlySelected THEN FinalizeSelected(r.line, r.retv)
       ELSE FinalizeAny(r.line, r.retv)

Next == Append1 \/ Filter \/ Move \/ Finalize

Spec == Init /\ [][Next]_vars

-----------------------------------------------------------------------------
\* The variables have their types.
TypeOK ==
  /\ mode \in Modes
  /\ len \in 1 .. MaxRows /\ barred \subseteq Rows
  /\ line_map \in Seq(Rows) /\ Len(line_map) \in 1 .. len
  /\ filtered \in 0 .. Len(line_map)
  /\ selected \in 0 .. Len(line_map) - 1
  /\ selected_line \in Rows \cup {None}
  /\ num_selected \in 0 .. len
  /\ num_selected > 0 => words \in [0 .. WordsOf(num_selected) - 1 -> SUBSET Bits]
  /\ selected_count \in 0 .. len /\ toggled \subseteq Rows
  /\ finished \in BOOLEAN /\ printed \subseteq Rows /\ custom \in BOOLEAN

\* The bit map marks the rows that the user marked, whatever the list grew by
\* between two of them, and the count in the overlay is their number.
MarksAreKept == Marked = toggled /\ selected_count = Cardinality(toggled)

\* What is printed is what the user chose: the marked rows if there are any,
\* and else the one that was selected, or the input.
PrintsTheChoice ==
  finished =>
    \/ printed = {}
    \/ printed = toggled
    \/ toggled = {} /\ printed = {selected_line}

\* After a row is toggled the next one that is shown is selected.
ToggleStep == toggled' # toggled /\ selected + 1 < filtered => selected' = selected + 1
ToggleAdvances == [][ToggleStep]_vars

\* What the three properties above rest on.  The rows that are shown ascend, so
\* that no row is shown twice; the bit map, the bits behind the last row
\* included, has the marks and nothing else; and nothing is printed early.
ShownAscends == \A i, j \in 1 .. filtered : i < j => line_map[i] < line_map[j]
BitsAreMarks ==
  /\ toggled \subseteq 0 .. num_selected - 1
  /\ num_selected > 0 =>
       \A w \in 0 .. WordsOf(num_selected) - 1, b \in Bits :
         b \in words[w] <=> w * WordBits + b \in toggled
NothingEarly == ~finished => printed = {}
IInv ==
  /\ TypeOK /\ ShownAscends /\ BitsAreMarks /\ NothingEarly
  /\ selected_count = Cardinality(toggled) /\ PrintsTheChoice

\* The next visible position (include/view.h), also of the last row shown,
\* which has none: the selection does not go back.
NextIsVisible == [][toggled' # toggled => selected' >= selected]_vars
=============================================================================
