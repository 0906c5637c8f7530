------------------------------- MODULE Combi -------------------------------
(***************************************************************************)
(* The mode that shows several modes in one list (modes/combi.c).  A row   *)
(* is found by where its mode starts, as counted when the view last asked  *)
(* for the number of rows.  Until it asks again a mode that reads in the   *)
(* background has more of them, and one whose windows close has fewer (a   *)
(* mode is not told that it is part of a combination).  Input that begins  *)
(* with "!" and the first letters of names shows the modes of those names  *)
(* only.                                                                   *)
(***************************************************************************)
EXTENDS Integers, FiniteSets

CONSTANTS
  NumModes,     \* pd->num_switchers
  Names,        \* what may follow the "!" -> the modes whose name begins so
  MaxOfMode     \* bound: rows of one mode

ASSUME CombiAssumption ==
  /\ NumModes \in Nat /\ MaxOfMode \in Nat
  /\ "none" \notin DOMAIN Names /\ \A n \in DOMAIN Names : Names[n] \subseteq 1 .. NumModes

VARIABLES
  rowsOf,            \* how many rows each mode has now
  starts, lengths,   \* pd->starts, pd->lengths
  bang,              \* what follows "!" in the input, "none" without one
  disabled,          \* the modes whose rows do not match
  counted,           \* the view reloaded since a result removed a row
  lost,              \* the modes that lost a row since the rows were counted
  asked              \* right after a result the mode and the row it went to, what
                     \* followed the "!", the modes that show the row, how many
                     \* rows the mode was counted with and has, and whether it
                     \* lost one between

cvars == <<rowsOf, starts, lengths, bang, disabled, counted, lost, asked>>

Switchers == 1 .. NumModes
StartsOf(r) == [i \in Switchers |->
                  LET before == {b \in (1 .. i - 1) \X (1 .. MaxOfMode) : b[2] <= r[b[1]]}
                  IN  Cardinality(before)]

Nobody == [mode |-> 0]

(* combi_mode_init; every mode has its rows.                               *)
CombiInit ==
  /\ rowsOf \in [Switchers -> 0 .. MaxOfMode] /\ starts = StartsOf(rowsOf) /\ lengths = rowsOf
  /\ bang = "none" /\ disabled = {} /\ counted = TRUE /\ lost = {}
  /\ asked = Nobody

(* combi_mode_get_num_entries, when the view reloads.                      *)
GetNumEntries == /\ starts' = StartsOf(rowsOf) /\ lengths' = rowsOf /\ counted' = TRUE
                 /\ lost' = {} /\ asked' = Nobody /\ UNCHANGED <<rowsOf, bang, disabled>>

(* A mode that reads in the background, and the window mode when a window  *)
(* closes; the view is told to reload, which it does later.                *)
Grow(i) == /\ rowsOf[i] < MaxOfMode /\ rowsOf' = [rowsOf EXCEPT ![i] = @ + 1]
           /\ asked' = Nobody /\ UNCHANGED <<starts, lengths, bang, disabled, counted, lost>>
Shrink(i) == /\ rowsOf[i] > 0 /\ rowsOf' = [rowsOf EXCEPT ![i] = @ - 1] /\ lost' = lost \cup {i}
             /\ asked' = Nobody /\ UNCHANGED <<starts, lengths, bang, disabled, counted>>

(* combi_preprocess_input: with no letter behind the "!" all modes show.   *)
PreprocessInput(b) ==
  /\ bang' = b /\ disabled' = IF b = "none" THEN {} ELSE Switchers \ Names[b]
  /\ asked' = Nobody /\ UNCHANGED <<rowsOf, starts, lengths, counted, lost>>

Owner(line) == {i \in Switchers : line >= starts[i] /\ line < starts[i] + lengths[i]}
(* combi_mode_match: the rows the view can have selected.                  *)
CombiMatch(line) == \E i \in Owner(line) \ disabled : TRUE
Lines == {l \in 0 .. NumModes * MaxOfMode : CombiMatch(l)}

(* Mutant: the rows are counted when one is chosen, not when they are shown. *)
AskedNow(line) ==
  LET has == {i \in Switchers : line >= StartsOf(rowsOf)[i] /\ line < StartsOf(rowsOf)[i] + rowsOf[i]}
  IN  CHOOSE i \in IF has = {} THEN Owner(line) ELSE has : TRUE

(* combi_mode_result: with a "!" the first mode of that name is asked,     *)
(* otherwise the one that has the row, whether it still has it or not.  A  *)
(* result that removes a row makes the view reload before anything else is *)
(* chosen.                                                                 *)
Asked(line) ==
  LET first(s) == CHOOSE i \in s : \A j \in s : i <= j
  IN  IF bang # "none" /\ Names[bang] # {} THEN first(Names[bang]) ELSE first(Owner(line))
Result(line, removes) ==
  /\ counted /\ line \in Lines
  /\ asked' = [mode |-> Asked(line), row |-> line - starts[Asked(line)], bang |-> bang,
               owner |-> Owner(line), shown |-> lengths[Asked(line)],
               has |-> rowsOf[Asked(line)], lost |-> Asked(line) \in lost]
  /\ IF removes /\ asked'.row \in 0 .. asked'.has - 1
     THEN /\ rowsOf' = [rowsOf EXCEPT ![asked'.mode] = @ - 1]
          /\ lost' = lost \cup {asked'.mode} /\ counted' = FALSE
     ELSE UNCHANGED <<rowsOf, counted, lost>>
  /\ UNCHANGED <<starts, lengths, bang, disabled>>

CombiNext ==
  \/ GetNumEntries \/ (\E i \in Switchers : Grow(i) \/ Shrink(i))
  \/ (\E b \in DOMAIN Names \cup {"none"} : PreprocessInput(b))
  \/ (\E l \in 0 .. NumModes * MaxOfMode : \E removes \in BOOLEAN : Result(l, removes))

CombiSpec == CombiInit /\ [][CombiNext]_cvars

(* The variables have their types.                                         *)
CombiTypeOK ==
  /\ rowsOf \in [Switchers -> 0 .. MaxOfMode] /\ lengths \in [Switchers -> 0 .. MaxOfMode]
  /\ starts \in [Switchers -> 0 .. NumModes * MaxOfMode] /\ bang \in DOMAIN Names \cup {"none"}
  /\ disabled \subseteq Switchers /\ counted \in BOOLEAN /\ lost \subseteq Switchers

(* The mode that shows the row is asked, for that row of it as it was      *)
(* counted, whatever the other modes read, lost or removed meanwhile; and  *)
(* it still has a row of that number unless it lost one itself.  (Then it  *)
(* is asked all the same, and the window modes do not look whether they    *)
(* have it: window.c:783, wayland-window.c:416.)  Or what follows the "!"  *)
(* begins several names: the first of them is asked for a row it may never *)
(* have had.                                                               *)
RowReachesItsMode ==
  asked.mode > 0 =>
    \/ /\ asked.owner = {asked.mode} /\ asked.row \in 0 .. asked.shown - 1
       /\ asked.row < asked.has \/ asked.lost
    \/ /\ asked.bang # "none" /\ Cardinality(Names[asked.bang]) > 1
       /\ {asked.mode} \cup asked.owner \subseteq Names[asked.bang]

(* What it rests on: the starts are those of the lengths, which are the    *)
(* numbers of rows when the view asked, and of a mode that lost none since *)
(* not more than it has; and what is disabled are the modes of other       *)
(* names.                                                                  *)
CountedInv ==
  /\ lengths \in [Switchers -> 0 .. MaxOfMode] /\ starts = StartsOf(lengths)
  /\ \A i \in Switchers \ lost : rowsOf[i] >= lengths[i]
  /\ disabled = IF bang = "none" THEN {} ELSE Switchers \ Names[bang]
CombiInv == CombiTypeOK /\ CountedInv /\ RowReachesItsMode
=============================================================================
