------------------------------- MODULE Script -------------------------------
(***************************************************************************)
(* A mode whose rows a script prints (modes/script.c).  The script is run  *)
(* once at the start and for every row, text or key the user chooses; what *)
(* it prints are rows and options, and rofi waits for the end of it.  The  *)
(* options stay from one call to the next, but for the three that say      *)
(* where the selection and the filter go.                                  *)
(***************************************************************************)
EXTENDS Integers, Sequences, SequencesExt

CONSTANTS
  Outputs,    \* what a call may print: rows, whether it failed, and options
  Words,      \* what rows, data and the input say; "none" where there is no text
  MaxCalls    \* bound: calls of the script

(* The rows and options that parse_header_entry and the row parser know.   *)
PrintedRows == [entry : Words, nonselectable : BOOLEAN]
OptionTypes ==
  [noCustom |-> BOOLEAN, hotKeys |-> BOOLEAN, data |-> Words, urgent |-> SUBSET Nat,
   keepSelection |-> BOOLEAN, keepFilter |-> BOOLEAN, newSelection |-> Int,
   switchMode |-> BOOLEAN]
ASSUME ScriptAssumption ==
  /\ MaxCalls \in Nat /\ {"none", "typed"} \subseteq Words
  /\ \A out \in Outputs :
       /\ out.rows \in Seq(PrintedRows)
       /\ \A name \in DOMAIN out.options :
            name \in DOMAIN OptionTypes /\ out.options[name] \in OptionTypes[name]

VARIABLES
  rowsShown,         \* pd->cmd_list
  noCustom, hotKeys, \* options that stay
  scriptData,        \* pd->data
  keep,              \* keep_selection, keep_filter, new_selection
  urgent,            \* pd->urgent_list: the rows it names
  chosenLine,        \* the view's selected line
  filter,            \* the text of the input is kept
  calls,             \* the calls of the script
  stage              \* "shown", "left" or "switched"

svars == <<rowsShown, noCustom, hotKeys, scriptData, keep, urgent, chosenLine, filter, calls, stage>>

(* Mutant: an option does not stay. *)
OptionUntilNext(out, name, now) ==
  IF name \in DOMAIN out.options THEN out.options[name]
  ELSE IF name \in {"noCustom", "hotKeys"} THEN FALSE ELSE now

(* parse_header_entry, for each option that is printed; the others stay.   *)
Option(out, name, now) == IF name \in DOMAIN out.options THEN out.options[name] ELSE now

(* execute_executor: the call and what its output sets.                    *)
KeepOf(out) == [selection |-> Option(out, "keepSelection", FALSE),
                filter |-> Option(out, "keepFilter", FALSE),
                new |-> Option(out, "newSelection", -1)]
Call(retv, arg, isRow, out) ==
  [retv |-> retv, arg |-> arg, row |-> isRow, data |-> scriptData, out |-> out]
Execute(call) ==
  /\ Len(calls) < MaxCalls /\ calls' = Append(calls, call)
  /\ noCustom' = Option(call.out, "noCustom", noCustom)
  /\ hotKeys' = Option(call.out, "hotKeys", hotKeys)
  /\ scriptData' = Option(call.out, "data", scriptData)
  /\ urgent' = Option(call.out, "urgent", {})
  /\ keep' = KeepOf(call.out)

ScriptInit ==
  /\ \E out \in Outputs :
       /\ calls = <<[retv |-> 0, arg |-> "none", row |-> FALSE, data |-> "none", out |-> out]>>
       /\ rowsShown = out.rows /\ noCustom = Option(out, "noCustom", FALSE)
       /\ hotKeys = Option(out, "hotKeys", FALSE) /\ scriptData = Option(out, "data", "none")
       /\ urgent = Option(out, "urgent", {}) /\ keep = KeepOf(out)
  /\ chosenLine = 0 /\ filter = TRUE /\ stage = "shown"

(* script_mode_result, after the call: another mode, while the list stays, *)
(* another list, or the end.  What to keep is what the list that was shown said; which line is  *)
(* new is what the new one says.                                           *)
Loop(line, out) ==
  IF Option(out, "switchMode", FALSE)
  THEN stage' = "switched" /\ UNCHANGED <<rowsShown, chosenLine, filter>>
  ELSE IF out.rows = <<>> THEN stage' = "left" /\ UNCHANGED <<rowsShown, chosenLine, filter>>
  ELSE /\ rowsShown' = out.rows /\ stage' = stage
       /\ chosenLine' = IF ~keep.selection THEN 0
                        ELSE IF keep'.new \in 0 .. Len(out.rows) - 1 THEN keep'.new
                        ELSE IF line < Len(out.rows) THEN line ELSE Len(out.rows) - 1
       /\ filter' = keep.filter

Row(line) == rowsShown[line + 1]

SelectRow(line, out) ==
  /\ stage = "shown" /\ line \in 0 .. Len(rowsShown) - 1 /\ ~Row(line).nonselectable
  /\ Execute(Call(1, Row(line).entry, TRUE, out)) /\ Loop(line, out)
CustomInput(text, line, out) ==
  /\ stage = "shown" /\ ~noCustom
  /\ Execute(Call(2, text, FALSE, out)) /\ Loop(line, out)
DeleteRow(line, out) ==
  /\ stage = "shown" /\ line \in 0 .. Len(rowsShown) - 1
  /\ Execute(Call(3, Row(line).entry, TRUE, out)) /\ Loop(line, out)
(* The user goes to another mode; the list stays as it is.                 *)
SwitchMode ==
  /\ stage = "shown" /\ stage' = "switched"
  /\ UNCHANGED <<rowsShown, noCustom, hotKeys, scriptData, keep, urgent, chosenLine, filter, calls>>
HotKey(key, line, out) ==
  /\ stage = "shown"
  /\ IF ~hotKeys THEN SwitchMode
     ELSE \/ /\ line \in 0 .. Len(rowsShown) - 1
             /\ Execute(Call(10 + key, Row(line).entry, TRUE, out)) /\ Loop(line, out)
          \/ /\ ~noCustom
             /\ Execute(Call(10 + key, "typed", FALSE, out)) /\ Loop(line, out)
          \/ /\ noCustom /\ urgent' = {}
             /\ UNCHANGED <<rowsShown, noCustom, hotKeys, scriptData, keep, chosenLine, filter,
                            calls, stage>>
Cancel == /\ stage = "shown" /\ stage' = "left"
          /\ UNCHANGED <<rowsShown, noCustom, hotKeys, scriptData, keep, urgent, chosenLine,
                         filter, calls>>
(* The user moves; what comes back is what the view has.                   *)
MoveTo(line) == /\ stage = "shown" /\ line \in 0 .. Len(rowsShown) - 1 /\ chosenLine' = line
                /\ filter' = TRUE
                /\ UNCHANGED <<rowsShown, noCustom, hotKeys, scriptData, keep, urgent, calls, stage>>
(* Back from another mode: what is selected and typed is what the view has. *)
ComeBack(line, kept) ==
  /\ stage = "switched" /\ stage' = "shown" /\ chosenLine' = line /\ filter' = kept
  /\ line \in 0 .. Len(rowsShown) - 1 \/ (rowsShown = <<>> /\ line = 0)
  /\ UNCHANGED <<rowsShown, noCustom, hotKeys, scriptData, keep, urgent, calls>>

ScriptNext ==
  \/ \E out \in Outputs :
       \/ SelectRow(chosenLine, out) \/ DeleteRow(chosenLine, out)
       \/ CustomInput("typed", chosenLine, out) \/ HotKey(1, chosenLine, out)
  \/ Cancel \/ SwitchMode
  \/ \E l \in 0 .. Len(rowsShown) : MoveTo(l) \/ \E kept \in BOOLEAN : ComeBack(l, kept)

ScriptSpec == ScriptInit /\ [][ScriptNext]_svars

ScriptCalls ==
  [retv : 0 .. 28, arg : Words, row : BOOLEAN, data : Words, out : Outputs]
ScriptTypeOK ==
  /\ rowsShown \in Seq(PrintedRows) /\ calls \in Seq(ScriptCalls)
  /\ noCustom \in BOOLEAN /\ hotKeys \in BOOLEAN /\ filter \in BOOLEAN
  /\ scriptData \in Words /\ urgent \subseteq Nat
  /\ keep \in [selection : BOOLEAN, filter : BOOLEAN, new : Int]
  /\ stage \in {"shown", "left", "switched"} /\ chosenLine \in Nat
  /\ (stage = "shown" /\ rowsShown # <<>> => chosenLine \in 0 .. Len(rowsShown) - 1)

(* The last of a set of calls, and what was said last about an option.     *)
LastOf(s) == CHOOSE j \in s : \A k \in s : k <= j
Latest(cs, i, name, default) ==
  LET said == {j \in 1 .. i - 1 : name \in DOMAIN cs[j].out.options}
  IN  IF said = {} THEN default ELSE cs[LastOf(said)].out.options[name]

(* The rows on the screen: a call that sends the user to another mode does *)
(* not change them, except at the start, where that is not done.           *)
Lists(cs, i) == {j \in 1 .. i - 1 : j = 1 \/ ~Option(cs[j].out, "switchMode", FALSE)}
RowsBefore(cs, i) == cs[LastOf(Lists(cs, i))].out.rows

(* The script is called with a text that is none of its rows, or for a     *)
(* key, only if what it printed last about that allows it, on whichever    *)
(* way the user comes there; a row is passed only while it is shown; and   *)
(* what it gets as data is what it printed last itself, however long ago.  *)
CallsAreAllowed ==
  \A i \in 2 .. Len(calls) :
    /\ ~calls[i].row => ~Latest(calls, i, "noCustom", FALSE)
    /\ calls[i].row => calls[i].arg \in {r.entry : r \in ToSet(RowsBefore(calls, i))}
    /\ calls[i].retv >= 10 => Latest(calls, i, "hotKeys", FALSE)
    /\ calls[i].data = Latest(calls, i, "data", "none")

(* What it rests on: the options that stay are those said last, and the    *)
(* rows that are shown are those of the last call that showed any.         *)
OptionsStay ==
  LET next == Len(calls) + 1
  IN  /\ noCustom = Latest(calls, next, "noCustom", FALSE)
      /\ hotKeys = Latest(calls, next, "hotKeys", FALSE)
      /\ scriptData = Latest(calls, next, "data", "none")
RowsAreTheLast ==
  calls # <<>> /\ (stage # "left" => rowsShown = RowsBefore(calls, Len(calls) + 1))
ScriptInv == ScriptTypeOK /\ OptionsStay /\ RowsAreTheLast /\ CallsAreAllowed
=============================================================================
