---------------------------- MODULE HistoryFile ----------------------------
(***************************************************************************)
(* The list of what was launched (history.c).  A line is a count and a     *)
(* name; the file is a sequence of lines, and a file that does not exist   *)
(* reads as the empty one.                                                 *)
(***************************************************************************)
EXTENDS Integers, Sequences, SequencesExt, FiniteSets

CONSTANT MaxHistory      \* config.max_history_size

NamesOf(list) == [i \in DOMAIN list |-> list[i].name]
HasName(list, e) == e \in ToSet(NamesOf(list))
FirstOf(list, e) == CHOOSE i \in DOMAIN list :
                      list[i].name = e /\ \A j \in 1 .. i - 1 : list[j].name # e

(* __element_sort_func with glib's stable sort: the higher count first,    *)
(* and lines of one count as they were.                                    *)
NotBehind(list, i, j) ==
  list[i].count > list[j].count \/ (list[i].count = list[j].count /\ i <= j)
Rank(list, j) == Cardinality({i \in DOMAIN list : NotBehind(list, i, j)})
ByCount(list) ==
  [k \in DOMAIN list |-> list[CHOOSE i \in DOMAIN list : Rank(list, i) = k]]

(* Mutant: the counts are written as they are. *)
WrittenAsCounted(list) ==
  [i \in 1 .. IF Len(list) > MaxHistory THEN MaxHistory ELSE Len(list) |-> ByCount(list)[i]]

(* __history_write_element_list: sorted, the least count of the whole list *)
(* taken from each, and no more than the size allows.                      *)
Written(list) ==
  LET sorted == ByCount(list)
      least == sorted[Len(sorted)].count
      size == IF Len(list) > MaxHistory THEN MaxHistory ELSE Len(list)
  IN  [i \in 1 .. size |-> [sorted[i] EXCEPT !.count = @ - least]]

(* history_set and history_remove: the list they write.                    *)
Recorded(list, e) ==
  IF HasName(list, e) THEN [list EXCEPT ![FirstOf(list, e)].count = @ + 1]
  ELSE Append(list, [count |-> 1, name |-> e])
Forgotten(list, e) ==
  SubSeq([list EXCEPT ![FirstOf(list, e)] = list[Len(list)]], 1, Len(list) - 1)

AfterUse(list, e) == Written(Recorded(list, e))
AfterRemoval(list, e) == IF HasName(list, e) THEN Written(Forgotten(list, e)) ELSE list
=============================================================================
