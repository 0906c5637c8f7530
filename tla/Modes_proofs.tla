----------------------------- MODULE Modes_proofs -----------------------------
(***************************************************************************)
(* Proofs about four modes.  Choosing rows in dmenu mode: the bit map and  *)
(* its count are what the user marked, what is printed is what was chosen, *)
(* and a toggle moves the selection on, for any number of rows and any     *)
(* width of the words.  The combined list: the row that is chosen goes to  *)
(* the mode that showed it, whatever the modes read or removed meanwhile,  *)
(* for any number of modes and rows.  The script: it is called only for    *)
(* what it allowed last, for any outputs and number of calls.  The         *)
(* windows: when no change is under way the view shows those there are,    *)
(* for any windows and any number of changes under way.                    *)
(***************************************************************************)
EXTENDS Combi, Script, DmenuSelect, WindowMode, SequenceLemmas, FiniteSetTheorems

(* Choosing rows in dmenu mode.                                           *)
USE DmenuSelectAssumption

-----------------------------------------------------------------------------
(* Words and bits.                                                         *)

\* A row has one bit of one word, and that bit is of no other row.
LEMMA PlaceOfRow ==
  ASSUME NEW row \in Nat
  PROVE  /\ row \div WordBits \in Nat /\ row % WordBits \in Bits
         /\ row = (row \div WordBits) * WordBits + (row % WordBits)
BY DEF Bits

\* The row of a bit.
LEMMA RowOfPlace ==
  ASSUME NEW w \in Nat, NEW b \in Bits
  PROVE  /\ w * WordBits + b \in Nat
         /\ (w * WordBits + b) \div WordBits = w /\ (w * WordBits + b) % WordBits = b
BY DEF Bits

\* The words for n rows have the bits of these rows.
LEMMA WordsSuffice ==
  ASSUME NEW n \in Nat
  PROVE  /\ WordsOf(n) \in Nat \ {0}
         /\ \A row \in 0 .. n : row \div WordBits \in 0 .. WordsOf(n) - 1
<1>1. n \div WordBits \in Nat
  BY PlaceOfRow
<1>2. \A row \in 0 .. n : row \div WordBits \in Nat /\ row \div WordBits <= n \div WordBits
  OBVIOUS
<1> QED BY <1>1, <1>2 DEF WordsOf

\* Fewer rows do not need more words.
LEMMA WordsGrow ==
  ASSUME NEW m \in Nat, NEW n \in Nat, m <= n
  PROVE  WordsOf(m) <= WordsOf(n)
<1>1. m \div WordBits <= n \div WordBits
  OBVIOUS
<1> QED BY <1>1, PlaceOfRow DEF WordsOf

\* The marked rows are the ones that were toggled.
LEMMA MarkedIsToggled ==
  ASSUME TypeOK, BitsAreMarks
  PROVE  Marked = toggled
<1>1. num_selected \in Nat /\ toggled \subseteq 0 .. num_selected - 1
  BY DEF TypeOK, BitsAreMarks
<1>2. ASSUME NEW row \in 0 .. num_selected - 1
      PROVE  BitGet(words, row) <=> row \in toggled
  <2>1. row \in Nat /\ row \in 0 .. num_selected /\ num_selected > 0
    BY <1>1, <1>2
  <2>2. row \div WordBits \in 0 .. WordsOf(num_selected) - 1
    BY <1>1, <2>1, WordsSuffice
  <2>3. row % WordBits \in Bits /\ row = (row \div WordBits) * WordBits + (row % WordBits)
    BY <2>1, PlaceOfRow
  <2>4. row % WordBits \in words[row \div WordBits]
          <=> (row \div WordBits) * WordBits + (row % WordBits) \in toggled
    BY <2>1, <2>2, <2>3 DEF BitsAreMarks
  <2> QED BY <2>3, <2>4 DEF BitGet
<1> QED BY <1>1, <1>2 DEF Marked

-----------------------------------------------------------------------------
(* The line map and the selection.                                         *)

\* What is known of a filter's rows.
LEMMA AscendingType ==
  ASSUME NEW n \in Nat, NEW s \in Ascending(n)
  PROVE  /\ s \in Seq(0 .. n - 1) /\ Len(s) \in 0 .. n
         /\ \A i, j \in 1 .. Len(s) : i < j => s[i] < s[j]
<1>1. PICK m \in 0 .. n : s \in [1 .. m -> 0 .. n - 1]
  BY DEF Ascending
<1>2. s \in Seq(0 .. n - 1) /\ Len(s) = m
  BY <1>1
<1>3. \A i, j \in DOMAIN s : i < j => s[i] < s[j]
  BY DEF Ascending
<1> QED BY <1>1, <1>2, <1>3

\* The next row is a row, or the row itself.
LEMMA NextPositionType ==
  ASSUME TypeOK, NEW line \in Rows
  PROVE  NextPosition(line) \in Rows
<1>1. line_map \in Seq(Rows) /\ selected \in Nat
  BY DEF TypeOK
<1>2. CASE selected + 1 < Len(line_map)
  <2>1. selected + 2 \in 1 .. Len(line_map)
    BY <1>1, <1>2
  <2>2. line_map[selected + 2] \in Rows
    BY <1>1, <2>1, ElementOfSeq
  <2> QED BY <1>2, <2>2 DEF NextPosition
<1>3. CASE ~ (selected + 1 < Len(line_map))
  BY <1>3 DEF NextPosition
<1> QED BY <1>2, <1>3

\* The row of an action is one of the list, or there is none.
LEMMA CurrentType ==
  ASSUME TypeOK
  PROVE  Current \in Rows \cup {None}
<1>1. line_map \in Seq(Rows) /\ selected \in Nat /\ filtered \in 0 .. Len(line_map)
  BY DEF TypeOK
<1>2. CASE selected < filtered
  <2>1. selected + 1 \in 1 .. Len(line_map)
    BY <1>1, <1>2
  <2>2. line_map[selected + 1] \in Rows
    BY <1>1, <2>1, ElementOfSeq
  <2> QED BY <1>2, <2>2 DEF Current
<1>3. CASE ~ (selected < filtered)
  BY <1>3 DEF Current
<1> QED BY <1>2, <1>3

\* The lines of the requests.
LEMMA RequestType ==
  ASSUME TypeOK, NEW r \in Requests
  PROVE  r.line \in Rows \cup {None}
<1>1. selected_line \in Rows \cup {None} /\ Current \in Rows \cup {None} /\ None \in Rows \cup {None}
  BY CurrentType DEF TypeOK
<1>2. r.line \in {Current, None, selected_line}
  BY DEF Requests
<1> QED BY <1>1, <1>2

\* The selection after a row was looked for is an element that is shown, and
\* the element of that row when there is one.
LEMMA SelectType ==
  ASSUME TypeOK, NEW row, Select(row)
  PROVE  /\ selected' \in 0 .. Len(line_map) - 1
         /\ \A i \in 1 .. filtered :
              (\A j \in 1 .. filtered : line_map[j] = row <=> j = i) => selected' = i - 1
<1>1. filtered \in 0 .. Len(line_map) /\ Len(line_map) \in Nat \ {0}
      /\ selected \in 0 .. Len(line_map) - 1
  BY DEF TypeOK
<1> DEFINE shows == {i \in 1 .. filtered : line_map[i] = row}
<1>2. selected' = IF filtered = 0 THEN selected ELSE IF shows = {} THEN 0 ELSE Min(shows) - 1
  BY DEF Select
<1>3. shows # {} => Min(shows) \in shows
  <2> SUFFICES ASSUME shows # {} PROVE Min(shows) \in shows
    OBVIOUS
  <2>1. \E x \in shows : \A y \in shows : x <= y
    <3>1. shows \subseteq Nat
      BY <1>1
    <3> HIDE DEF shows
    <3> QED BY <3>1, Least
  <2> HIDE DEF shows
  <2> QED BY <2>1 DEF Min
<1>4. selected' \in 0 .. Len(line_map) - 1
  <2>1. CASE filtered = 0
    BY <1>1, <1>2, <2>1
  <2>2. CASE filtered # 0 /\ shows = {}
    BY <1>1, <1>2, <2>2
  <2>3. CASE filtered # 0 /\ shows # {}
    <3>1. Min(shows) \in 1 .. filtered
      BY <1>3, <2>3
    <3>2. selected' = Min(shows) - 1
      BY <1>2, <2>3
    <3> QED BY <1>1, <3>1, <3>2
  <2> QED BY <2>1, <2>2, <2>3
<1>5. ASSUME NEW i \in 1 .. filtered, \A j \in 1 .. filtered : line_map[j] = row <=> j = i
      PROVE  selected' = i - 1
  <2>1. shows = {i}
    BY <1>5
  <2>2. Min(shows) = i
    BY <1>3, <2>1
  <2>3. filtered # 0 /\ shows # {}
    BY <1>1, <1>5, <2>1
  <2> HIDE DEF shows
  <2> QED BY <1>2, <2>2, <2>3
<1> QED BY <1>4, <1>5

-----------------------------------------------------------------------------
(* The bit map.                                                            *)

\* The bit map as the toggle finds it, made larger when the list has grown:
\* the marks and nothing else, in as many words as the list needs.
LEMMA GrownKeepsMarks ==
  ASSUME TypeOK, BitsAreMarks, NEW garbage,
         NEW w, w = IF num_selected # len THEN Grown(garbage) ELSE words
  PROVE  /\ w \in [0 .. WordsOf(len) - 1 -> SUBSET Bits]
         /\ \A i \in 0 .. WordsOf(len) - 1, b \in Bits :
              b \in w[i] <=> i * WordBits + b \in toggled
<1>1. len \in Nat \ {0} /\ num_selected \in 0 .. len /\ num_selected \in Nat
      /\ toggled \subseteq 0 .. num_selected - 1
  BY DEF TypeOK, BitsAreMarks
<1>2. num_selected > 0 => /\ words \in [0 .. WordsOf(num_selected) - 1 -> SUBSET Bits]
                          /\ \A i \in 0 .. WordsOf(num_selected) - 1, b \in Bits :
                               b \in words[i] <=> i * WordBits + b \in toggled
  BY DEF TypeOK, BitsAreMarks
<1>3. CASE num_selected = len
  BY <1>1, <1>2, <1>3
<1>4. CASE num_selected # len
  <2> DEFINE size == IF num_selected = 0 THEN 0 ELSE WordsOf(num_selected)
             top == WordsOf(len)
  <2>1. top \in Nat \ {0} /\ size \in 0 .. top
    BY <1>1, WordsSuffice, WordsGrow
  <2>2. w = [i \in 0 .. top - 1 |->
               IF i \in size .. top - 1 THEN {} ELSE IF i < size THEN words[i] ELSE garbage[i]]
    BY <1>4 DEF Grown
  <2>3. ASSUME NEW i \in 0 .. size - 1
        PROVE  /\ w[i] \in SUBSET Bits
               /\ \A b \in Bits : b \in w[i] <=> i * WordBits + b \in toggled
    <3>1. num_selected > 0 /\ i \in 0 .. WordsOf(num_selected) - 1
      BY <1>1, <2>1, <2>3
    <3>2. size \in Nat /\ top \in Nat /\ i \in Nat /\ i < size /\ i <= top - 1
      BY <2>1, <2>3
    <3>3. w[i] = words[i]
      <4> HIDE DEF size, top
      <4> QED BY <2>2, <3>2
    <3> QED BY <1>2, <3>1, <3>3
  <2>4. ASSUME NEW i \in size .. top - 1
        PROVE  /\ w[i] \in SUBSET Bits
               /\ \A b \in Bits : b \in w[i] <=> i * WordBits + b \in toggled
    <3>1. i \in Nat /\ size \in Nat /\ size <= i
      <4> HIDE DEF size, top
      <4> QED BY <2>1, <2>4
    <3>2. w[i] = {}
      <4>1. i \in 0 .. top - 1
        <5> HIDE DEF size, top
        <5> QED BY <2>1, <2>4
      <4> HIDE DEF size, top
      <4> QED BY <2>2, <2>4, <4>1
    <3>3. ASSUME NEW b \in Bits, i * WordBits + b \in toggled PROVE FALSE
      <4> DEFINE row == i * WordBits + b
      <4>1. row \in 0 .. num_selected - 1 /\ num_selected > 0
        <5>1. row \in toggled
          BY <3>3
        <5> HIDE DEF row
        <5> QED BY <1>1, <5>1
      <4>2. row \div WordBits = i
        BY <3>1, RowOfPlace
      <4>3. row \in 0 .. num_selected
        <5> HIDE DEF row
        <5> QED BY <1>1, <4>1
      <4>4. row \div WordBits \in 0 .. WordsOf(num_selected) - 1
        <5> HIDE DEF row
        <5> QED BY <1>1, <4>3, WordsSuffice
      <4>5. size = WordsOf(num_selected) /\ WordsOf(num_selected) \in Nat
        BY <1>1, <4>1, WordsSuffice
      <4> HIDE DEF row, size
      <4> QED BY <3>1, <4>2, <4>4, <4>5
    <3> QED BY <3>2, <3>3
  <2>5. \A i \in 0 .. top - 1 : i \in 0 .. size - 1 \/ i \in size .. top - 1
    <3> HIDE DEF size, top
    <3> QED BY <2>1
  <2>6. \A i \in 0 .. top - 1 : /\ w[i] \in SUBSET Bits
                                /\ \A b \in Bits : b \in w[i] <=> i * WordBits + b \in toggled
    BY <2>3, <2>4, <2>5
  <2>7. w \in [0 .. top - 1 -> SUBSET Bits]
    <3> HIDE DEF size, top
    <3> QED BY <2>2, <2>6
  <2> QED BY <2>6, <2>7
<1> QED BY <1>3, <1>4

\* A toggle marks a row that was not marked or the other way round, and the
\* count follows.
LEMMA ToggleMarks ==
  ASSUME TypeOK, BitsAreMarks, selected_count = Cardinality(toggled),
         NEW row \in Rows, Toggle(row)
  PROVE  /\ num_selected' = len /\ toggled' \subseteq Rows
         /\ words' \in [0 .. WordsOf(len) - 1 -> SUBSET Bits]
         /\ \A w \in 0 .. WordsOf(len) - 1, b \in Bits :
              b \in words'[w] <=> w * WordBits + b \in toggled'
         /\ selected_count' = Cardinality(toggled') /\ selected_count' \in 0 .. len
<1>1. PICK garbage \in [0 .. WordsOf(len) - 1 -> {{}, Bits}] :
        LET w == IF num_selected # len THEN Grown(garbage) ELSE words
            bit == row % WordBits
            index == row \div WordBits
        IN /\ selected_count' = IF BitGet(w, row) THEN selected_count - 1
                                ELSE selected_count + 1
           /\ words' = [w EXCEPT ![index] = IF bit \in @ THEN @ \ {bit} ELSE @ \cup {bit}]
  BY DEF Toggle
<1> DEFINE w == IF num_selected # len THEN Grown(garbage) ELSE words
           bit == row % WordBits
           index == row \div WordBits
           top == WordsOf(len)
<1>2. len \in Nat \ {0} /\ toggled \subseteq Rows /\ row \in 0 .. len - 1 /\ row \in Nat
  BY DEF TypeOK, Rows
<1>3. w \in [0 .. top - 1 -> SUBSET Bits]
      /\ \A i \in 0 .. top - 1, b \in Bits : b \in w[i] <=> i * WordBits + b \in toggled
  BY GrownKeepsMarks
<1>4. bit \in Bits /\ index \in 0 .. top - 1 /\ index \in Nat /\ row = index * WordBits + bit
  <2>1. row \in 0 .. len
    BY <1>2
  <2> QED BY <1>2, <2>1, PlaceOfRow, WordsSuffice
<1>5. bit \in w[index] <=> row \in toggled
  BY <1>3, <1>4
<1>6. /\ toggled' = IF row \in toggled THEN toggled \ {row} ELSE toggled \cup {row}
      /\ num_selected' = len
  BY DEF Toggle
<1>7. toggled' \subseteq Rows
  BY <1>6 DEF TypeOK
<1>8. words' = [w EXCEPT ![index] = IF bit \in @ THEN @ \ {bit} ELSE @ \cup {bit}]
      /\ selected_count' = IF row \in toggled THEN selected_count - 1 ELSE selected_count + 1
  <2>1. words' = [w EXCEPT ![index] = IF bit \in @ THEN @ \ {bit} ELSE @ \cup {bit}]
        /\ selected_count' = IF bit \in w[index] THEN selected_count - 1 ELSE selected_count + 1
    BY <1>1 DEF BitGet
  <2> HIDE DEF w, bit, index
  <2> QED BY <1>5, <2>1
<1>9. words' \in [0 .. top - 1 -> SUBSET Bits]
  <2> HIDE DEF w, bit, index, top
  <2> QED BY <1>3, <1>4, <1>8
<1>10. ASSUME NEW i \in 0 .. top - 1, NEW b \in Bits
       PROVE  b \in words'[i] <=> i * WordBits + b \in toggled'
  <2>1. i \in Nat
    OBVIOUS
  <2>2. i * WordBits + b = row <=> i = index /\ b = bit
    <3>1. (i * WordBits + b) \div WordBits = i /\ (i * WordBits + b) % WordBits = b
      BY <2>1, RowOfPlace
    <3> HIDE DEF top
    <3> QED BY <1>4, <3>1
  <2>3. b \in w[i] <=> i * WordBits + b \in toggled
    BY <1>3
  <2>4. CASE i = index /\ b = bit
    <3>1. b \in words'[i] <=> ~ (bit \in w[index])
      <4> HIDE DEF w, bit, index, top
      <4> QED BY <1>3, <1>4, <1>8, <2>4
    <3>2. row \in toggled' <=> ~ (row \in toggled)
      BY <1>6
    <3> QED BY <1>5, <2>2, <2>4, <3>1, <3>2
  <2>5. CASE ~ (i = index /\ b = bit)
    <3>1. b \in words'[i] <=> b \in w[i]
      <4> HIDE DEF w, bit, index, top
      <4> QED BY <1>3, <1>4, <1>8, <2>5
    <3>2. i * WordBits + b \in toggled' <=> i * WordBits + b \in toggled
      <4> DEFINE x == i * WordBits + b
      <4>1. x # row
        BY <2>2, <2>5
      <4>2. x \in toggled' <=> x \in toggled
        <5> HIDE DEF x
        <5> QED BY <1>6, <4>1
      <4> QED BY <4>2
    <3> QED BY <2>3, <3>1, <3>2
  <2> QED BY <2>4, <2>5
<1>11. selected_count' = Cardinality(toggled') /\ selected_count' \in 0 .. len
  <2>1. IsFiniteSet(Rows) /\ Cardinality(Rows) = len
    <3>1. IsFiniteSet(0 .. len - 1) /\ Cardinality(0 .. len - 1) = len
      <4>1. 0 \in Int /\ len - 1 \in Int /\ ~ (0 > len - 1) /\ (len - 1) - 0 + 1 = len
        BY <1>2
      <4> DEFINE top1 == len - 1
      <4>2. IsFiniteSet(0 .. top1)
            /\ Cardinality(0 .. top1) = IF 0 > top1 THEN 0 ELSE top1 - 0 + 1
        <5>1. top1 \in Int
          BY <4>1
        <5> HIDE DEF top1
        <5> QED BY <5>1, FS_Interval
      <4> QED BY <4>1, <4>2
    <3> QED BY <3>1, Zenon DEF Rows
  <2>2. IsFiniteSet(toggled) /\ IsFiniteSet(toggled') /\ Cardinality(toggled') <= len
    BY <1>2, <1>7, <2>1, FS_Subset
  <2>3. Cardinality(toggled) \in Nat /\ Cardinality(toggled') \in Nat
    BY <2>2, FS_CardinalityType
  <2>4. CASE row \in toggled
    <3>1. toggled' = toggled \ {row} /\ selected_count' = selected_count - 1
      BY <1>6, <1>8, <2>4
    <3>2. Cardinality(toggled \ {row}) = Cardinality(toggled) - 1
      BY <2>2, <2>4, FS_RemoveElement
    <3>3. selected_count' = Cardinality(toggled')
      BY <3>1, <3>2
    <3> QED BY <1>2, <2>2, <2>3, <3>3
  <2>5. CASE row \notin toggled
    <3>1. toggled' = toggled \cup {row} /\ selected_count' = selected_count + 1
      BY <1>6, <1>8, <2>5
    <3>2. Cardinality(toggled \cup {row}) = Cardinality(toggled) + 1
      BY <2>2, <2>5, FS_AddElement
    <3>3. selected_count' = Cardinality(toggled')
      BY <3>1, <3>2
    <3> QED BY <1>2, <2>2, <2>3, <3>3
  <2> QED BY <2>4, <2>5
<1> QED BY <1>6, <1>7, <1>9, <1>10, <1>11

-----------------------------------------------------------------------------
(* The invariant.                                                          *)

\* What the rows, the selection and the marks have in common.
LEMMA Known ==
  ASSUME TypeOK
  PROVE  /\ mode \in Modes /\ len \in 1 .. MaxRows /\ len \in Nat \ {0} /\ barred \subseteq Rows
         /\ line_map \in Seq(Rows) /\ Len(line_map) \in 1 .. len
         /\ filtered \in 0 .. Len(line_map) /\ selected \in 0 .. Len(line_map) - 1
         /\ selected_line \in Rows \cup {None} /\ num_selected \in 0 .. len
         /\ (num_selected > 0 => words \in [0 .. WordsOf(num_selected) - 1 -> SUBSET Bits])
         /\ selected_count \in 0 .. len /\ toggled \subseteq Rows
         /\ finished \in BOOLEAN /\ printed \subseteq Rows /\ custom \in BOOLEAN
BY DEF TypeOK

\* The list as it is first shown.
LEMMA ChoiceInitInv == Init => IInv
<1> SUFFICES ASSUME Init PROVE IInv
  OBVIOUS
<1>1. len \in 1 .. MaxRows /\ len \in Nat \ {0} /\ mode \in Modes
  BY DEF Init
<1>2. line_map = [i \in 1 .. len |-> i - 1] /\ filtered = len
  BY DEF Init
<1>3. line_map \in Seq(Rows) /\ Len(line_map) = len
  BY <1>1, <1>2 DEF Rows
<1>4. TypeOK
  <2>1. selected = 0 /\ selected_line = 0 /\ 0 \in Rows /\ num_selected = 0 /\ selected_count = 0
    BY <1>1 DEF Init, Rows
  <2>2. barred \subseteq Rows /\ toggled = {} /\ printed = {} /\ finished = FALSE /\ custom = FALSE
    BY DEF Init
  <2>3. Len(line_map) \in 1 .. len /\ filtered \in 0 .. Len(line_map)
        /\ selected \in 0 .. Len(line_map) - 1 /\ num_selected \in 0 .. len
        /\ selected_count \in 0 .. len /\ ~ (num_selected > 0)
    BY <1>1, <1>2, <1>3, <2>1
  <2>4. selected_line \in Rows \cup {None} /\ toggled \subseteq Rows /\ printed \subseteq Rows
        /\ finished \in BOOLEAN /\ custom \in BOOLEAN
    BY <2>1, <2>2
  <2> QED BY <1>1, <1>3, <2>2, <2>3, <2>4 DEF TypeOK
<1>5. ShownAscends
  BY <1>1, <1>2 DEF ShownAscends
<1>6. BitsAreMarks
  BY DEF BitsAreMarks, Init
<1>7. selected_count = Cardinality(toggled)
  BY FS_EmptySet DEF Init
<1> QED BY <1>4, <1>5, <1>6, <1>7 DEF IInv, Init, NothingEarly, PrintsTheChoice

\* The reader adds a row.
LEMMA Append1Inv == IInv /\ Append1 => IInv'
<1> SUFFICES ASSUME IInv, Append1 PROVE IInv'
  OBVIOUS
<1>0. TypeOK
  BY DEF IInv
<1>1. /\ len' = len + 1 /\ len < MaxRows /\ barred' \subseteq barred \cup {len}
      /\ UNCHANGED <<mode, line_map, filtered, selected, selected_line, words, num_selected,
                     selected_count, toggled, finished, printed, custom>>
  BY DEF Append1, bitmap, output
<1>2. len' \in 1 .. MaxRows /\ len \in Rows' /\ \A row \in Rows : row \in Rows'
  <2>1. len \in Nat \ {0} /\ MaxRows \in Nat
    BY <1>0, Known
  <2>2. len' \in 1 .. MaxRows
    BY <1>1, <2>1
  <2>3. Rows = 0 .. len - 1 /\ Rows' = 0 .. len
    BY <1>1, <2>1 DEF Rows
  <2> QED BY <2>1, <2>2, <2>3
<1>3. TypeOK'
  <2>1. line_map' \in Seq(Rows')
    <3>1. line_map \in Seq(Rows)
      BY <1>0, Known
    <3>2. Seq(Rows) \subseteq Seq(Rows')
      BY <1>2
    <3> QED BY <1>1, <3>1, <3>2
  <2>2. Len(line_map') \in 1 .. len' /\ num_selected' \in 0 .. len' /\ selected_count' \in 0 .. len'
    BY <1>0, <1>1, Known
  <2>3. barred' \subseteq Rows' /\ toggled' \subseteq Rows' /\ printed' \subseteq Rows'
        /\ selected_line' \in Rows' \cup {None}
    BY <1>0, <1>1, <1>2, Known
  <2>4. num_selected' > 0 => words' \in [0 .. WordsOf(num_selected') - 1 -> SUBSET Bits]
    BY <1>0, <1>1, Known
  <2>5. mode' \in Modes /\ filtered' \in 0 .. Len(line_map') /\ selected' \in 0 .. Len(line_map') - 1
        /\ finished' \in BOOLEAN /\ custom' \in BOOLEAN
    BY <1>0, <1>1, Known
  <2> QED BY <1>2, <2>1, <2>2, <2>3, <2>4, <2>5 DEF TypeOK
<1>4. ShownAscends' /\ NothingEarly' /\ PrintsTheChoice' /\ selected_count' = Cardinality(toggled')
  BY <1>1 DEF IInv, ShownAscends, NothingEarly, PrintsTheChoice
<1>5. BitsAreMarks'
  BY <1>1 DEF IInv, BitsAreMarks, WordsOf
<1> QED BY <1>3, <1>4, <1>5 DEF IInv

\* The variables of the list after a step that leaves the rows and the marks.
LEMMA FilterInv == IInv /\ Filter => IInv'
<1> SUFFICES ASSUME IInv, Filter PROVE IInv'
  OBVIOUS
<1>0. TypeOK
  BY DEF IInv
<1>1. UNCHANGED <<mode, len, barred, selected_line, words, num_selected, selected_count, toggled,
                  finished, printed, custom>>
  BY DEF Filter, bitmap, output
<1>2. PICK old, matched :
        /\ old = line_map \/ old = [i \in 1 .. len |-> 0]
        /\ matched \in Ascending(Len(old))
        /\ line_map' = matched \o SubSeq(old, Len(matched) + 1, Len(old))
        /\ filtered' = Len(matched)
        /\ selected' = IF matched # <<>> /\ selected >= Len(matched)
                       THEN Len(matched) - 1 ELSE selected
  BY DEF Filter
<1>3. /\ old \in Seq(Rows) /\ Len(old) \in 1 .. len /\ Len(old) \in Nat
      /\ selected \in 0 .. Len(old) - 1
  <2>1. CASE old = line_map
    BY <1>0, <2>1, Known
  <2>2. CASE old = [i \in 1 .. len |-> 0]
    <3>1. 0 \in Rows
      BY <1>0, Known DEF Rows
    <3>2. old \in Seq(Rows) /\ Len(old) = len
      BY <1>0, <2>2, <3>1, Known
    <3> QED BY <1>0, <3>2, Known
  <2> QED BY <1>2, <2>1, <2>2
<1>4. /\ matched \in Seq(0 .. Len(old) - 1) /\ Len(matched) \in 0 .. Len(old)
      /\ \A i, j \in 1 .. Len(matched) : i < j => matched[i] < matched[j]
  BY <1>2, <1>3, AscendingType
<1>5. matched \in Seq(Rows)
  <2>1. 0 .. Len(old) - 1 \subseteq Rows
    BY <1>0, <1>3, Known DEF Rows
  <2> QED BY <1>4, <2>1
<1> DEFINE n == Len(old)
           m == Len(matched)
           rest == SubSeq(old, m + 1, n)
<1>6. n \in 1 .. len /\ n \in Nat /\ m \in 0 .. n
  BY <1>3, <1>4
<1>7. rest \in Seq(Rows) /\ Len(rest) = n - m
  <2>1. CASE m = n
    <3>1. rest = <<>>
      BY <1>3, <1>6, <2>1
    <3>2. n - m = 0
      <4> HIDE DEF n, m
      <4> QED BY <1>6, <2>1
    <3> QED BY <3>1, <3>2
  <2>2. CASE m # n
    <3>1. m + 1 \in 1 .. n /\ m + 1 \in Nat
      <4> HIDE DEF n, m
      <4> QED BY <1>6, <2>2
    <3> QED BY <1>3, <1>6, <3>1
  <2> QED BY <2>1, <2>2
<1>8. line_map' \in Seq(Rows) /\ Len(line_map') = n
      /\ \A i \in 1 .. m : line_map'[i] = matched[i]
  <2>1. line_map' = matched \o rest
    BY <1>2
  <2>2. Len(line_map') = m + (n - m)
    <3> HIDE DEF rest
    <3> QED BY <1>5, <1>7, <2>1
  <2>3. m + (n - m) = n
    <3> HIDE DEF n, m
    <3> QED BY <1>6
  <2> HIDE DEF rest
  <2> QED BY <1>5, <1>7, <2>1, <2>2, <2>3
<1>9. ShownAscends'
  BY <1>2, <1>4, <1>8 DEF ShownAscends
<1>10. TypeOK'
  <2>1. Rows' = Rows /\ len' = len
    BY <1>1 DEF Rows
  <2>2. Len(line_map') \in 1 .. len /\ filtered' \in 0 .. Len(line_map')
    BY <1>2, <1>6, <1>8
  <2>3. selected' \in 0 .. Len(line_map') - 1
    <3>1. matched # <<>> => m # 0
      BY <1>5, EmptySeq
    <3>2. selected' = IF matched # <<>> /\ selected >= m THEN m - 1 ELSE selected
      BY <1>2
    <3>3. selected \in 0 .. n - 1
      BY <1>3
    <3>4. selected' \in 0 .. n - 1
      <4> HIDE DEF n, m
      <4> QED BY <1>6, <3>1, <3>2, <3>3
    <3> QED BY <1>8, <3>4
  <2>4. line_map' \in Seq(Rows')
    BY <1>8, <2>1
  <2>5. num_selected' > 0 => words' \in [0 .. WordsOf(num_selected') - 1 -> SUBSET Bits]
    BY <1>0, <1>1, Known
  <2> QED BY <1>0, <1>1, <2>1, <2>2, <2>3, <2>4, <2>5, Known DEF TypeOK
<1>11. BitsAreMarks'
  BY <1>1 DEF IInv, BitsAreMarks, WordsOf
<1> QED BY <1>1, <1>9, <1>10, <1>11 DEF IInv, NothingEarly, PrintsTheChoice

\* The user moves.
LEMMA MoveInv == IInv /\ Move => IInv'
<1> SUFFICES ASSUME IInv, Move PROVE IInv'
  OBVIOUS
<1>1. /\ selected' \in 0 .. filtered - 1
      /\ UNCHANGED <<mode, len, barred, line_map, filtered, selected_line, words, num_selected,
                     selected_count, toggled, finished, printed, custom>>
  BY DEF Move, view, bitmap, output
<1>2. TypeOK /\ filtered \in 0 .. Len(line_map) /\ Len(line_map) \in Nat
  BY DEF IInv, TypeOK
<1>3. selected' \in 0 .. Len(line_map) - 1
  BY <1>1, <1>2
<1>4. TypeOK'
  BY <1>1, <1>2, <1>3 DEF TypeOK, Rows, WordsOf
<1> QED BY <1>1, <1>4 DEF IInv, ShownAscends, BitsAreMarks, WordsOf, NothingEarly, PrintsTheChoice

\* A row is marked or unmarked, and the next one is selected.
LEMMA ToggleInv ==
  ASSUME IInv, ~finished, NEW row \in Rows, Toggle(row)
  PROVE  IInv'
<1>0. TypeOK /\ BitsAreMarks /\ selected_count = Cardinality(toggled)
  BY DEF IInv
<1>1. UNCHANGED <<mode, len, barred, line_map, filtered, finished, printed, custom>>
  BY DEF Toggle, view, output
<1>2. /\ num_selected' = len /\ toggled' \subseteq Rows
      /\ words' \in [0 .. WordsOf(len) - 1 -> SUBSET Bits]
      /\ \A w \in 0 .. WordsOf(len) - 1, b \in Bits :
           b \in words'[w] <=> w * WordBits + b \in toggled'
      /\ selected_count' = Cardinality(toggled') /\ selected_count' \in 0 .. len
  BY <1>0, ToggleMarks
<1> DEFINE next == Min({NextPosition(row), len - 1})
<1>3. next \in Rows
  <2>1. NextPosition(row) \in Rows /\ len - 1 \in Rows
    <3>1. NextPosition(row) \in Rows
      BY <1>0, NextPositionType
    <3>2. len - 1 \in Rows
      BY <1>0, Known DEF Rows
    <3> QED BY <3>1, <3>2
  <2>2. {NextPosition(row), len - 1} \subseteq Nat /\ {NextPosition(row), len - 1} # {}
    BY <1>0, <2>1, Known DEF Rows
  <2>3. next \in {NextPosition(row), len - 1}
    BY <2>2, Least DEF Min
  <2> QED BY <2>1, <2>3
<1>4. Select(next)
  BY DEF Toggle
<1>5. selected_line' \in Rows /\ selected' \in 0 .. Len(line_map) - 1
  <2> HIDE DEF next
  <2> QED BY <1>0, <1>3, <1>4, SelectType DEF Select
<1>6. TypeOK'
  <2>1. Rows' = Rows /\ num_selected' \in 0 .. len
    BY <1>0, <1>1, <1>2, Known DEF Rows
  <2>2. num_selected' > 0 => words' \in [0 .. WordsOf(num_selected') - 1 -> SUBSET Bits]
    BY <1>2 DEF WordsOf
  <2> QED BY <1>0, <1>1, <1>2, <1>5, <2>1, <2>2, Known DEF TypeOK
<1>7. BitsAreMarks'
  BY <1>2 DEF BitsAreMarks, Rows, WordsOf
<1>8. ShownAscends' /\ NothingEarly' /\ PrintsTheChoice'
  BY <1>1 DEF IInv, ShownAscends, NothingEarly, PrintsTheChoice
<1> QED BY <1>2, <1>6, <1>7, <1>8 DEF IInv

\* The list stays as it is and nothing is printed.
LEMMA StayInv ==
  ASSUME IInv, ~finished, NEW line \in Rows \cup {None}, Stay(line)
  PROVE  IInv'
<1>1. /\ selected_line' = line
      /\ UNCHANGED <<mode, len, barred, line_map, filtered, selected, words, num_selected,
                     selected_count, toggled, finished, printed, custom>>
  BY DEF Stay, view, bitmap, output
<1>2. TypeOK'
  BY <1>1 DEF IInv, TypeOK, Rows, WordsOf
<1> QED BY <1>1, <1>2 DEF IInv, ShownAscends, BitsAreMarks, WordsOf, NothingEarly, PrintsTheChoice

\* Another row is looked for.
LEMMA RestartInv ==
  ASSUME IInv, ~finished, NEW row \in Rows \cup {None}, Restart(row)
  PROVE  IInv'
<1>1. /\ Select(row) /\ selected_line' = row
      /\ UNCHANGED <<mode, len, barred, line_map, filtered, words, num_selected,
                     selected_count, toggled, finished, printed, custom>>
  BY DEF Restart, Select, view, bitmap, output
<1>2. selected' \in 0 .. Len(line_map) - 1
  BY <1>1, SelectType DEF IInv
<1>3. TypeOK'
  BY <1>1, <1>2 DEF IInv, TypeOK, Rows, WordsOf
<1> QED BY <1>1, <1>3 DEF IInv, ShownAscends, BitsAreMarks, WordsOf, NothingEarly, PrintsTheChoice

\* The user leaves, and nothing is printed.
LEMMA LeaveInv ==
  ASSUME IInv, ~finished, NEW line \in Rows \cup {None}, Leave(line)
  PROVE  IInv'
<1>1. /\ selected_line' = line /\ finished' = TRUE
      /\ UNCHANGED <<mode, len, barred, line_map, filtered, selected, words, num_selected,
                     selected_count, toggled, printed, custom>>
  BY DEF Leave, Finish, view, bitmap
<1>2. TypeOK'
  BY <1>1 DEF IInv, TypeOK, Rows, WordsOf
<1>3. printed' = {}
  BY <1>1 DEF IInv, NothingEarly
<1> QED
  BY <1>1, <1>2, <1>3 DEF IInv, ShownAscends, BitsAreMarks, WordsOf, NothingEarly, PrintsTheChoice

\* The marked rows are printed, or the row of the action.
LEMMA PrintInv ==
  ASSUME IInv, ~finished, NEW line \in Rows \cup {None}, PrintAndLeave(line)
  PROVE  IInv'
<1>0. TypeOK /\ Marked = toggled /\ toggled \subseteq Rows
  BY MarkedIsToggled DEF IInv, TypeOK
<1>1. /\ selected_line' = line /\ finished' = TRUE
      /\ UNCHANGED <<mode, len, barred, line_map, filtered, selected, words, num_selected,
                     selected_count, toggled>>
  BY DEF PrintAndLeave, Finish, view, bitmap
<1>2. printed' = (IF toggled # {} THEN toggled ELSE {line} \ {None})
  BY <1>0, Zenon DEF PrintAndLeave, PrintResults
<1>3. custom' = (printed' = {})
  BY DEF PrintAndLeave, PrintResults
<1>4. custom' \in BOOLEAN
  BY <1>3, Zenon
<1>5. TypeOK'
  <2>1. printed' \subseteq Rows
    BY <1>0, <1>2
  <2> QED BY <1>0, <1>1, <1>4, <2>1 DEF TypeOK, Rows, WordsOf
<1>6. PrintsTheChoice'
  <2>1. CASE toggled # {}
    BY <1>1, <1>2, <2>1 DEF PrintsTheChoice
  <2>2. CASE toggled = {} /\ line = None
    BY <1>2, <2>2 DEF PrintsTheChoice
  <2>3. CASE toggled = {} /\ line # None
    BY <1>1, <1>2, <2>3 DEF PrintsTheChoice
  <2> QED BY <2>1, <2>2, <2>3
<1> QED BY <1>1, <1>5, <1>6 DEF IInv, ShownAscends, BitsAreMarks, WordsOf, NothingEarly

\* What an action of the view leads to.
Outcome(line) ==
  \/ line \in Rows /\ Toggle(line)
  \/ Stay(line) \/ Leave(line) \/ PrintAndLeave(line)
  \/ \E row \in Rows \cup {None} : Restart(row)

\* dmenu_finalize toggles a row, prints, leaves, stays, or looks for a row.
LEMMA FinalizeOutcome ==
  ASSUME TypeOK, Finalize
  PROVE  ~finished /\ \E line \in Rows \cup {None} : Outcome(line)
<1>1. PICK r \in Requests : IF OnlySelected THEN FinalizeSelected(r.line, r.retv)
                            ELSE FinalizeAny(r.line, r.retv)
  BY DEF Finalize
<1>2. r.line \in Rows \cup {None}
  BY RequestType
<1> DEFINE line == r.line
           retv == r.retv
<1>3. CASE ~OnlySelected
  <2>1. FinalizeAny(line, retv)
    BY <1>1, <1>3
  <2>2. line \in Rows \cup {None}
    BY <1>2
  <2>3. \/ line # None /\ Toggle(line)
        \/ Stay(line) \/ Leave(line) \/ PrintAndLeave(line)
    <3> HIDE DEF line, retv
    <3> QED BY <2>1, ZenonT(30) DEF FinalizeAny
  <2>4. Outcome(line)
    <3> HIDE DEF line
    <3> QED BY <2>2, <2>3 DEF Outcome
  <2> HIDE DEF line
  <2> QED BY <2>2, <2>4 DEF Finalize
<1>4. CASE OnlySelected
  <2>1. FinalizeSelected(line, retv)
    BY <1>1, <1>4
  <2>2. line \in Rows => NextPosition(line) - 1 \in Rows \cup {None}
    <3> HAVE line \in Rows
    <3>1. NextPosition(line) \in Rows
      BY NextPositionType
    <3>2. \A row \in Rows : row - 1 \in Rows \cup {None}
      BY Known DEF Rows, None
    <3> QED BY <3>1, <3>2
  <2>3. line \in Rows \cup {None}
    BY <1>2
  <2>4. \/ line # None /\ Toggle(line)
        \/ Stay(line) \/ Leave(line) \/ PrintAndLeave(line)
        \/ Restart(line)
        \/ line # None /\ Restart(NextPosition(line) - 1)
    <3> HIDE DEF line, retv
    <3> QED BY <2>1, ZenonT(30) DEF FinalizeSelected
  <2>5. Outcome(line)
    <3> HIDE DEF line
    <3> QED BY <2>2, <2>3, <2>4 DEF Outcome
  <2> HIDE DEF line
  <2> QED BY <2>3, <2>5 DEF Finalize
<1> QED BY <1>3, <1>4 DEF Finalize

\* Every step keeps the invariant.
LEMMA ChoiceNextInv == IInv /\ [Next]_vars => IInv'
<1> SUFFICES ASSUME IInv, [Next]_vars PROVE IInv'
  OBVIOUS
<1>1. CASE Append1
  BY <1>1, Append1Inv
<1>2. CASE Filter
  BY <1>2, FilterInv
<1>3. CASE Move
  BY <1>3, MoveInv
<1>4. CASE Finalize
  <2>1. ~finished /\ TypeOK
    BY <1>4 DEF Finalize, IInv
  <2>2. PICK line \in Rows \cup {None} : Outcome(line)
    BY <1>4, <2>1, FinalizeOutcome
  <2> QED BY <2>1, <2>2, ToggleInv, StayInv, LeaveInv, PrintInv, RestartInv DEF Outcome
<1>5. CASE UNCHANGED vars
  <2>1. UNCHANGED <<mode, len, barred, line_map, filtered, selected, selected_line, words,
                    num_selected, selected_count, toggled, finished, printed, custom>>
    BY <1>5 DEF vars
  <2>2. TypeOK'
    BY <2>1 DEF IInv, TypeOK, Rows, WordsOf
  <2> QED
    BY <2>1, <2>2 DEF IInv, ShownAscends, BitsAreMarks, WordsOf, NothingEarly, PrintsTheChoice
<1> QED BY <1>1, <1>2, <1>3, <1>4, <1>5 DEF Next

\* The invariant holds in every state.
LEMMA ChoiceInvariance == Spec => []IInv
BY ChoiceInitInv, ChoiceNextInv, PTL DEF Spec

-----------------------------------------------------------------------------
\* The variables of dmenu's selection have their types.
THEOREM TypeCorrect == Spec => []TypeOK
<1>1. IInv => TypeOK
  BY DEF IInv
<1> QED BY <1>1, ChoiceInvariance, PTL

\* The bits of selected_list, and their count in the overlay, are what the user
\* marked, however often the list grew between two marks.
THEOREM MarksCorrect == Spec => []MarksAreKept
<1>1. IInv => MarksAreKept
  BY MarkedIsToggled DEF IInv, MarksAreKept
<1> QED BY <1>1, ChoiceInvariance, PTL

\* dmenu_print_results prints the marked rows, or else the row that was chosen.
THEOREM ChoicePrinted == Spec => []PrintsTheChoice
<1>1. IInv => PrintsTheChoice
  BY DEF IInv
<1> QED BY <1>1, ChoiceInvariance, PTL

\* A toggle selects the row below in the list that is shown.
LEMMA ToggleMovesOn ==
  ASSUME IInv, NEW row \in Rows, Toggle(row), selected + 1 < filtered
  PROVE  selected' = selected + 1
<1>1. TypeOK /\ ShownAscends
  BY DEF IInv
<1>2. /\ selected \in Nat /\ filtered \in 0 .. Len(line_map) /\ Len(line_map) \in Nat
      /\ line_map \in Seq(Rows) /\ len \in Nat \ {0}
  BY <1>1, Known
<1>3. selected + 2 \in 1 .. filtered /\ selected + 2 \in 1 .. Len(line_map)
      /\ selected + 1 < Len(line_map)
  BY <1>2
<1> DEFINE next == line_map[selected + 2]
<1>4. next \in Rows /\ NextPosition(row) = next
  BY <1>2, <1>3, ElementOfSeq DEF NextPosition
<1>5. Min({next, len - 1}) = next
  <2>1. next \in Nat /\ next <= len - 1
    <3> HIDE DEF next
    <3> QED BY <1>2, <1>4 DEF Rows
  <2> HIDE DEF next
  <2> QED BY <1>2, <2>1 DEF Min
<1>6. Select(next)
  BY <1>4, <1>5 DEF Toggle
<1>7. \A j \in 1 .. filtered : line_map[j] = next <=> j = selected + 2
  <2> SUFFICES ASSUME NEW j \in 1 .. filtered, line_map[j] = next PROVE j = selected + 2
    BY <1>3
  <2>1. line_map[j] \in Nat /\ next \in Nat
    BY <1>4 DEF Rows
  <2>2. j < selected + 2 => line_map[j] < next
    BY <1>1, <1>3 DEF ShownAscends
  <2>3. selected + 2 < j => next < line_map[j]
    BY <1>1, <1>3 DEF ShownAscends
  <2> HIDE DEF next
  <2> QED BY <1>2, <2>1, <2>2, <2>3
<1>8. selected' = (selected + 2) - 1
  <2> HIDE DEF next
  <2> QED BY <1>1, <1>3, <1>6, <1>7, SelectType
<1> QED BY <1>2, <1>8

\* A step that marks or unmarks a row selects the row that is shown below it.
THEOREM ToggleCorrect == Spec => ToggleAdvances
<1>1. IInv /\ [Next]_vars => [ToggleStep]_vars
  <2> SUFFICES ASSUME IInv, Next, toggled' # toggled, selected + 1 < filtered
               PROVE  selected' = selected + 1
    BY DEF ToggleStep
  <2>1. Finalize
    BY DEF Next, Append1, Filter, Move, bitmap
  <2>2. TypeOK
    BY DEF IInv
  <2>3. PICK line \in Rows \cup {None} : Outcome(line)
    BY <2>1, <2>2, FinalizeOutcome
  <2>4. line \in Rows /\ Toggle(line)
    BY <2>3 DEF Outcome, Stay, Leave, PrintAndLeave, Restart, Finish, bitmap
  <2> QED BY <2>4, ToggleMovesOn
<1> QED BY <1>1, ChoiceInvariance, PTL DEF Spec, ToggleAdvances

-----------------------------------------------------------------------------
(* The combined list.                                                      *)
HIDE DmenuSelectAssumption
USE CombiAssumption

-----------------------------------------------------------------------------
(* Where the rows of a mode start.                                         *)

Counts == [Switchers -> 0 .. MaxOfMode]
Before(r, i) == {b \in (1 .. i - 1) \X (1 .. MaxOfMode) : b[2] <= r[b[1]]}

\* How many numbers there are up to n.
LEMMA UpTo ==
  ASSUME NEW n \in Nat
  PROVE  IsFiniteSet(1 .. n) /\ Cardinality(1 .. n) = n
<1>1. 1 \in Int /\ n \in Int
  OBVIOUS
<1>2. IsFiniteSet(1 .. n) /\ Cardinality(1 .. n) = IF 1 > n THEN 0 ELSE n - 1 + 1
  BY <1>1, FS_Interval
<1> QED BY <1>2

\* The rows before those of a mode are finitely many, no more than all rows.
LEMMA BeforeFinite ==
  ASSUME NEW r \in Counts, NEW i \in Switchers
  PROVE  /\ IsFiniteSet(Before(r, i)) /\ Cardinality(Before(r, i)) \in Nat
         /\ Cardinality(Before(r, i)) <= NumModes * MaxOfMode
<1> DEFINE S == 1 .. NumModes
           T == 1 .. MaxOfMode
<1>1. IsFiniteSet(S) /\ Cardinality(S) = NumModes /\ IsFiniteSet(T) /\ Cardinality(T) = MaxOfMode
  BY UpTo
<1>2. IsFiniteSet(S \X T) /\ Cardinality(S \X T) = NumModes * MaxOfMode
  <2> HIDE DEF S, T
  <2> QED BY <1>1, FS_Product
<1>3. Before(r, i) \in SUBSET (S \X T)
  BY DEF Before, Switchers
<1>4. IsFiniteSet(Before(r, i)) /\ Cardinality(Before(r, i)) <= NumModes * MaxOfMode
  <2> HIDE DEF S, T
  <2> QED BY <1>2, <1>3, FS_Subset
<1> QED BY <1>4, FS_CardinalityType

\* StartsOf counts those rows.
LEMMA StartsAre ==
  ASSUME NEW r \in Counts
  PROVE  /\ StartsOf(r) \in [Switchers -> 0 .. NumModes * MaxOfMode]
         /\ \A i \in Switchers : StartsOf(r)[i] = Cardinality(Before(r, i))
<1>1. \A i \in Switchers : StartsOf(r)[i] = Cardinality(Before(r, i))
  BY DEF StartsOf, Before
<1>2. \A i \in Switchers : Cardinality(Before(r, i)) \in 0 .. NumModes * MaxOfMode
  <2> TAKE i \in Switchers
  <2> DEFINE c == Cardinality(Before(r, i))
             all == NumModes * MaxOfMode
  <2>1. c \in Nat /\ c <= all /\ all \in Nat
    BY BeforeFinite
  <2> HIDE DEF c, all
  <2> QED BY <2>1 DEF c, all
<1>3. DOMAIN StartsOf(r) = Switchers /\ StartsOf(r) = [i \in Switchers |-> StartsOf(r)[i]]
  BY DEF StartsOf
<1> DEFINE f == StartsOf(r)
           all == NumModes * MaxOfMode
<1> HIDE DEF f, all
<1> QED BY <1>1, <1>2, <1>3 DEF f, all

\* A mode starts behind the rows of each mode before it.
LEMMA StartsBehind ==
  ASSUME NEW r \in Counts, NEW i \in Switchers, NEW m \in Switchers, m < i
  PROVE  StartsOf(r)[m] + r[m] <= StartsOf(r)[i]
<1> DEFINE rows == {m} \X (1 .. r[m])
           here == Before(r, m) \cup rows
<1>1. r[m] \in 0 .. MaxOfMode /\ r[m] \in Nat /\ MaxOfMode \in Nat /\ i \in Nat /\ m \in Nat
  BY DEF Counts, Switchers
<1>2. IsFiniteSet(rows) /\ Cardinality(rows) = r[m]
  <2>1. IsFiniteSet({m}) /\ Cardinality({m}) = 1
    BY FS_Singleton
  <2>2. IsFiniteSet(1 .. r[m]) /\ Cardinality(1 .. r[m]) = r[m]
    BY <1>1, UpTo
  <2>3. IsFiniteSet(rows) /\ Cardinality(rows) = 1 * r[m]
    <3> DEFINE T == 1 .. r[m]
    <3> HIDE DEF T
    <3>1. IsFiniteSet({m} \X T) /\ Cardinality({m} \X T) = Cardinality({m}) * Cardinality(T)
      BY <2>1, <2>2, FS_Product DEF T
    <3>2. Cardinality(T) = r[m]
      BY <2>2 DEF T
    <3> QED BY <2>1, <3>1, <3>2 DEF T
  <2> QED BY <1>1, <2>3
<1>3. Before(r, m) \cap rows = {}
  BY <1>1 DEF Before
<1>4. IsFiniteSet(Before(r, m)) /\ Cardinality(Before(r, m)) \in Nat
      /\ IsFiniteSet(Before(r, i)) /\ Cardinality(Before(r, i)) \in Nat
  BY BeforeFinite
<1>5. Cardinality(here) = Cardinality(Before(r, m)) + Cardinality(rows)
  <2> DEFINE B == Before(r, m)
  <2>1. IsFiniteSet(B) /\ IsFiniteSet(rows) /\ B \cap rows = {} /\ here = B \cup rows
    BY <1>2, <1>3, <1>4
  <2>2. Cardinality(B \cup rows) = Cardinality(B) + Cardinality(rows) - Cardinality(B \cap rows)
    <3> HIDE DEF B, rows
    <3> QED BY <2>1, FS_Union
  <2>3. Cardinality(B \cap rows) = 0
    <3> HIDE DEF B, rows
    <3> QED BY <2>1, FS_EmptySet
  <2>4. Cardinality(B) \in Nat /\ Cardinality(rows) \in Nat
    BY <1>1, <1>2, <1>4
  <2> HIDE DEF B, rows, here
  <2> QED BY <2>1, <2>2, <2>3, <2>4 DEF B
<1>6. here \in SUBSET Before(r, i)
  BY <1>1 DEF Before, Switchers
<1>7. Cardinality(here) <= Cardinality(Before(r, i))
  <2> HIDE DEF here
  <2> QED BY <1>4, <1>6, FS_Subset
<1>8. StartsOf(r)[m] = Cardinality(Before(r, m)) /\ StartsOf(r)[i] = Cardinality(Before(r, i))
  BY StartsAre
<1> HIDE DEF here, rows
<1> QED BY <1>1, <1>2, <1>4, <1>5, <1>7, <1>8

-----------------------------------------------------------------------------
(* The row and its mode.                                                   *)

\* A row is of one mode at most.
LEMMA OneOwner ==
  ASSUME CountedInv, NEW line \in Int, NEW i \in Owner(line), NEW m \in Owner(line)
  PROVE  i = m
<1>1. lengths \in Counts /\ starts = StartsOf(lengths)
  BY DEF CountedInv, Counts
<1>2. i \in Switchers /\ m \in Switchers
      /\ line >= starts[i] /\ line < starts[i] + lengths[i]
      /\ line >= starts[m] /\ line < starts[m] + lengths[m]
  BY DEF Owner
<1>3. i \in Int /\ m \in Int
  BY <1>2 DEF Switchers
<1>4. i < m => starts[i] + lengths[i] <= starts[m]
  BY <1>1, <1>2, StartsBehind
<1>5. m < i => starts[m] + lengths[m] <= starts[i]
  BY <1>1, <1>2, StartsBehind
<1>6. starts[i] \in Int /\ starts[m] \in Int /\ lengths[i] \in Int /\ lengths[m] \in Int
  <2>1. starts \in [Switchers -> 0 .. NumModes * MaxOfMode]
    BY <1>1, StartsAre
  <2>2. \A x \in 0 .. NumModes * MaxOfMode : x \in Int
    OBVIOUS
  <2> QED BY <1>1, <1>2, <2>1, <2>2 DEF Counts
<1> QED BY <1>2, <1>3, <1>4, <1>5, <1>6

\* The first of a set of modes is one of them.
LEMMA FirstOfModes ==
  ASSUME NEW s, s \subseteq Switchers, s # {}
  PROVE  (CHOOSE i \in s : \A j \in s : i <= j) \in s
<1>1. s \subseteq Nat
  BY DEF Switchers
<1>2. \E i \in s : \A j \in s : i <= j
  BY <1>1, Least
<1> QED BY <1>2

\* The mode that is asked is the one that shows the row, or the "!" names
\* several and both are among them.
LEMMA AskedFacts ==
  ASSUME CombiTypeOK, CountedInv, NEW line \in Lines
  PROVE  /\ Asked(line) \in Switchers
         /\ \E i \in Switchers :
              /\ Owner(line) = {i} /\ line >= starts[i] /\ line < starts[i] + lengths[i]
              /\ \/ Asked(line) = i
                 \/ /\ bang # "none" /\ Cardinality(Names[bang]) > 1
                    /\ i \in Names[bang] /\ Asked(line) \in Names[bang]
<1> DEFINE First(s) == CHOOSE i \in s : \A j \in s : i <= j
<1>1. line \in Int /\ \E i \in Owner(line) \ disabled : TRUE
  <2>1. \A x \in 0 .. NumModes * MaxOfMode : x \in Int
    OBVIOUS
  <2> QED BY <2>1 DEF Lines, CombiMatch
<1>2. PICK i \in Switchers : i \in Owner(line) /\ i \notin disabled
  BY <1>1 DEF Owner
<1>3. Owner(line) = {i}
  BY <1>1, <1>2, OneOwner
<1>4. line >= starts[i] /\ line < starts[i] + lengths[i]
  BY <1>2 DEF Owner
<1>5. Asked(line) = IF bang # "none" /\ Names[bang] # {} THEN First(Names[bang])
                    ELSE First(Owner(line))
  BY DEF Asked
<1>6. First({i}) = i
  <2>1. {i} \subseteq Switchers /\ {i} # {}
    BY <1>2
  <2> QED BY <2>1, FirstOfModes
<1>7. CASE bang # "none" /\ Names[bang] # {}
  <2> DEFINE named == Names[bang]
             a == First(named)
  <2>1. named \subseteq Switchers /\ i \in named
    BY <1>2, <1>7 DEF CombiTypeOK, CountedInv, Switchers
  <2>2. a \in named
    <3> HIDE DEF named
    <3> QED BY <1>7, <2>1, FirstOfModes
  <2>3. a # i => Cardinality(named) > 1
    <3> SUFFICES ASSUME a # i PROVE Cardinality(named) > 1
      OBVIOUS
    <3>1. IsFiniteSet(1 .. NumModes)
      BY UpTo
    <3>2. IsFiniteSet(named)
      <4> HIDE DEF named
      <4> QED BY <2>1, <3>1, FS_Subset DEF Switchers
    <3>3. IsFiniteSet({i}) /\ Cardinality({i}) = 1
      BY FS_Singleton
    <3>4. Cardinality({i} \cup {a}) = 2
      <4>1. a \notin {i}
        OBVIOUS
      <4> DEFINE s == {i}
      <4>2. Cardinality(s \cup {a}) = Cardinality(s) + 1
        <5>1. IsFiniteSet(s) /\ a \notin s
          BY <3>3, <4>1
        <5> HIDE DEF a, s
        <5> QED BY <5>1, FS_AddElement
      <4> HIDE DEF a
      <4> QED BY <3>3, <4>2
    <3>5. Cardinality({i} \cup {a}) <= Cardinality(named)
      <4>1. ({i} \cup {a}) \in SUBSET named
        <5> HIDE DEF a, named
        <5> QED BY <2>1, <2>2
      <4> HIDE DEF a, named
      <4> QED BY <3>2, <4>1, FS_Subset
    <3>6. Cardinality(named) \in Nat
      <4> HIDE DEF named
      <4> QED BY <3>2, FS_CardinalityType
    <3> HIDE DEF named, a
    <3> QED BY <3>4, <3>5, <3>6
  <2>4. Asked(line) = a
    BY <1>5, <1>7
  <2>5. a \in Switchers
    BY <2>1, <2>2
  <2> HIDE DEF a
  <2> QED BY <1>2, <1>3, <1>4, <1>7, <2>1, <2>2, <2>3, <2>4, <2>5
<1>8. CASE ~ (bang # "none" /\ Names[bang] # {})
  <2>1. Asked(line) = i
    BY <1>3, <1>5, <1>6, <1>8
  <2> HIDE DEF First
  <2> QED BY <1>2, <1>3, <1>4, <2>1
<1> QED BY <1>7, <1>8

\* A result goes to the mode that shows the row, for a row it has.
LEMMA ResultInv ==
  ASSUME CombiInv, NEW line, NEW removes \in BOOLEAN, Result(line, removes)
  PROVE  CombiInv'
<1>0. CombiTypeOK /\ CountedInv /\ counted /\ line \in Lines
  BY DEF CombiInv, Result
<1> DEFINE a == Asked(line)
<1>1. a \in Switchers
  BY <1>0, AskedFacts
<1>2. PICK i \in Switchers :
        /\ Owner(line) = {i} /\ line >= starts[i] /\ line < starts[i] + lengths[i]
        /\ \/ a = i
           \/ /\ bang # "none" /\ Cardinality(Names[bang]) > 1
              /\ i \in Names[bang] /\ a \in Names[bang]
  BY <1>0, AskedFacts
<1>3. /\ asked' = [mode |-> a, row |-> line - starts[a], bang |-> bang,
                   owner |-> Owner(line), shown |-> lengths[a],
                   has |-> rowsOf[a], lost |-> a \in lost]
      /\ UNCHANGED <<starts, lengths, bang, disabled>>
  BY DEF Result
<1> HIDE DEF a
<1>4. /\ asked'.mode = a /\ asked'.row = line - starts[a] /\ asked'.bang = bang
      /\ asked'.owner = {i} /\ asked'.shown = lengths[a] /\ asked'.has = rowsOf[a]
      /\ asked'.lost = (a \in lost)
  BY <1>2, <1>3
<1>5. IF removes /\ asked'.row \in 0 .. rowsOf[a] - 1
      THEN /\ rowsOf' = [rowsOf EXCEPT ![a] = @ - 1]
           /\ lost' = lost \cup {a} /\ counted' = FALSE
      ELSE UNCHANGED <<rowsOf, counted, lost>>
  BY <1>4 DEF Result
<1>6. RowReachesItsMode'
  <2>1. CASE a = i
    <3>1. /\ starts[i] \in Int /\ lengths[i] \in Nat /\ rowsOf[i] \in Nat /\ line \in Int
          /\ rowsOf[i] >= lengths[i] \/ i \in lost
      <4>1. lengths[i] \in Nat /\ rowsOf[i] \in Nat /\ (rowsOf[i] >= lengths[i] \/ i \in lost)
        BY <1>0 DEF CombiTypeOK, CountedInv
      <4>2. starts \in [Switchers -> 0 .. NumModes * MaxOfMode] /\ line \in 0 .. NumModes * MaxOfMode
        BY <1>0 DEF CombiTypeOK, Lines
      <4>3. \A x \in 0 .. NumModes * MaxOfMode : x \in Int
        OBVIOUS
      <4> QED BY <4>1, <4>2, <4>3
    <3>2. /\ line - starts[i] \in 0 .. lengths[i] - 1
          /\ line - starts[i] < rowsOf[i] \/ i \in lost
      BY <1>2, <3>1
    <3> QED BY <1>4, <2>1, <3>2 DEF RowReachesItsMode
  <2>2. CASE a # i
    BY <1>2, <1>4, <2>2 DEF RowReachesItsMode
  <2> QED BY <2>1, <2>2
<1>7. CASE removes /\ asked'.row \in 0 .. rowsOf[a] - 1
  <2>1. /\ rowsOf' = [rowsOf EXCEPT ![a] = @ - 1]
        /\ lost' = lost \cup {a} /\ counted' = FALSE
    BY <1>5, <1>7
  <2>2. rowsOf[a] \in 0 .. MaxOfMode /\ rowsOf[a] - 1 \in 0 .. MaxOfMode
    <3>1. rowsOf[a] \in 0 .. MaxOfMode
      BY <1>0, <1>1 DEF CombiTypeOK
    <3> DEFINE x == rowsOf[a]
    <3>2. \E y : y \in 0 .. x - 1
      BY <1>7
    <3>3. x - 1 \in 0 .. MaxOfMode
      <4> HIDE DEF x
      <4> QED BY <3>1, <3>2 DEF x
    <3> QED BY <3>1, <3>3
  <2>3. rowsOf' \in [Switchers -> 0 .. MaxOfMode]
    BY <1>0, <1>1, <2>1, <2>2 DEF CombiTypeOK
  <2>4. CombiTypeOK'
    BY <1>0, <1>1, <1>3, <2>1, <2>3 DEF CombiTypeOK
  <2>5. CountedInv'
    <3>1. ASSUME NEW m \in Switchers \ lost' PROVE rowsOf'[m] >= lengths'[m]
      BY <1>0, <1>1, <1>3, <2>1, <3>1 DEF CombiTypeOK, CountedInv
    <3> QED BY <1>0, <1>3, <3>1 DEF CountedInv
  <2> QED BY <1>6, <2>4, <2>5 DEF CombiInv
<1>8. CASE ~ (removes /\ asked'.row \in 0 .. rowsOf[a] - 1)
  <2>1. UNCHANGED <<rowsOf, counted, lost>>
    BY <1>5, <1>8
  <2>2. CombiTypeOK' /\ CountedInv'
    BY <1>0, <1>3, <2>1 DEF CombiTypeOK, CountedInv
  <2> QED BY <1>6, <2>2 DEF CombiInv
<1> QED BY <1>7, <1>8

\* The first state.
LEMMA CombiInitInv == CombiInit => CombiInv
<1> SUFFICES ASSUME CombiInit PROVE CombiInv
  OBVIOUS
<1>1. rowsOf \in Counts /\ starts = StartsOf(rowsOf) /\ lengths = rowsOf
  BY DEF CombiInit, Counts
<1>2. starts \in [Switchers -> 0 .. NumModes * MaxOfMode]
  BY <1>1, StartsAre
<1>3. CombiTypeOK
  BY <1>1, <1>2 DEF CombiTypeOK, CombiInit, Counts
<1>4. CountedInv
  <2>1. \A i \in Switchers : rowsOf[i] >= lengths[i]
    BY <1>1 DEF Counts
  <2> QED BY <1>1, <2>1 DEF CountedInv, CombiInit, Counts
<1>5. RowReachesItsMode
  BY DEF CombiInit, RowReachesItsMode, Nobody
<1> QED BY <1>3, <1>4, <1>5 DEF CombiInv

\* Every step keeps the invariant.
LEMMA CombiNextInv == CombiInv /\ [CombiNext]_cvars => CombiInv'
<1> SUFFICES ASSUME CombiInv, [CombiNext]_cvars PROVE CombiInv'
  OBVIOUS
<1>0. CombiTypeOK /\ CountedInv /\ RowReachesItsMode
  BY DEF CombiInv
<1>1. CASE GetNumEntries
  <2>1. /\ starts' = StartsOf(rowsOf) /\ lengths' = rowsOf /\ counted' = TRUE
        /\ lost' = {} /\ asked' = Nobody /\ UNCHANGED <<rowsOf, bang, disabled>>
    BY <1>1 DEF GetNumEntries
  <2>2. rowsOf \in Counts
    BY <1>0 DEF CombiTypeOK, Counts
  <2>3. starts' \in [Switchers -> 0 .. NumModes * MaxOfMode]
    BY <2>1, <2>2, StartsAre
  <2>4. CombiTypeOK'
    BY <1>0, <2>1, <2>2, <2>3 DEF CombiTypeOK, Counts
  <2>5. \A i \in Switchers : rowsOf'[i] >= lengths'[i]
    BY <2>1, <2>2 DEF Counts
  <2>6. CountedInv'
    BY <1>0, <2>1, <2>2, <2>5 DEF CountedInv, Counts
  <2>7. RowReachesItsMode'
    BY <2>1 DEF RowReachesItsMode, Nobody
  <2> QED BY <2>4, <2>6, <2>7 DEF CombiInv
<1>2. ASSUME NEW i \in Switchers, Grow(i) PROVE CombiInv'
  <2>1. /\ rowsOf[i] < MaxOfMode /\ rowsOf' = [rowsOf EXCEPT ![i] = @ + 1]
        /\ asked' = Nobody /\ UNCHANGED <<starts, lengths, bang, disabled, counted, lost>>
    BY <1>2 DEF Grow
  <2>2. rowsOf \in [Switchers -> 0 .. MaxOfMode] /\ lengths \in [Switchers -> 0 .. MaxOfMode]
    BY <1>0 DEF CombiTypeOK
  <2>3. rowsOf' \in [Switchers -> 0 .. MaxOfMode]
    BY <2>1, <2>2
  <2>4. CombiTypeOK'
    BY <1>0, <2>1, <2>3 DEF CombiTypeOK
  <2>5. ASSUME NEW m \in Switchers \ lost PROVE rowsOf'[m] >= lengths[m]
    <3>1. rowsOf[m] >= lengths[m] /\ rowsOf[m] \in Nat /\ lengths[m] \in Nat
      BY <1>0, <2>2, <2>5 DEF CountedInv
    <3>2. rowsOf'[m] = rowsOf[m] \/ rowsOf'[m] = rowsOf[m] + 1
      BY <2>1, <2>2
    <3> QED BY <3>1, <3>2
  <2>6. CountedInv'
    BY <1>0, <2>1, <2>5 DEF CountedInv
  <2>7. RowReachesItsMode'
    BY <2>1 DEF RowReachesItsMode, Nobody
  <2> QED BY <2>4, <2>6, <2>7 DEF CombiInv
<1>3. ASSUME NEW i \in Switchers, Shrink(i) PROVE CombiInv'
  <2>1. /\ rowsOf[i] > 0 /\ rowsOf' = [rowsOf EXCEPT ![i] = @ - 1] /\ lost' = lost \cup {i}
        /\ asked' = Nobody /\ UNCHANGED <<starts, lengths, bang, disabled, counted>>
    BY <1>3 DEF Shrink
  <2>2. rowsOf \in [Switchers -> 0 .. MaxOfMode]
    BY <1>0 DEF CombiTypeOK
  <2>3. rowsOf' \in [Switchers -> 0 .. MaxOfMode]
    BY <2>1, <2>2
  <2>4. CombiTypeOK'
    BY <1>0, <2>1, <2>3 DEF CombiTypeOK
  <2>5. ASSUME NEW m \in Switchers \ lost' PROVE rowsOf'[m] >= lengths'[m]
    BY <1>0, <2>1, <2>2, <2>5 DEF CountedInv
  <2>6. CountedInv'
    BY <1>0, <2>1, <2>5 DEF CountedInv
  <2>7. RowReachesItsMode'
    BY <2>1 DEF RowReachesItsMode, Nobody
  <2> QED BY <2>4, <2>6, <2>7 DEF CombiInv
<1>4. ASSUME NEW b \in DOMAIN Names \cup {"none"}, PreprocessInput(b) PROVE CombiInv'
  <2>1. /\ bang' = b /\ disabled' = IF b = "none" THEN {} ELSE Switchers \ Names[b]
    BY <1>4 DEF PreprocessInput
  <2>2. asked' = Nobody /\ UNCHANGED <<rowsOf, starts, lengths, counted, lost>>
    BY <1>4 DEF PreprocessInput
  <2>3. disabled' \subseteq Switchers
    BY <2>1
  <2>4. CombiTypeOK'
    BY <1>0, <2>1, <2>2, <2>3 DEF CombiTypeOK
  <2>5. CountedInv'
    BY <1>0, <2>1, <2>2 DEF CountedInv
  <2>6. RowReachesItsMode'
    BY <2>2 DEF RowReachesItsMode, Nobody
  <2> QED BY <2>4, <2>5, <2>6 DEF CombiInv
<1>5. CASE UNCHANGED cvars
  BY <1>0, <1>5 DEF cvars, CombiInv, CombiTypeOK, CountedInv, RowReachesItsMode
<1> QED BY <1>1, <1>2, <1>3, <1>4, <1>5, ResultInv DEF CombiNext

\* The invariant holds in every state.
LEMMA CombiInvariance == CombiSpec => []CombiInv
BY CombiInitInv, CombiNextInv, PTL DEF CombiSpec

-----------------------------------------------------------------------------
\* The variables of the combined list have their types.
THEOREM CombiTypeCorrect == CombiSpec => []CombiTypeOK
<1>1. CombiInv => CombiTypeOK
  BY DEF CombiInv
<1> QED BY <1>1, CombiInvariance, PTL

\* combi_mode_result: the chosen row goes to the mode that showed it, for the
\* row it was counted with, whatever the other modes read, lost or removed
\* since; the mode still has it unless it lost a row itself.  Or a "!" with
\* several modes was typed.
THEOREM RowsReachTheirMode == CombiSpec => []RowReachesItsMode
<1>1. CombiInv => RowReachesItsMode
  BY DEF CombiInv
<1> QED BY <1>1, CombiInvariance, PTL

-----------------------------------------------------------------------------
(* The script.                                                             *)
HIDE CombiAssumption
USE ScriptAssumption

(* The option said last.                                                   *)

Said(cs, i, name) == {j \in 1 .. i - 1 : name \in DOMAIN cs[j].out.options}

\* A set of numbers up to n has a greatest one.
LEMMA Greatest ==
  ASSUME NEW n \in Nat, NEW s, s \subseteq 1 .. n, s # {}
  PROVE  LastOf(s) \in s /\ \A k \in s : k <= LastOf(s)
<1> DEFINE t == {n - j : j \in s}
<1>1. t \subseteq Nat /\ t # {}
  OBVIOUS
<1>2. PICK x \in t : \A y \in t : x <= y
  BY <1>1, Least
<1>3. PICK j \in s : x = n - j
  BY <1>2
<1>4. \A k \in s : k <= j
  <2> TAKE k \in s
  <2>1. n - k \in t
    OBVIOUS
  <2>2. x <= n - k
    BY <1>2, <2>1
  <2>3. k \in Int /\ j \in Int
    OBVIOUS
  <2> QED BY <1>3, <2>2, <2>3
<1>5. \E m \in s : \A k \in s : k <= m
  BY <1>4
<1> QED BY <1>5 DEF LastOf

\* The greatest one is the only one.
LEMMA GreatestIs ==
  ASSUME NEW n \in Nat, NEW s, s \subseteq 1 .. n, NEW x \in s, \A k \in s : k <= x
  PROVE  LastOf(s) = x
<1>1. LastOf(s) \in s /\ \A k \in s : k <= LastOf(s)
  BY Greatest
<1> DEFINE y == LastOf(s)
<1>2. y \in Int /\ x \in Int /\ y <= x /\ x <= y
  <2>1. \A k \in s : k \in Int
    OBVIOUS
  <2> QED BY <1>1, <2>1
<1> HIDE DEF y
<1> QED BY <1>2 DEF y

\* What was said last, by the calls that said it.
LEMMA LatestIs ==
  ASSUME NEW cs, NEW i, NEW name, NEW default
  PROVE  Latest(cs, i, name, default) =
           IF Said(cs, i, name) = {} THEN default
           ELSE cs[LastOf(Said(cs, i, name))].out.options[name]
BY DEF Latest, Said

\* Before the first call nothing was said.
LEMMA LatestFirst ==
  ASSUME NEW cs, NEW name, NEW default
  PROVE  Latest(cs, 1, name, default) = default
<1>1. Said(cs, 1, name) = {}
  BY DEF Said
<1> QED BY <1>1, LatestIs

\* A new call does not change what was said before it.
LEMMA LatestBefore ==
  ASSUME NEW cs \in Seq(ScriptCalls), NEW c \in ScriptCalls, NEW i \in 1 .. Len(cs) + 1,
         NEW name, NEW default
  PROVE  Latest(Append(cs, c), i, name, default) = Latest(cs, i, name, default)
<1> DEFINE ds == Append(cs, c)
           s == Said(cs, i, name)
<1>0. Len(cs) \in Nat /\ i \in Nat /\ i - 1 \in Nat
  OBVIOUS
<1>1. \A j \in 1 .. i - 1 : ds[j] = cs[j]
  <2> TAKE j \in 1 .. i - 1
  <2>1. j \in 1 .. Len(cs)
    BY <1>0
  <2> QED BY <2>1, AppendProperties
<1> HIDE DEF ds
<1>2. Said(ds, i, name) = s
  BY <1>1 DEF Said
<1>3. CASE s = {}
  BY <1>2, <1>3, LatestIs DEF ds
<1>4. CASE s # {}
  <2>1. s \subseteq 1 .. i - 1
    BY DEF Said
  <2>2. LastOf(s) \in 1 .. i - 1
    <3> HIDE DEF s
    <3> QED BY <1>0, <1>4, <2>1, Greatest
  <2>3. ds[LastOf(s)] = cs[LastOf(s)]
    BY <1>1, <2>2
  <2> QED BY <1>2, <1>4, <2>3, LatestIs DEF ds
<1> QED BY <1>3, <1>4

\* What was said last after a new call: what it said, else what was before.
LEMMA LatestAfter ==
  ASSUME NEW cs \in Seq(ScriptCalls), NEW c \in ScriptCalls, NEW name, NEW default
  PROVE  Latest(Append(cs, c), Len(cs) + 2, name, default) =
           Option(c.out, name, Latest(cs, Len(cs) + 1, name, default))
<1> DEFINE ds == Append(cs, c)
           n == Len(cs)
           s == Said(ds, n + 2, name)
<1>0. n \in Nat /\ ds[n + 1] = c /\ \A j \in 1 .. n : ds[j] = cs[j]
  BY AppendProperties
<1> HIDE DEF ds, n
<1>1. s \subseteq 1 .. n + 1 /\ n + 1 \in Nat /\ n + 2 - 1 = n + 1
  BY <1>0 DEF Said
<1>2. CASE name \in DOMAIN c.out.options
  <2>1. n + 1 \in s
    BY <1>0, <1>1, <1>2 DEF Said
  <2>2. \A k \in s : k <= n + 1
    BY <1>0, <1>1
  <2>3. LastOf(s) = n + 1
    <3> HIDE DEF s
    <3> QED BY <1>0, <1>1, <2>1, <2>2, GreatestIs
  <2>4. Latest(ds, n + 2, name, default) = c.out.options[name]
    <3>1. s # {}
      BY <2>1
    <3> QED BY <1>0, <2>3, <3>1, LatestIs
  <2> QED BY <1>2, <2>4 DEF Option, ds, n
<1>3. CASE name \notin DOMAIN c.out.options
  <2>1. s = Said(ds, n + 1, name)
    <3>1. \A j \in 1 .. n + 1 : j # n + 1 => j \in 1 .. n
      BY <1>0
    <3>2. n + 1 - 1 = n
      BY <1>0
    <3>3. \A j \in 1 .. n : j \in 1 .. n + 1
      BY <1>0
    <3> QED BY <1>0, <1>1, <1>3, <3>1, <3>2, <3>3 DEF Said
  <2>2. Latest(ds, n + 2, name, default) = Latest(ds, n + 1, name, default)
    BY <2>1, LatestIs
  <2>3. Latest(ds, n + 1, name, default) = Latest(cs, n + 1, name, default)
    <3>1. n + 1 \in 1 .. Len(cs) + 1
      BY <1>0 DEF n
    <3> QED BY <3>1, LatestBefore DEF ds
  <2> QED BY <1>3, <2>2, <2>3 DEF Option, ds, n
<1> QED BY <1>2, <1>3

\* A new call does not change which rows were shown before it.
LEMMA RowsBeforeBefore ==
  ASSUME NEW cs \in Seq(ScriptCalls), NEW c \in ScriptCalls, NEW i \in 2 .. Len(cs) + 1
  PROVE  RowsBefore(Append(cs, c), i) = RowsBefore(cs, i)
<1> DEFINE ds == Append(cs, c)
           s == Lists(cs, i)
<1>0. Len(cs) \in Nat /\ i \in Nat /\ i - 1 \in Nat
  OBVIOUS
<1>1. \A j \in 1 .. i - 1 : ds[j] = cs[j]
  <2> TAKE j \in 1 .. i - 1
  <2>1. j \in 1 .. Len(cs)
    BY <1>0
  <2> QED BY <2>1, AppendProperties
<1> HIDE DEF ds
<1>2. Lists(ds, i) = s
  BY <1>1 DEF Lists
<1>3. 1 \in s /\ s \subseteq 1 .. i - 1
  <2>1. 1 \in 1 .. i - 1
    BY <1>0
  <2>2. s = {j \in 1 .. i - 1 : j = 1 \/ ~ Option(cs[j].out, "switchMode", FALSE)}
    BY Zenon DEF Lists
  <2> HIDE DEF s
  <2> QED BY <2>1, <2>2, Zenon
<1>4. LastOf(s) \in 1 .. i - 1
  <2>1. s # {}
    BY <1>3
  <2> HIDE DEF s
  <2> QED BY <1>0, <1>3, <2>1, Greatest
<1>5. ds[LastOf(s)] = cs[LastOf(s)]
  BY <1>1, <1>4
<1> QED BY <1>2, <1>5 DEF RowsBefore, ds

\* The rows that are shown after a new call: its own, or those from before if it
\* sends the user to another mode.
LEMMA RowsBeforeAfter ==
  ASSUME NEW cs \in Seq(ScriptCalls), NEW c \in ScriptCalls, cs # <<>>
  PROVE  RowsBefore(Append(cs, c), Len(cs) + 2) =
           IF Option(c.out, "switchMode", FALSE) THEN RowsBefore(cs, Len(cs) + 1) ELSE c.out.rows
<1> DEFINE ds == Append(cs, c)
           n == Len(cs)
           s == Lists(ds, n + 2)
<1>0. n \in Nat /\ n >= 1 /\ ds[n + 1] = c
  <2>1. n \in Nat /\ n # 0
    BY EmptySeq
  <2>2. ds[n + 1] = c
    BY AppendProperties
  <2> HIDE DEF n
  <2> QED BY <2>1, <2>2
<1>1. RowsBefore(ds, n + 1) = RowsBefore(cs, n + 1)
  <2>1. n + 1 \in 2 .. Len(cs) + 1
    BY <1>0
  <2> QED BY <2>1, RowsBeforeBefore
<1> HIDE DEF ds, n
<1>2. n + 1 \in Nat /\ n + 2 - 1 = n + 1 /\ n + 1 - 1 = n /\ n + 1 \in 1 .. n + 1
  BY <1>0
<1> DEFINE Shows(j) == j = 1 \/ ~ Option(ds[j].out, "switchMode", FALSE)
<1>2a. \A j : j \in s <=> j \in 1 .. n + 1 /\ Shows(j)
  <2>1. \A j : j \in s <=> j \in 1 .. (n + 2) - 1 /\ Shows(j)
    BY Zenon DEF Lists
  <2> HIDE DEF Shows, s
  <2> QED BY <1>0, <1>2, <2>1
<1>2b. \A j : j \in Lists(ds, n + 1) <=> j \in 1 .. n /\ Shows(j)
  <2>1. \A j : j \in Lists(ds, n + 1) <=> j \in 1 .. (n + 1) - 1 /\ Shows(j)
    BY Zenon DEF Lists
  <2> HIDE DEF Shows, s
  <2> QED BY <1>0, <1>2, <2>1
<1>2c. s \subseteq 1 .. n + 1
  BY <1>2a, Zenon
<1> HIDE DEF s
<1>3. CASE ~ Option(c.out, "switchMode", FALSE)
  <2>1. n + 1 \in s
    BY <1>0, <1>2, <1>2a, <1>3, Zenon
  <2>2. \A k \in s : k <= n + 1
    BY <1>0, <1>2c
  <2>3. LastOf(s) = n + 1
    BY <1>0, <1>2, <1>2c, <2>1, <2>2, GreatestIs
  <2>4. RowsBefore(ds, n + 2) = c.out.rows
    BY <1>0, <2>3 DEF RowsBefore, s
  <2> QED BY <1>3, <2>4 DEF ds, n
<1>4. CASE Option(c.out, "switchMode", FALSE)
  <2>1. s = Lists(ds, n + 1)
    <3>1. \A j \in 1 .. n + 1 : j # n + 1 => j \in 1 .. n
      BY <1>0
    <3>2. \A j \in 1 .. n : j \in 1 .. n + 1
      BY <1>0
    <3>3. n + 1 # 1
      BY <1>0
    <3>4. ~ (n + 1 = 1 \/ ~ Option(ds[n + 1].out, "switchMode", FALSE))
      BY <1>0, <1>4, <3>3, Zenon
    <3>5. s \subseteq Lists(ds, n + 1)
      BY <1>2a, <1>2b, <3>1, <3>4, Zenon
    <3>6. Lists(ds, n + 1) \subseteq s
      BY <1>2a, <1>2b, <3>2, Zenon
    <3> QED BY <3>5, <3>6
  <2>2. RowsBefore(ds, n + 2) = RowsBefore(ds, n + 1)
    BY <2>1 DEF RowsBefore, s
  <2> QED BY <1>1, <1>4, <2>2 DEF ds, n
<1> QED BY <1>3, <1>4

-----------------------------------------------------------------------------
(* The script.                                                             *)

\* What a call prints sets an option to a value of its type.
LEMMA OptionType ==
  ASSUME NEW out \in Outputs, NEW name \in DOMAIN OptionTypes, NEW now \in OptionTypes[name]
  PROVE  Option(out, name, now) \in OptionTypes[name]
BY DEF Option, ScriptAssumption

\* The same for each option.
LEMMA OptionTypesAre ==
  ASSUME NEW out \in Outputs
  PROVE  /\ \A b \in BOOLEAN : /\ Option(out, "noCustom", b) \in BOOLEAN
                               /\ Option(out, "hotKeys", b) \in BOOLEAN
                               /\ Option(out, "keepSelection", b) \in BOOLEAN
                               /\ Option(out, "keepFilter", b) \in BOOLEAN
         /\ \A d \in Words : Option(out, "data", d) \in Words
         /\ \A u \in SUBSET Nat : Option(out, "urgent", u) \in SUBSET Nat
         /\ \A n \in Int : Option(out, "newSelection", n) \in Int
<1>1. /\ {"noCustom", "hotKeys", "keepSelection", "keepFilter", "data", "urgent",
          "newSelection"} \subseteq DOMAIN OptionTypes
      /\ OptionTypes["noCustom"] = BOOLEAN /\ OptionTypes["hotKeys"] = BOOLEAN
      /\ OptionTypes["keepSelection"] = BOOLEAN /\ OptionTypes["keepFilter"] = BOOLEAN
      /\ OptionTypes["data"] = Words /\ OptionTypes["urgent"] = SUBSET Nat
      /\ OptionTypes["newSelection"] = Int
  BY DEF OptionTypes
<1>2. \A name \in DOMAIN OptionTypes : \A now \in OptionTypes[name] :
         Option(out, name, now) \in OptionTypes[name]
  BY OptionType
<1> QED BY <1>1, <1>2, ZenonT(60)

\* Of every output: its rows are a sequence.
LEMMA RowsType == \A out \in Outputs : out.rows \in Seq(PrintedRows)
BY DEF ScriptAssumption

\* What is kept has its type.
LEMMA KeepType ==
  ASSUME NEW out \in Outputs
  PROVE  KeepOf(out) \in [selection : BOOLEAN, filter : BOOLEAN, new : Int]
<1>1. FALSE \in BOOLEAN /\ -1 \in Int
  OBVIOUS
<1>2. /\ Option(out, "keepSelection", FALSE) \in BOOLEAN
      /\ Option(out, "keepFilter", FALSE) \in BOOLEAN
  BY <1>1, OptionTypesAre, Zenon
<1>3. Option(out, "newSelection", -1) \in Int
  BY <1>1, OptionTypesAre
<1> QED BY <1>2, <1>3 DEF KeepOf

\* The calls with a new one are as allowed if the new one is.
LEMMA AllowedAppend ==
  ASSUME ScriptInv, stage # "left", NEW c \in ScriptCalls, calls' = Append(calls, c),
         ~ c.row => ~ noCustom,
         c.row => c.arg \in {r.entry : r \in ToSet(rowsShown)},
         c.retv >= 10 => hotKeys,
         c.data = scriptData
  PROVE  CallsAreAllowed'
<1> DEFINE n == Len(calls)
<1>0. /\ calls \in Seq(ScriptCalls) /\ n \in Nat /\ n >= 1 /\ Len(calls') = n + 1
      /\ calls'[n + 1] = c /\ \A j \in 1 .. n : calls'[j] = calls[j]
  <2>1. calls \in Seq(ScriptCalls) /\ calls # <<>>
    BY DEF ScriptInv, ScriptTypeOK, RowsAreTheLast
  <2> QED BY <2>1, AppendProperties, EmptySeq
<1>1. \A i \in 1 .. n + 1 : \A name, default :
         Latest(calls', i, name, default) = Latest(calls, i, name, default)
  BY <1>0, LatestBefore
<1>5. \A i \in 2 .. n + 1 : RowsBefore(calls', i) = RowsBefore(calls, i)
  BY <1>0, RowsBeforeBefore
<1>2. /\ noCustom = Latest(calls, n + 1, "noCustom", FALSE)
      /\ hotKeys = Latest(calls, n + 1, "hotKeys", FALSE)
      /\ scriptData = Latest(calls, n + 1, "data", "none")
      /\ rowsShown = RowsBefore(calls, n + 1)
  BY DEF ScriptInv, OptionsStay, RowsAreTheLast
<1> SUFFICES ASSUME NEW i \in 2 .. n + 1
             PROVE  /\ ~ calls'[i].row => ~ Latest(calls', i, "noCustom", FALSE)
                    /\ calls'[i].row =>
                         calls'[i].arg \in {r.entry : r \in ToSet(RowsBefore(calls', i))}
                    /\ calls'[i].retv >= 10 => Latest(calls', i, "hotKeys", FALSE)
                    /\ calls'[i].data = Latest(calls', i, "data", "none")
  BY <1>0 DEF CallsAreAllowed
<1>3. CASE i = n + 1
  <2>1. i \in 1 .. n + 1
    BY <1>0, <1>3
  <2>2. calls'[i] = c
    BY <1>0, <1>3
  <2> HIDE DEF n
  <2>3. /\ Latest(calls', i, "noCustom", FALSE) = noCustom
        /\ Latest(calls', i, "hotKeys", FALSE) = hotKeys
        /\ Latest(calls', i, "data", "none") = scriptData
    BY <1>1, <1>2, <1>3, <2>1, Zenon
  <2>4. RowsBefore(calls', i) = rowsShown
    BY <1>2, <1>5, <1>3, Zenon
  <2> QED BY <2>2, <2>3, <2>4
<1>4. CASE i # n + 1
  <2>1. i \in 2 .. n /\ i \in 1 .. n /\ i \in 1 .. n + 1
    BY <1>0, <1>4
  <2>2. calls'[i] = calls[i]
    BY <1>0, <2>1
  <2>3. /\ ~ calls[i].row => ~ Latest(calls, i, "noCustom", FALSE)
        /\ calls[i].row => calls[i].arg \in {r.entry : r \in ToSet(RowsBefore(calls, i))}
        /\ calls[i].retv >= 10 => Latest(calls, i, "hotKeys", FALSE)
        /\ calls[i].data = Latest(calls, i, "data", "none")
    BY <2>1 DEF ScriptInv, CallsAreAllowed
  <2> HIDE DEF n
  <2>4. \A name, default : Latest(calls', i, name, default) = Latest(calls, i, name, default)
    BY <1>1, <2>1, Zenon
  <2>5. RowsBefore(calls', i) = RowsBefore(calls, i)
    BY <1>5, Zenon
  <2> QED BY <2>2, <2>3, <2>4, <2>5
<1> QED BY <1>3, <1>4

\* A call that what the script printed last allows keeps the invariant.
LEMMA CallInv ==
  ASSUME ScriptInv, stage = "shown",
         NEW retv \in 0 .. 28, NEW arg \in Words, NEW isRow \in BOOLEAN, NEW out \in Outputs,
         Execute(Call(retv, arg, isRow, out)), Loop(chosenLine, out),
         ~ isRow => ~ noCustom,
         isRow => arg \in {r.entry : r \in ToSet(rowsShown)},
         retv >= 10 => hotKeys
  PROVE  ScriptInv'
<1> DEFINE c == Call(retv, arg, isRow, out)
<1>0. ScriptTypeOK /\ OptionsStay /\ RowsAreTheLast
  BY DEF ScriptInv
<1>2. c \in ScriptCalls
  BY <1>0 DEF Call, ScriptTypeOK, ScriptCalls
<1>3. /\ c.retv = retv /\ c.arg = arg /\ c.row = isRow /\ c.data = scriptData /\ c.out = out
  BY DEF Call
<1>4. calls' = Append(calls, c)
  BY DEF Execute
<1> HIDE DEF c
<1>5. CallsAreAllowed'
  BY <1>2, <1>3, <1>4, AllowedAppend
<1>6. calls \in Seq(ScriptCalls) /\ Len(calls) \in Nat
  BY <1>0 DEF ScriptTypeOK
<1>7. calls' \in Seq(ScriptCalls) /\ Len(calls') = Len(calls) + 1 /\ calls' # <<>>
  <2>1. calls' \in Seq(ScriptCalls) /\ Len(calls') = Len(calls) + 1
    BY <1>2, <1>4, <1>6, AppendProperties
  <2>2. Len(calls') # 0
    BY <1>6, <2>1
  <2> QED BY <2>1, <2>2, EmptySeq
<1>8. OptionsStay'
  <2>1. \A name, default :
           Latest(calls', Len(calls') + 1, name, default) =
             Option(out, name, Latest(calls, Len(calls) + 1, name, default))
    <3>1. Len(calls') + 1 = Len(calls) + 2
      BY <1>6, <1>7
    <3> QED BY <1>2, <1>3, <1>4, <1>6, <3>1, LatestAfter
  <2>2. /\ noCustom' = Option(out, "noCustom", noCustom)
        /\ hotKeys' = Option(out, "hotKeys", hotKeys)
        /\ scriptData' = Option(out, "data", scriptData)
    BY <1>3 DEF Execute, c
  <2> QED BY <1>0, <2>1, <2>2 DEF OptionsStay
<1>9. /\ noCustom' \in BOOLEAN /\ hotKeys' \in BOOLEAN /\ scriptData' \in Words
      /\ urgent' \subseteq Nat
      /\ keep' \in [selection : BOOLEAN, filter : BOOLEAN, new : Int]
  <2>1. /\ noCustom' = Option(out, "noCustom", noCustom)
        /\ hotKeys' = Option(out, "hotKeys", hotKeys)
        /\ scriptData' = Option(out, "data", scriptData)
        /\ urgent' = Option(out, "urgent", {})
        /\ keep' = KeepOf(out)
    BY <1>3 DEF Execute, c
  <2>2. noCustom \in BOOLEAN /\ hotKeys \in BOOLEAN /\ scriptData \in Words
    BY <1>0 DEF ScriptTypeOK
  <2>3. {} \in SUBSET Nat
    OBVIOUS
  <2>4. urgent' \subseteq Nat
    BY <2>1, <2>3, OptionTypesAre
  <2>5. noCustom' \in BOOLEAN /\ hotKeys' \in BOOLEAN /\ scriptData' \in Words
    BY <2>1, <2>2, OptionTypesAre, Zenon
  <2> QED BY <2>1, <2>4, <2>5, KeepType
<1>9a. RowsBefore(calls', Len(calls') + 1) =
         IF Option(out, "switchMode", FALSE) THEN rowsShown ELSE out.rows
  <2>1. Len(calls') + 1 = Len(calls) + 2
    BY <1>6, <1>7
  <2>2. calls # <<>> /\ rowsShown = RowsBefore(calls, Len(calls) + 1)
    BY <1>0 DEF RowsAreTheLast
  <2>3. RowsBefore(Append(calls, c), Len(calls) + 2) =
          IF Option(c.out, "switchMode", FALSE) THEN RowsBefore(calls, Len(calls) + 1)
          ELSE c.out.rows
    BY <1>2, <1>6, <2>2, RowsBeforeAfter
  <2> QED BY <1>3, <1>4, <2>1, <2>2, <2>3
<1>10. CASE /\ UNCHANGED <<rowsShown, chosenLine, filter>>
            /\ \/ stage' = "switched" /\ Option(out, "switchMode", FALSE)
               \/ stage' = "left"
  <2>1. ScriptTypeOK'
    BY <1>0, <1>7, <1>9, <1>10 DEF ScriptTypeOK
  <2>2. RowsAreTheLast'
    BY <1>7, <1>9a, <1>10 DEF RowsAreTheLast
  <2> QED BY <1>5, <1>8, <2>1, <2>2 DEF ScriptInv
<1>11. CASE /\ out.rows # <<>> /\ rowsShown' = out.rows /\ stage' = stage
            /\ chosenLine' = IF ~keep.selection THEN 0
                             ELSE IF keep'.new \in 0 .. Len(out.rows) - 1 THEN keep'.new
                             ELSE IF chosenLine < Len(out.rows) THEN chosenLine
                             ELSE Len(out.rows) - 1
            /\ filter' = keep.filter /\ ~ Option(out, "switchMode", FALSE)
  <2>1. out.rows \in Seq(PrintedRows) /\ Len(out.rows) \in Nat /\ Len(out.rows) > 0
    BY <1>11, RowsType, EmptySeq
  <2>2. chosenLine' \in 0 .. Len(out.rows) - 1
    <3> DEFINE m == Len(out.rows)
               x == keep'.new
    <3>1. m \in Nat /\ m > 0 /\ x \in Int /\ chosenLine \in Nat
      BY <1>0, <1>9, <2>1 DEF ScriptTypeOK
    <3>2. chosenLine' = IF ~keep.selection THEN 0 ELSE IF x \in 0 .. m - 1 THEN x
                        ELSE IF chosenLine < m THEN chosenLine ELSE m - 1
      BY <1>11
    <3> HIDE DEF m, x
    <3> QED BY <3>1, <3>2 DEF m
  <2>3. filter' \in BOOLEAN
    BY <1>0, <1>11 DEF ScriptTypeOK
  <2>4. \A y \in 0 .. Len(out.rows) - 1 : y \in Nat
    OBVIOUS
  <2>5. stage' = "shown"
    BY <1>11
  <2>6. ScriptTypeOK'
    BY <1>7, <1>9, <1>11, <2>1, <2>2, <2>3, <2>4, <2>5 DEF ScriptTypeOK
  <2>7. RowsAreTheLast'
    BY <1>7, <1>9a, <1>11 DEF RowsAreTheLast
  <2> QED BY <1>5, <1>8, <2>6, <2>7 DEF ScriptInv
<1> QED BY <1>10, <1>11 DEF Loop

\* The row of a line is one of those that are shown.
LEMMA RowIsShown ==
  ASSUME ScriptTypeOK, NEW line \in 0 .. Len(rowsShown) - 1
  PROVE  /\ Row(line).entry \in Words
         /\ Row(line).entry \in {r.entry : r \in ToSet(rowsShown)}
<1>1. rowsShown \in Seq(PrintedRows) /\ Len(rowsShown) \in Nat
  BY DEF ScriptTypeOK
<1>2. line + 1 \in 1 .. Len(rowsShown)
  BY <1>1
<1>3. rowsShown[line + 1] \in PrintedRows
  BY <1>1, <1>2
<1>4. rowsShown[line + 1] \in ToSet(rowsShown)
  BY <1>1, <1>2 DEF ToSet
<1> QED BY <1>3, <1>4 DEF Row, PrintedRows

\* The first call.
LEMMA ScriptInitInv == ScriptInit => ScriptInv
<1> SUFFICES ASSUME ScriptInit PROVE ScriptInv
  OBVIOUS
<1>1. PICK out \in Outputs :
       /\ calls = <<[retv |-> 0, arg |-> "none", row |-> FALSE, data |-> "none", out |-> out]>>
       /\ rowsShown = out.rows /\ noCustom = Option(out, "noCustom", FALSE)
       /\ hotKeys = Option(out, "hotKeys", FALSE) /\ scriptData = Option(out, "data", "none")
       /\ urgent = Option(out, "urgent", {})
       /\ keep = KeepOf(out)
  BY DEF ScriptInit
<1> DEFINE c == [retv |-> 0, arg |-> "none", row |-> FALSE, data |-> "none", out |-> out]
<1>2. c \in ScriptCalls /\ c.out = out
  <2>1. "none" \in Words /\ 0 \in 0 .. 28 /\ FALSE \in BOOLEAN
    BY DEF ScriptAssumption
  <2> QED BY <2>1 DEF ScriptCalls
<1> HIDE DEF c
<1>3. calls = <<c>>
  BY <1>1 DEF c
<1>4. calls \in Seq(ScriptCalls) /\ Len(calls) = 1 /\ calls # <<>> /\ calls[1] = c
      /\ calls = Append(<<>>, c)
  BY <1>2, <1>3
<1>5. noCustom \in BOOLEAN /\ hotKeys \in BOOLEAN /\ scriptData \in Words /\ urgent \subseteq Nat
  <2>1. {} \in SUBSET Nat /\ "none" \in Words /\ FALSE \in BOOLEAN
    BY DEF ScriptAssumption
  <2>2. noCustom \in BOOLEAN /\ hotKeys \in BOOLEAN
    BY <1>1, <2>1, OptionTypesAre, Zenon
  <2> QED BY <1>1, <2>1, <2>2, OptionTypesAre
<1>6. ScriptTypeOK
  <2>1. chosenLine = 0 /\ filter = TRUE /\ stage = "shown"
    BY DEF ScriptInit
  <2>2. rowsShown \in Seq(PrintedRows)
    BY <1>1, RowsType
  <2>3. rowsShown # <<>> => 0 \in 0 .. Len(rowsShown) - 1
    <3>1. rowsShown # <<>> => Len(rowsShown) # 0
      BY <2>2, EmptySeq
    <3>2. Len(rowsShown) \in Nat
      BY <2>2
    <3> QED BY <3>1, <3>2
  <2>4. keep \in [selection : BOOLEAN, filter : BOOLEAN, new : Int]
    BY <1>1, KeepType
  <2> QED BY <1>4, <1>5, <2>1, <2>2, <2>3, <2>4 DEF ScriptTypeOK
<1>7. \A name, default : Latest(calls, 2, name, default) = Option(out, name, default)
  <2> TAKE name, default
  <2> DEFINE e == <<>>
  <2>1. e \in Seq(ScriptCalls) /\ Len(e) = 0 /\ calls = Append(e, c)
    <3>1. calls = Append(e, c)
      BY <1>4, Zenon
    <3>2. e \in Seq(ScriptCalls) /\ Len(e) = 0
      BY EmptySeq
    <3> HIDE DEF e
    <3> QED BY <3>1, <3>2
  <2> HIDE DEF e
  <2>2. Latest(Append(e, c), Len(e) + 2, name, default) =
          Option(c.out, name, Latest(e, Len(e) + 1, name, default))
    <3>1. \A cs \in Seq(ScriptCalls), d \in ScriptCalls :
             Latest(Append(cs, d), Len(cs) + 2, name, default) =
               Option(d.out, name, Latest(cs, Len(cs) + 1, name, default))
      BY LatestAfter
    <3>2. c \in ScriptCalls /\ e \in Seq(ScriptCalls)
      BY <1>2, <2>1
    <3> QED BY <3>1, <3>2, Zenon
  <2>3. Len(e) + 2 = 2 /\ Len(e) + 1 = 1
    BY <2>1
  <2>4. Latest(e, 1, name, default) = default
    BY LatestFirst
  <2> QED BY <1>2, <2>1, <2>2, <2>3, <2>4
<1>8. OptionsStay
  <2>1. Len(calls) + 1 = 2
    BY <1>4
  <2> QED BY <1>1, <1>7, <2>1 DEF OptionsStay
<1>9. RowsAreTheLast
  <2>1. Len(calls) + 1 = 2 /\ 2 - 1 = 1
    BY <1>4
  <2>2. Lists(calls, 2) = {1}
    <3>1. \A j \in 1 .. 1 : j = 1
      OBVIOUS
    <3>2. 1 \in 1 .. 1
      OBVIOUS
    <3> QED BY <2>1, <3>1, <3>2 DEF Lists
  <2>3. LastOf({1}) = 1
    <3>1. {1} \subseteq 1 .. 1 /\ 1 \in {1} /\ 1 \in Nat /\ \A k \in {1} : k <= 1
      OBVIOUS
    <3> QED BY <3>1, GreatestIs
  <2>4. RowsBefore(calls, 2) = out.rows
    BY <1>2, <1>4, <2>2, <2>3 DEF RowsBefore
  <2> QED BY <1>1, <1>4, <2>1, <2>4 DEF RowsAreTheLast
<1>10. CallsAreAllowed
  BY <1>4 DEF CallsAreAllowed
<1> QED BY <1>6, <1>8, <1>9, <1>10 DEF ScriptInv

\* A step that calls nothing and shows no other rows keeps the invariant.
LEMMA NoCallInv ==
  ASSUME ScriptInv, ScriptTypeOK',
         UNCHANGED <<rowsShown, noCustom, hotKeys, scriptData, calls>>,
         stage' # "left" => stage # "left"
  PROVE  ScriptInv'
BY DEF ScriptInv, OptionsStay, RowsAreTheLast, CallsAreAllowed

\* Going to another mode keeps the invariant.
LEMMA SwitchModeInv == ScriptInv /\ SwitchMode => ScriptInv'
<1> SUFFICES ASSUME ScriptInv, SwitchMode PROVE ScriptInv'
  OBVIOUS
<1>1. /\ stage = "shown" /\ stage' = "switched"
      /\ UNCHANGED <<rowsShown, noCustom, hotKeys, scriptData, keep, urgent, chosenLine, filter,
                     calls>>
  BY DEF SwitchMode
<1>2. ScriptTypeOK'
  BY <1>1 DEF ScriptInv, ScriptTypeOK
<1> QED BY <1>1, <1>2, NoCallInv

\* Every step keeps the invariant.
LEMMA ScriptNextInv == ScriptInv /\ [ScriptNext]_svars => ScriptInv'
<1> SUFFICES ASSUME ScriptInv, [ScriptNext]_svars PROVE ScriptInv'
  OBVIOUS
<1>0. ScriptTypeOK /\ "typed" \in Words
  <2>1. "typed" \in Words
    BY DEF ScriptAssumption
  <2> QED BY <2>1 DEF ScriptInv
<1>1. ASSUME NEW out \in Outputs, SelectRow(chosenLine, out) PROVE ScriptInv'
  <2>1. /\ stage = "shown" /\ chosenLine \in 0 .. Len(rowsShown) - 1
        /\ Execute(Call(1, Row(chosenLine).entry, TRUE, out)) /\ Loop(chosenLine, out)
    BY <1>1 DEF SelectRow
  <2>2. /\ Row(chosenLine).entry \in Words
        /\ Row(chosenLine).entry \in {r.entry : r \in ToSet(rowsShown)}
    BY <1>0, <2>1, RowIsShown
  <2>3. 1 \in 0 .. 28 /\ ~ 1 >= 10
    OBVIOUS
  <2> QED BY <2>1, <2>2, <2>3, CallInv
<1>2. ASSUME NEW out \in Outputs, DeleteRow(chosenLine, out) PROVE ScriptInv'
  <2>1. /\ stage = "shown" /\ chosenLine \in 0 .. Len(rowsShown) - 1
        /\ Execute(Call(3, Row(chosenLine).entry, TRUE, out)) /\ Loop(chosenLine, out)
    BY <1>2 DEF DeleteRow
  <2>2. /\ Row(chosenLine).entry \in Words
        /\ Row(chosenLine).entry \in {r.entry : r \in ToSet(rowsShown)}
    BY <1>0, <2>1, RowIsShown
  <2>3. 3 \in 0 .. 28 /\ ~ 3 >= 10
    OBVIOUS
  <2> QED BY <2>1, <2>2, <2>3, CallInv
<1>3. ASSUME NEW out \in Outputs, CustomInput("typed", chosenLine, out) PROVE ScriptInv'
  <2>1. /\ stage = "shown" /\ ~ noCustom
        /\ Execute(Call(2, "typed", FALSE, out)) /\ Loop(chosenLine, out)
    BY <1>3 DEF CustomInput
  <2>2. 2 \in 0 .. 28 /\ ~ 2 >= 10
    OBVIOUS
  <2> QED BY <1>0, <2>1, <2>2, CallInv
<1>4. ASSUME NEW out \in Outputs, HotKey(1, chosenLine, out) PROVE ScriptInv'
  <2>0. stage = "shown" /\ 10 + 1 \in 0 .. 28
    BY <1>4 DEF HotKey
  <2>1. CASE SwitchMode
    BY <2>1, SwitchModeInv
  <2>2. CASE /\ hotKeys /\ chosenLine \in 0 .. Len(rowsShown) - 1
             /\ Execute(Call(10 + 1, Row(chosenLine).entry, TRUE, out))
             /\ Loop(chosenLine, out)
    <3>1. /\ Row(chosenLine).entry \in Words
          /\ Row(chosenLine).entry \in {r.entry : r \in ToSet(rowsShown)}
      BY <1>0, <2>2, RowIsShown
    <3> QED BY <2>0, <2>2, <3>1, CallInv
  <2>3. CASE /\ hotKeys /\ ~ noCustom
             /\ Execute(Call(10 + 1, "typed", FALSE, out)) /\ Loop(chosenLine, out)
    BY <1>0, <2>0, <2>3, CallInv
  <2>4. CASE /\ urgent' = {}
             /\ UNCHANGED <<rowsShown, noCustom, hotKeys, scriptData, keep, chosenLine, filter,
                            calls, stage>>
    <3>1. ScriptTypeOK'
      BY <1>0, <2>4 DEF ScriptTypeOK
    <3> QED BY <2>0, <2>4, <3>1, NoCallInv
  <2> QED BY <1>4, <2>1, <2>2, <2>3, <2>4 DEF HotKey
<1>5. CASE Cancel
  <2>1. /\ stage = "shown" /\ stage' = "left"
        /\ UNCHANGED <<rowsShown, noCustom, hotKeys, scriptData, keep, urgent, chosenLine,
                       filter, calls>>
    BY <1>5 DEF Cancel
  <2>2. ScriptTypeOK'
    BY <1>0, <2>1 DEF ScriptTypeOK
  <2> QED BY <2>1, <2>2, NoCallInv
<1>6. ASSUME NEW l, MoveTo(l) PROVE ScriptInv'
  <2>1. /\ stage = "shown" /\ l \in 0 .. Len(rowsShown) - 1 /\ chosenLine' = l /\ filter' = TRUE
        /\ UNCHANGED <<rowsShown, noCustom, hotKeys, scriptData, keep, urgent, calls, stage>>
    BY <1>6 DEF MoveTo
  <2>2. l \in Nat
    BY <2>1
  <2>3. ScriptTypeOK'
    BY <1>0, <2>1, <2>2 DEF ScriptTypeOK
  <2> QED BY <2>1, <2>3, NoCallInv
<1>7. ASSUME NEW l, NEW kept \in BOOLEAN, ComeBack(l, kept) PROVE ScriptInv'
  <2>1. /\ stage = "switched" /\ stage' = "shown" /\ chosenLine' = l /\ filter' = kept
        /\ l \in 0 .. Len(rowsShown) - 1 \/ (rowsShown = <<>> /\ l = 0)
        /\ UNCHANGED <<rowsShown, noCustom, hotKeys, scriptData, keep, urgent, calls>>
    BY <1>7 DEF ComeBack
  <2>2. l \in Nat
    BY <2>1
  <2>3. ScriptTypeOK'
    BY <1>0, <2>1, <2>2 DEF ScriptTypeOK
  <2> QED BY <2>1, <2>3, NoCallInv
<1>8. CASE UNCHANGED svars
  <2>1. ScriptTypeOK' /\ UNCHANGED <<rowsShown, noCustom, hotKeys, scriptData, calls, stage>>
    BY <1>0, <1>8 DEF svars, ScriptTypeOK
  <2> QED BY <2>1, NoCallInv
<1> QED BY <1>1, <1>2, <1>3, <1>4, <1>5, <1>6, <1>7, <1>8, SwitchModeInv DEF ScriptNext

\* The invariant holds in every state.
LEMMA ScriptInvariance == ScriptSpec => []ScriptInv
BY ScriptInitInv, ScriptNextInv, PTL DEF ScriptSpec

\* The variables of the script mode have their types.
THEOREM ScriptTypeCorrect == ScriptSpec => []ScriptTypeOK
<1>1. ScriptInv => ScriptTypeOK
  BY DEF ScriptInv
<1> QED BY <1>1, ScriptInvariance, PTL

\* execute_executor is called with a text that is no row or for a key only if
\* the last output that says so allows it, with a row only while it is shown,
\* and with the data that was printed last.
THEOREM ScriptCallsAreAllowed == ScriptSpec => []CallsAreAllowed
<1>1. ScriptInv => CallsAreAllowed
  BY DEF ScriptInv
<1> QED BY <1>1, ScriptInvariance, PTL

-----------------------------------------------------------------------------
(* The windows.                                                            *)
HIDE ScriptAssumption
USE WindowAssumption DEF WindowAssumption

-----------------------------------------------------------------------------
(* The changes that are under way lead from the windows that rofi knows of *)
(* to those there are: a window is made when it is not there and closed    *)
(* when it is.                                                             *)
Kinds == {"create", "destroy", "toplevel", "done", "closed"}
WindowEvents == [kind : Kinds, window : Windows]
Fitting(S, e) == /\ e.kind = "toplevel" => e.window \notin S
                 /\ e.kind = "closed" => e.window \in S
Changed(S, e) == CASE e.kind = "toplevel" -> S \cup {e.window}
                   [] e.kind = "closed" -> S \ {e.window}
                   [] OTHER -> S
LeadsBy(h, S, es, T) ==
  /\ h \in [0 .. Len(es) -> SUBSET Windows] /\ h[0] = S /\ h[Len(es)] = T
  /\ \A i \in 1 .. Len(es) : Fitting(h[i - 1], es[i]) /\ h[i] = Changed(h[i - 1], es[i])
Leads(S, es, T) == \E h : LeadsBy(h, S, es, T)

\* An event changes the windows to windows.
LEMMA ChangedType ==
  ASSUME NEW S \in SUBSET Windows, NEW e \in WindowEvents
  PROVE  /\ e.kind \in Kinds /\ e.window \in Windows /\ Changed(S, e) \in SUBSET Windows
         /\ e.kind = "toplevel" => Changed(S, e) = S \cup {e.window}
         /\ e.kind = "closed" => Changed(S, e) = S \ {e.window}
         /\ e.kind \notin {"toplevel", "closed"} => Changed(S, e) = S
BY DEF WindowEvents, Changed

\* An event that fits at the end.
LEMMA LeadsOn ==
  ASSUME NEW S \in SUBSET Windows, NEW T \in SUBSET Windows, NEW es \in Seq(WindowEvents),
         NEW e \in WindowEvents, Leads(S, es, T), Fitting(T, e)
  PROVE  Leads(S, Append(es, e), Changed(T, e))
<1> DEFINE n == Len(es)
           f == Append(es, e)
           U == Changed(T, e)
<1>1. /\ n \in Nat /\ Len(f) = n + 1 /\ f[n + 1] = e
      /\ \A i \in 1 .. n : f[i] = es[i]
  OBVIOUS
<1>2. PICK h : LeadsBy(h, S, es, T)
  BY DEF Leads
<1> DEFINE g == [i \in 0 .. n + 1 |-> IF i = n + 1 THEN U ELSE h[i]]
<1>3. U \in SUBSET Windows
  BY ChangedType
<1> HIDE DEF f, U
<1>4. h \in [0 .. n -> SUBSET Windows] /\ h[0] = S /\ h[n] = T
  BY <1>2 DEF LeadsBy
<1>5. g \in [0 .. n + 1 -> SUBSET Windows]
  <2>1. \A i \in 0 .. n + 1 : i # n + 1 => h[i] \in SUBSET Windows
    BY <1>1, <1>4
  <2> QED BY <1>3, <2>1
<1>6. g[n + 1] = U /\ \A i \in 0 .. n : g[i] = h[i]
  BY <1>1
<1> HIDE DEF g
<1>7. g[0] = S /\ g[n] = T
  BY <1>1, <1>4, <1>6
<1>8. \A i \in 1 .. n + 1 : Fitting(g[i - 1], f[i]) /\ g[i] = Changed(g[i - 1], f[i])
  <2>1. ASSUME NEW i \in 1 .. n PROVE Fitting(g[i - 1], f[i]) /\ g[i] = Changed(g[i - 1], f[i])
    <3>1. i - 1 \in 0 .. n /\ i \in 0 .. n
      BY <1>1
    <3>2. Fitting(h[i - 1], es[i]) /\ h[i] = Changed(h[i - 1], es[i])
      BY <1>2 DEF LeadsBy
    <3>3. g[i - 1] = h[i - 1] /\ g[i] = h[i] /\ f[i] = es[i]
      BY <1>1, <1>6, <3>1
    <3> QED BY <3>2, <3>3
  <2>2. Fitting(g[(n + 1) - 1], f[n + 1]) /\ g[n + 1] = Changed(g[(n + 1) - 1], f[n + 1])
    <3>1. (n + 1) - 1 = n
      BY <1>1
    <3> QED BY <1>1, <1>6, <1>7, <3>1 DEF U
  <2>3. \A i \in 1 .. n + 1 : i \in 1 .. n \/ i = n + 1
    BY <1>1
  <2> QED BY <2>1, <2>2, <2>3
<1>9. LeadsBy(g, S, f, U)
  BY <1>1, <1>5, <1>6, <1>7, <1>8 DEF LeadsBy
<1> QED BY <1>9 DEF Leads, f, U

\* The first event is taken.
LEMMA LeadsFrom ==
  ASSUME NEW S \in SUBSET Windows, NEW T \in SUBSET Windows, NEW es \in Seq(WindowEvents),
         es # <<>>, Leads(S, es, T)
  PROVE  /\ Head(es) \in WindowEvents /\ Fitting(S, Head(es))
         /\ Leads(Changed(S, Head(es)), Tail(es), T)
<1> DEFINE t == Tail(es)
           e == Head(es)
           m == Len(t)
<1>1. /\ e \in WindowEvents /\ m \in Nat /\ Len(es) = m + 1 /\ es[1] = e
      /\ \A i \in 1 .. m : t[i] = es[i + 1]
  BY HeadAndTail
<1> HIDE DEF t, e, m
<1>2. PICK h : LeadsBy(h, S, es, T)
  BY DEF Leads
<1>3. h \in [0 .. m + 1 -> SUBSET Windows] /\ h[0] = S /\ h[m + 1] = T
  BY <1>1, <1>2 DEF LeadsBy
<1>4. \A i \in 1 .. m + 1 : Fitting(h[i - 1], es[i]) /\ h[i] = Changed(h[i - 1], es[i])
  BY <1>1, <1>2 DEF LeadsBy
<1>5. Fitting(S, e) /\ h[1] = Changed(S, e)
  <2>1. 1 \in 1 .. m + 1 /\ 1 - 1 = 0
    BY <1>1
  <2> QED BY <1>1, <1>3, <1>4, <2>1
<1> DEFINE g == [i \in 0 .. m |-> h[i + 1]]
<1>6. g \in [0 .. m -> SUBSET Windows]
  <2>1. \A i \in 0 .. m : i + 1 \in 0 .. m + 1
    BY <1>1
  <2> QED BY <1>3, <2>1
<1>7. \A i \in 0 .. m : g[i] = h[i + 1]
  OBVIOUS
<1> HIDE DEF g
<1>8. g[0] = h[1] /\ g[m] = T
  BY <1>1, <1>3, <1>7
<1>9. ASSUME NEW i \in 1 .. m PROVE Fitting(g[i - 1], t[i]) /\ g[i] = Changed(g[i - 1], t[i])
  <2>1. i - 1 \in 0 .. m /\ i \in 0 .. m /\ (i - 1) + 1 = i /\ i + 1 \in 1 .. m + 1 /\ (i + 1) - 1 = i
    BY <1>1
  <2>2. g[i - 1] = h[i] /\ g[i] = h[i + 1] /\ t[i] = es[i + 1]
    BY <1>1, <1>7, <2>1
  <2>3. Fitting(h[(i + 1) - 1], es[i + 1]) /\ h[i + 1] = Changed(h[(i + 1) - 1], es[i + 1])
    BY <1>4, <2>1
  <2> QED BY <2>1, <2>2, <2>3
<1>10. LeadsBy(g, Changed(S, e), t, T)
  BY <1>5, <1>6, <1>8, <1>9 DEF LeadsBy, m
<1> QED BY <1>1, <1>5, <1>10 DEF Leads, t, e

\* Without changes under way.
LEMMA LeadsNowhere ==
  ASSUME NEW S, NEW T, Leads(S, <<>>, T)
  PROVE  S = T
<1>1. Len(<<>>) = 0
  OBVIOUS
<1> QED BY <1>1 DEF Leads, LeadsBy

\* Nothing under way leads to where it is.
LEMMA LeadsToItself ==
  ASSUME NEW S \in SUBSET Windows
  PROVE  Leads(S, <<>>, S)
<1> DEFINE h == [i \in 0 .. 0 |-> S]
<1>1. Len(<<>>) = 0 /\ h \in [0 .. 0 -> SUBSET Windows] /\ h[0] = S
  OBVIOUS
<1> HIDE DEF h
<1>2. LeadsBy(h, S, <<>>, S)
  BY <1>1 DEF LeadsBy
<1> QED BY <1>2 DEF Leads

\* One event and two are told one after the other.
LEMMA TellIs ==
  ASSUME NEW S, NEW s \in Seq(S), NEW a \in S, NEW b \in S
  PROVE  /\ s \o <<a>> = Append(s, a) /\ Append(s, a) \in Seq(S)
         /\ s \o <<a, b>> = Append(Append(s, a), b) /\ Append(Append(s, a), b) \in Seq(S)
         /\ Len(Append(s, a)) = Len(s) + 1
<1>1. s \o <<a>> = Append(s, a)
  OBVIOUS
<1>2. s \o <<a, b>> = Append(Append(s, a), b)
  OBVIOUS
<1>3. Append(s, a) \in Seq(S) /\ Append(Append(s, a), b) \in Seq(S) /\ Len(Append(s, a)) = Len(s) + 1
  OBVIOUS
<1> QED BY <1>1, <1>2, <1>3

\* All but the last of distinct elements.
LEMMA FrontInjective ==
  ASSUME NEW S, NEW s \in Seq(S), IsInjective(s), s # <<>>
  PROVE  /\ Front(s) \in Seq(S) /\ IsInjective(Front(s)) /\ Last(s) \in S
         /\ ToSet(Front(s)) \subseteq ToSet(s) /\ Last(s) \in ToSet(s)
         /\ Last(s) \notin ToSet(Front(s))
<1> DEFINE f == Front(s)
           n == Len(s)
<1>1. n \in Nat \ {0} /\ DOMAIN s = 1 .. n
  BY EmptySeq
<1>2. /\ f \in Seq(S) /\ Len(f) = n - 1 /\ DOMAIN f = 1 .. n - 1
      /\ \A i \in 1 .. n - 1 : f[i] = s[i]
  BY <1>1 DEF Front
<1> HIDE DEF f, n
<1>3. \A i \in 1 .. n - 1 : i \in 1 .. n /\ i # n
  BY <1>1
<1>4. \A i, j \in 1 .. n : s[i] = s[j] => i = j
  BY <1>1 DEF IsInjective
<1>5. n \in 1 .. n /\ Last(s) = s[n] /\ s[n] \in S
  BY <1>1 DEF Last, n
<1>6. IsInjective(f)
  BY <1>2, <1>3, <1>4 DEF IsInjective
<1>7. ToSet(f) \subseteq ToSet(s) /\ Last(s) \in ToSet(s)
  BY <1>1, <1>2, <1>3, <1>5 DEF ToSet
<1>8. Last(s) \notin ToSet(f)
  BY <1>2, <1>3, <1>4, <1>5 DEF ToSet
<1> QED BY <1>2, <1>5, <1>6, <1>7, <1>8 DEF f, n

-----------------------------------------------------------------------------
(* On X11 a window that is gone is announced, or the timer runs; the rows  *)
(* and the windows that are still to be asked for are distinct.            *)
Queued(kinds) == \A i \in 1 .. Len(events) : events[i].kind \in kinds
X11Inv ==
  /\ Queued({"create", "destroy"})
  /\ IsInjective(listed) /\ IsInjective(reading) /\ ToSet(reading) \cap ToSet(ids) = {}
  /\ ~loading => reading = <<>>
  /\ events = <<>> /\ ~timer => ToSet(ids) \subseteq exist

(* On Wayland what is under way leads from the rows to the windows.        *)
WaylandInv ==
  /\ Queued({"toplevel", "done", "closed"}) /\ ~loading /\ ~timer /\ listed = <<>> /\ reading = <<>>
  /\ Leads(ToSet(ids), events, exist)
  /\ \A i \in 1 .. Len(events) :
       events[i].kind = "toplevel" => i < Len(events) /\ events[i + 1].kind = "done"

(* The view has the rows, or reloads, or will be told to.                  *)
ViewInv ==
  /\ IsInjective(ids) /\ IsInjective(inView)
  /\ ~idle /\ ~loading => inView = ids \/ \E i \in 1 .. Len(events) : events[i].kind = "done"

WindowInv ==
  /\ WindowTypeOK /\ ViewInv
  /\ server = "x11" => X11Inv
  /\ server = "wayland" => WaylandInv

\* The types in the form that the steps use.
LEMMA WindowTypes ==
  ASSUME WindowTypeOK
  PROVE  /\ server = "x11" \/ server = "wayland"
         /\ events \in Seq(WindowEvents) /\ Len(events) \in Nat
         /\ ToSet(ids) \in SUBSET Windows /\ exist \in SUBSET Windows
<1>1. events \in Seq(WindowEvents)
  BY DEF WindowTypeOK, WindowEvents, Kinds
<1>2. ToSet(ids) \in SUBSET Windows
  BY SetOfSeq DEF WindowTypeOK
<1> QED BY <1>1, <1>2 DEF WindowTypeOK

\* An event that is received is the first of the queue.
LEMMA ReceivedIs ==
  ASSUME WindowInv, NEW kinds, Received(kinds)
  PROVE  /\ events # <<>> /\ ~loading /\ events' = Tail(events) /\ events' \in Seq(WindowEvents)
         /\ Head(events) \in WindowEvents /\ Head(events).kind \in kinds /\ events[1] = Head(events)
         /\ Head(events).window \in Windows
         /\ Len(events') = Len(events) - 1 /\ Len(events) \in Nat \ {0}
         /\ \A i \in 1 .. Len(events') : events'[i] = events[i + 1] /\ i + 1 \in 1 .. Len(events)
         /\ \A k : Queued(k) => Queued(k)' /\ Head(events).kind \in k
<1>1. events \in Seq(WindowEvents) /\ events # <<>> /\ events' = Tail(events) /\ ~loading
      /\ Head(events).kind \in kinds
  BY WindowTypes DEF WindowInv, Received
<1>2. /\ Head(events) \in WindowEvents /\ events' \in Seq(WindowEvents) /\ events[1] = Head(events)
      /\ Len(events') = Len(events) - 1 /\ Len(events) \in Nat \ {0}
      /\ \A i \in 1 .. Len(events') : events'[i] = events[i + 1]
  BY <1>1, HeadAndTail
<1>3. \A i \in 1 .. Len(events') : i + 1 \in 1 .. Len(events)
  BY <1>2
<1>4. Head(events).window \in Windows
  BY <1>2 DEF WindowEvents
<1>5. \A k : Queued(k) => Queued(k)' /\ Head(events).kind \in k
  <2>1. 1 \in 1 .. Len(events)
    BY <1>2
  <2> QED BY <1>2, <1>3, <2>1 DEF Queued
<1> QED BY <1>1, <1>2, <1>3, <1>4, <1>5

\* An event of X11 starts the timer.
LEMMA SignalKeeps ==
  ASSUME WindowInv, HandleSignal
  PROVE  WindowInv'
<1>1. /\ Received({"create", "destroy"}) /\ timer' = TRUE
      /\ UNCHANGED <<server, exist, listed, ids, reading, loading, idle, inView>>
  BY DEF HandleSignal
<1>2. /\ events' \in Seq(WindowEvents) /\ Head(events).kind \in {"create", "destroy"}
      /\ \A k : Queued(k) => Queued(k)' /\ Head(events).kind \in k
  BY <1>1, ReceivedIs
<1>3. server = "x11"
  <2>1. ~Queued({"toplevel", "done", "closed"})
    BY <1>2
  <2> QED BY <2>1, WindowTypes DEF WindowInv, WaylandInv
<1>4. X11Inv'
  BY <1>1, <1>2, <1>3 DEF WindowInv, X11Inv
<1>5. WindowTypeOK'
  BY <1>1, <1>2 DEF WindowInv, WindowTypeOK, WindowEvents, Kinds
<1>6. ViewInv'
  <2>1. \A i \in 1 .. Len(events) : events[i].kind # "done"
    BY <1>3 DEF WindowInv, X11Inv, Queued
  <2> QED BY <1>1, <2>1 DEF WindowInv, ViewInv
<1> QED BY <1>1, <1>3, <1>4, <1>5, <1>6 DEF WindowInv

\* The list is read anew.
LEMMA ReloadKeeps ==
  ASSUME WindowInv, ClientReload
  PROVE  WindowInv'
<1>1. /\ timer /\ ~loading /\ timer' = FALSE /\ ids' = <<>> /\ reading' = listed /\ loading' = TRUE
      /\ UNCHANGED <<server, exist, listed, events, idle, inView>>
  BY DEF ClientReload
<1>2. server = "x11"
  BY <1>1, WindowTypes DEF WindowInv, WaylandInv
<1>3. <<>> \in Seq(Windows) /\ IsInjective(<<>>)
  BY DEF IsInjective
<1>4. X11Inv'
  BY <1>1, <1>2, SetOfEmpty DEF WindowInv, X11Inv, Queued
<1>5. WindowTypeOK'
  BY <1>1, <1>3 DEF WindowInv, WindowTypeOK
<1>6. ViewInv'
  BY <1>1, <1>3 DEF WindowInv, ViewInv
<1> QED BY <1>1, <1>2, <1>4, <1>5, <1>6 DEF WindowInv

\* One window is asked for.
LEMMA ClientKeeps ==
  ASSUME WindowInv, WindowClient
  PROVE  WindowInv'
<1> DEFINE w == Last(reading)
<1>1. /\ loading /\ reading # <<>> /\ reading' = Front(reading)
      /\ ids' = IF w \in exist THEN Append(ids, w) ELSE ids
      /\ UNCHANGED <<server, exist, listed, events, loading, timer, idle, inView>>
  BY DEF WindowClient
<1>2. server = "x11" /\ X11Inv /\ ViewInv /\ WindowTypeOK
  BY <1>1, WindowTypes DEF WindowInv, WaylandInv
<1>3. reading \in Seq(Windows) /\ ids \in Seq(Windows) /\ IsInjective(reading) /\ IsInjective(ids)
  BY <1>2 DEF X11Inv, ViewInv, WindowTypeOK
<1>4. /\ reading' \in Seq(Windows) /\ IsInjective(reading') /\ w \in Windows
      /\ ToSet(reading') \subseteq ToSet(reading) /\ w \in ToSet(reading) /\ w \notin ToSet(reading')
  BY <1>1, <1>3, FrontInjective
<1> HIDE DEF w
<1>5. w \notin ToSet(ids)
  BY <1>2, <1>4 DEF X11Inv
<1>6. /\ Append(ids, w) \in Seq(Windows) /\ ToSet(Append(ids, w)) = ToSet(ids) \cup {w}
      /\ IsInjective(Append(ids, w))
  <2>1. \A i, j \in DOMAIN Append(ids, w) : i # j => Append(ids, w)[i] # Append(ids, w)[j]
    <3>1. \A i, j \in DOMAIN ids : i # j => ids[i] # ids[j]
      BY <1>3 DEF IsInjective
    <3> QED BY <1>3, <1>4, <1>5, <3>1, AppendNew
  <2> QED BY <1>3, <1>4, <2>1, SetOfAppend DEF IsInjective
<1>7. /\ ids' \in Seq(Windows) /\ IsInjective(ids') /\ ToSet(ids') \subseteq ToSet(ids) \cup {w}
      /\ ToSet(ids) \subseteq exist => ToSet(ids') \subseteq exist
  <2>1. CASE w \in exist
    BY <1>1, <1>6, <2>1
  <2>2. CASE w \notin exist
    BY <1>1, <1>3, <2>2
  <2> QED BY <2>1, <2>2
<1>8. X11Inv'
  <2>1. ToSet(reading') \cap ToSet(ids') = {}
    BY <1>2, <1>4, <1>7 DEF X11Inv
  <2>2. Queued({"create", "destroy"})' /\ IsInjective(listed')
    BY <1>1, <1>2 DEF X11Inv, Queued
  <2>3. events' = <<>> /\ ~timer' => ToSet(ids') \subseteq exist'
    BY <1>1, <1>2, <1>7 DEF X11Inv
  <2> QED BY <1>1, <1>4, <2>1, <2>2, <2>3 DEF X11Inv
<1>9. WindowTypeOK'
  BY <1>1, <1>2, <1>4, <1>7 DEF WindowTypeOK
<1>10. ViewInv'
  BY <1>1, <1>2, <1>7 DEF ViewInv
<1> QED BY <1>1, <1>2, <1>8, <1>9, <1>10 DEF WindowInv

\* The list is loaded.
LEMMA LoadEndsKeeps ==
  ASSUME WindowInv, LoadEnds
  PROVE  WindowInv'
<1>1. /\ loading /\ reading = <<>> /\ loading' = FALSE /\ idle' = TRUE
      /\ UNCHANGED <<server, exist, listed, events, ids, reading, timer, inView>>
  BY DEF LoadEnds
<1>2. server = "x11"
  BY <1>1, WindowTypes DEF WindowInv, WaylandInv
<1>3. X11Inv'
  BY <1>1, <1>2 DEF WindowInv, X11Inv, Queued
<1>4. WindowTypeOK'
  BY <1>1 DEF WindowInv, WindowTypeOK
<1>5. ViewInv'
  BY <1>1 DEF WindowInv, ViewInv
<1> QED BY <1>1, <1>2, <1>3, <1>4, <1>5 DEF WindowInv

\* What is received on Wayland leads on from the windows after it.
LEMMA WaylandReceives ==
  ASSUME WindowInv, NEW kinds, kinds \subseteq {"toplevel", "done", "closed"}, Received(kinds)
  PROVE  /\ server = "wayland" /\ WaylandInv /\ Fitting(ToSet(ids), Head(events))
         /\ Leads(Changed(ToSet(ids), Head(events)), events', exist)
         /\ Queued({"toplevel", "done", "closed"})'
         /\ \A i \in 1 .. Len(events') :
              events'[i].kind = "toplevel" => i < Len(events') /\ events'[i + 1].kind = "done"
<1>1. /\ events # <<>> /\ events' = Tail(events) /\ Len(events') = Len(events) - 1 /\ Len(events) \in Nat
      /\ Head(events).kind \in kinds
      /\ \A i \in 1 .. Len(events') : events'[i] = events[i + 1] /\ i + 1 \in 1 .. Len(events)
      /\ \A k : Queued(k) => Queued(k)' /\ Head(events).kind \in k
  BY ReceivedIs
<1>2. server = "wayland" /\ WaylandInv
  <2>1. ~Queued({"create", "destroy"})
    BY <1>1
  <2> QED BY <2>1, WindowTypes DEF WindowInv, X11Inv
<1>3. /\ Fitting(ToSet(ids), Head(events))
      /\ Leads(Changed(ToSet(ids), Head(events)), events', exist)
  BY <1>1, <1>2, LeadsFrom, WindowTypes DEF WindowInv, WaylandInv
<1>4. ASSUME NEW i \in 1 .. Len(events'), events'[i].kind = "toplevel"
      PROVE  i < Len(events') /\ events'[i + 1].kind = "done"
  <2>1. events[i + 1].kind = "toplevel" /\ i + 1 \in 1 .. Len(events)
    BY <1>1, <1>4
  <2>2. i + 1 < Len(events) /\ events[(i + 1) + 1].kind = "done"
    BY <1>2, <2>1 DEF WaylandInv
  <2>3. i < Len(events') /\ i + 1 \in 1 .. Len(events')
    BY <1>1, <2>2
  <2> QED BY <1>1, <2>2, <2>3
<1>5. Queued({"toplevel", "done", "closed"})'
  BY <1>1, <1>2 DEF WaylandInv
<1> QED BY <1>2, <1>3, <1>4, <1>5

\* A window is made on Wayland.
LEMMA ToplevelKeeps ==
  ASSUME WindowInv, Toplevel
  PROVE  WindowInv'
<1> DEFINE e == Head(events)
           w == e.window
<1>1. /\ Received({"toplevel"}) /\ ids' = <<w>> \o ids
      /\ UNCHANGED <<server, exist, listed, reading, loading, timer, idle, inView>>
  BY DEF Toplevel
<1>2. /\ server = "wayland" /\ WaylandInv /\ Fitting(ToSet(ids), e)
      /\ Leads(Changed(ToSet(ids), e), events', exist) /\ Queued({"toplevel", "done", "closed"})'
      /\ \A i \in 1 .. Len(events') :
           events'[i].kind = "toplevel" => i < Len(events') /\ events'[i + 1].kind = "done"
  BY <1>1, WaylandReceives
<1>3. /\ e \in WindowEvents /\ e.kind = "toplevel" /\ w \in Windows /\ events[1] = e
      /\ events' \in Seq(WindowEvents) /\ Len(events') = Len(events) - 1 /\ Len(events) \in Nat \ {0}
      /\ \A i \in 1 .. Len(events') : events'[i] = events[i + 1]
  <2>1. e.kind \in {"toplevel"}
    BY <1>1, ReceivedIs
  <2> QED BY <1>1, <2>1, ReceivedIs
<1>4. w \notin ToSet(ids) /\ Changed(ToSet(ids), e) = ToSet(ids) \cup {w}
  BY <1>2, <1>3 DEF Fitting, Changed
<1>5. events'[1].kind = "done" /\ 1 \in 1 .. Len(events')
  <2>1. 1 < Len(events) /\ events[1 + 1].kind = "done"
    BY <1>2, <1>3 DEF WaylandInv
  <2> QED BY <1>3, <2>1
<1> HIDE DEF e, w
<1>6. ids' \in Seq(Windows) /\ IsInjective(ids') /\ ToSet(ids') = ToSet(ids) \cup {w}
  <2>1. ids \in Seq(Windows) /\ IsInjective(ids)
    BY DEF WindowInv, WindowTypeOK, ViewInv
  <2> QED BY <1>1, <1>3, <1>4, <2>1, PushInjective
<1>7. WaylandInv'
  BY <1>1, <1>2, <1>4, <1>6 DEF WaylandInv
<1>8. WindowTypeOK'
  BY <1>1, <1>3, <1>6 DEF WindowInv, WindowTypeOK, WindowEvents, Kinds
<1>9. ViewInv'
  BY <1>1, <1>5, <1>6 DEF WindowInv, ViewInv
<1> QED BY <1>1, <1>2, <1>7, <1>8, <1>9 DEF WindowInv

\* The view is told of changes.
LEMMA DoneKeeps ==
  ASSUME WindowInv, HandleDone
  PROVE  WindowInv'
<1> DEFINE e == Head(events)
<1>1. /\ Received({"done"}) /\ idle' = TRUE
      /\ UNCHANGED <<server, exist, listed, ids, reading, loading, timer, inView>>
  BY DEF HandleDone
<1>2. /\ server = "wayland" /\ WaylandInv
      /\ Leads(Changed(ToSet(ids), e), events', exist) /\ Queued({"toplevel", "done", "closed"})'
      /\ \A i \in 1 .. Len(events') :
           events'[i].kind = "toplevel" => i < Len(events') /\ events'[i + 1].kind = "done"
  BY <1>1, WaylandReceives
<1>3. e.kind = "done" /\ events' \in Seq(WindowEvents)
  <2>1. e.kind \in {"done"}
    BY <1>1, ReceivedIs
  <2> QED BY <1>1, <2>1, ReceivedIs
<1>4. Changed(ToSet(ids), e) = ToSet(ids)
  BY <1>3 DEF Changed
<1> HIDE DEF e
<1>5. WaylandInv'
  BY <1>1, <1>2, <1>4 DEF WaylandInv
<1>6. WindowTypeOK'
  BY <1>1, <1>3 DEF WindowInv, WindowTypeOK, WindowEvents, Kinds
<1>7. ViewInv'
  BY <1>1 DEF WindowInv, ViewInv
<1> QED BY <1>1, <1>2, <1>5, <1>6, <1>7 DEF WindowInv

\* A window is closed on Wayland.
LEMMA ClosedKeeps ==
  ASSUME WindowInv, HandleClosed
  PROVE  WindowInv'
<1> DEFINE e == Head(events)
           w == e.window
<1>1. /\ Received({"closed"}) /\ ids' = Without(ids, w) /\ idle' = TRUE
      /\ UNCHANGED <<server, exist, listed, reading, loading, timer, inView>>
  BY DEF HandleClosed
<1>2. /\ server = "wayland" /\ WaylandInv /\ Fitting(ToSet(ids), e)
      /\ Leads(Changed(ToSet(ids), e), events', exist) /\ Queued({"toplevel", "done", "closed"})'
      /\ \A i \in 1 .. Len(events') :
           events'[i].kind = "toplevel" => i < Len(events') /\ events'[i + 1].kind = "done"
  BY <1>1, WaylandReceives
<1>3. e.kind = "closed" /\ w \in Windows /\ events' \in Seq(WindowEvents)
  <2>1. e.kind \in {"closed"}
    BY <1>1, ReceivedIs
  <2> QED BY <1>1, <2>1, ReceivedIs
<1>4. w \in ToSet(ids) /\ Changed(ToSet(ids), e) = ToSet(ids) \ {w}
  BY <1>2, <1>3 DEF Fitting, Changed
<1> HIDE DEF e, w
<1>5. ids' \in Seq(Windows) /\ IsInjective(ids') /\ ToSet(ids') = ToSet(ids) \ {w}
  <2>1. ids \in Seq(Windows) /\ IsInjective(ids)
    BY DEF WindowInv, WindowTypeOK, ViewInv
  <2>2. ids' = RemoveAt(ids, CHOOSE i \in DOMAIN ids : ids[i] = w)
    BY <1>1, <1>4 DEF Without
  <2> QED BY <1>4, <2>1, <2>2, RemoveInjective
<1>6. WaylandInv'
  BY <1>1, <1>2, <1>4, <1>5 DEF WaylandInv
<1>7. WindowTypeOK'
  BY <1>1, <1>3, <1>5 DEF WindowInv, WindowTypeOK, WindowEvents, Kinds
<1>8. ViewInv'
  BY <1>1, <1>5 DEF WindowInv, ViewInv
<1> QED BY <1>1, <1>2, <1>6, <1>7, <1>8 DEF WindowInv

\* The view takes the rows.
LEMMA ViewKeeps ==
  ASSUME WindowInv, ViewReload
  PROVE  WindowInv'
<1>1. /\ idle' = FALSE /\ inView' = ids
      /\ UNCHANGED <<server, exist, listed, events, ids, reading, loading, timer>>
  BY DEF ViewReload
<1>2. WindowTypeOK' /\ ViewInv'
  BY <1>1 DEF WindowInv, WindowTypeOK, ViewInv
<1>3. (X11Inv => X11Inv') /\ (WaylandInv => WaylandInv')
  BY <1>1 DEF X11Inv, WaylandInv, Queued
<1> QED BY <1>1, <1>2, <1>3 DEF WindowInv

-----------------------------------------------------------------------------
(* The server and the window manager.                                      *)

\* What one event more keeps of the queue.
LEMMA OneMore ==
  ASSUME WindowInv, NEW e \in WindowEvents, events' = Append(events, e),
         inView' = inView, ids' = ids, idle' = idle, loading' = loading
  PROVE  /\ events' \in Seq(WindowEvents) /\ events' # <<>> /\ ViewInv'
         /\ \A k : Queued(k) /\ e.kind \in k => Queued(k)'
<1> DEFINE n == Len(events)
<1>1. /\ events \in Seq(WindowEvents) /\ n \in Nat /\ events' \in Seq(WindowEvents)
      /\ Len(events') = n + 1 /\ events'[n + 1] = e
      /\ \A i \in 1 .. n : events'[i] = events[i] /\ i \in 1 .. n + 1
  BY WindowTypes DEF WindowInv
<1>2. \A i \in 1 .. n + 1 : i \in 1 .. n \/ i = n + 1
  BY <1>1
<1>3. events' # <<>>
  BY <1>1
<1>4. ViewInv'
  <2>1. ASSUME NEW i \in 1 .. n, events[i].kind = "done"
        PROVE  \E j \in 1 .. Len(events') : events'[j].kind = "done"
    BY <1>1, <2>1
  <2> QED BY <2>1 DEF WindowInv, ViewInv
<1>5. \A k : Queued(k) /\ e.kind \in k => Queued(k)'
  BY <1>1, <1>2 DEF Queued
<1> QED BY <1>1, <1>3, <1>4, <1>5

\* A change on X11 leaves the rows and the reading as they are.
LEMMA X11More ==
  ASSUME WindowInv, server = "x11", NEW e \in WindowEvents, events' = Append(events, e),
         e.kind \in {"create", "destroy"}, exist' \in SUBSET Windows,
         UNCHANGED <<server, listed, ids, reading, loading, timer, idle, inView>>
  PROVE  WindowInv'
<1>1. /\ events' \in Seq(WindowEvents) /\ events' # <<>> /\ ViewInv'
      /\ Queued({"create", "destroy"}) => Queued({"create", "destroy"})'
  BY OneMore
<1>2. X11Inv'
  BY <1>1 DEF WindowInv, X11Inv
<1>3. WindowTypeOK'
  BY <1>1 DEF WindowInv, WindowTypeOK, WindowEvents, Kinds
<1> QED BY <1>1, <1>2, <1>3 DEF WindowInv

\* A window is made: two events on Wayland, one on X11.
LEMMA CreateKeeps ==
  ASSUME WindowInv, NEW w \in Windows, Create(w)
  PROVE  WindowInv'
<1>1. /\ w \notin exist /\ exist' = exist \cup {w}
      /\ server = "x11" => events' = events \o <<Event("create", w)>>
      /\ server # "x11" => events' = events \o <<Event("toplevel", w), Event("done", w)>>
      /\ UNCHANGED <<server, listed, ids, reading, loading, timer, idle, inView>>
  BY DEF Create, Tell
<1>2. exist' \in SUBSET Windows /\ events \in Seq(WindowEvents) /\ exist \in SUBSET Windows
      /\ ToSet(ids) \in SUBSET Windows
  BY <1>1, WindowTypes DEF WindowInv
<1>3. \A k \in Kinds : Event(k, w) \in WindowEvents /\ Event(k, w).kind = k /\ Event(k, w).window = w
  BY DEF WindowEvents, Event
<1>4. CASE server = "x11"
  <2>1. events' = Append(events, Event("create", w)) /\ Event("create", w) \in WindowEvents
        /\ Event("create", w).kind = "create"
    BY <1>1, <1>2, <1>3, <1>4, TellIs DEF Kinds
  <2> QED BY <1>1, <1>2, <1>4, <2>1, X11More
<1>5. CASE server = "wayland"
  <2> DEFINE d == Event("toplevel", w)
             e == Event("done", w)
             q == Append(events, d)
             n == Len(events)
  <2>1. d \in WindowEvents /\ d.kind = "toplevel" /\ d.window = w /\ e \in WindowEvents /\ e.kind = "done"
    BY <1>3 DEF Kinds
  <2> HIDE DEF d, e
  <2>2. events' = Append(q, e) /\ q \in Seq(WindowEvents) /\ events' \in Seq(WindowEvents)
    <3>1. events' = events \o <<d, e>>
      BY <1>1, <1>5 DEF d, e
    <3> QED BY <1>2, <2>1, <3>1, TellIs
  <2>3. /\ n \in Nat /\ Len(events') = n + 2 /\ events'[n + 1] = d /\ events'[n + 2] = e
        /\ \A i \in 1 .. n : events'[i] = events[i]
    BY <1>2, <2>1, <2>2
  <2>4. WaylandInv
    BY <1>5 DEF WindowInv
  <2>5. Leads(ToSet(ids), events', exist')
    <3>1. Fitting(exist, d) /\ Changed(exist, d) = exist'
      BY <1>1, <2>1 DEF Fitting, Changed
    <3>2. Leads(ToSet(ids), q, exist')
      BY <1>2, <2>1, <2>4, <3>1, LeadsOn DEF WaylandInv
    <3>3. Fitting(exist', e) /\ Changed(exist', e) = exist'
      BY <2>1 DEF Fitting, Changed
    <3> HIDE DEF q
    <3> QED BY <1>2, <2>1, <2>2, <3>2, <3>3, LeadsOn
  <2> HIDE DEF q, n
  <2>6. \A i \in 1 .. n + 2 : i \in 1 .. n \/ i = n + 1 \/ i = n + 2
    BY <2>3
  <2>7. Queued({"toplevel", "done", "closed"})'
    BY <2>1, <2>3, <2>4, <2>6 DEF WaylandInv, Queued, n
  <2>8. ASSUME NEW i \in 1 .. Len(events'), events'[i].kind = "toplevel"
        PROVE  i < Len(events') /\ events'[i + 1].kind = "done"
    <3>1. CASE i \in 1 .. n
      <4>1. i < n /\ events[i + 1].kind = "done"
        BY <2>3, <2>4, <2>8, <3>1 DEF WaylandInv, n
      <4>2. i + 1 \in 1 .. n
        BY <2>3, <3>1, <4>1
      <4> QED BY <2>3, <4>1, <4>2
    <3>2. CASE i = n + 1
      <4>1. i < n + 2 /\ i + 1 = n + 2
        BY <2>3, <3>2
      <4> QED BY <2>1, <2>3, <4>1
    <3>3. CASE i = n + 2
      BY <2>1, <2>3, <2>8, <3>3
    <3> QED BY <2>3, <2>6, <3>1, <3>2, <3>3
  <2>9. WaylandInv'
    BY <1>1, <2>4, <2>5, <2>7, <2>8 DEF WaylandInv
  <2>10. WindowTypeOK'
    BY <1>1, <1>2, <2>2 DEF WindowInv, WindowTypeOK, WindowEvents, Kinds
  <2>11. ViewInv'
    <3>1. n + 2 \in 1 .. Len(events') /\ events'[n + 2].kind = "done"
      BY <2>1, <2>3
    <3> QED BY <1>1, <3>1 DEF WindowInv, ViewInv
  <2> QED BY <1>1, <1>5, <2>9, <2>10, <2>11 DEF WindowInv
<1> QED BY <1>4, <1>5, WindowTypes DEF WindowInv

\* One event more on Wayland that fits.
LEMMA WaylandMore ==
  ASSUME WindowInv, server = "wayland", NEW e \in WindowEvents, events' = Append(events, e),
         e.kind \in {"closed", "done"}, Fitting(exist, e), exist' = Changed(exist, e),
         UNCHANGED <<server, listed, ids, reading, loading, timer, idle, inView>>
  PROVE  WindowInv'
<1> DEFINE n == Len(events)
<1>1. /\ events' \in Seq(WindowEvents) /\ events' # <<>> /\ ViewInv'
      /\ \A k : Queued(k) /\ e.kind \in k => Queued(k)'
  BY OneMore
<1>2. WaylandInv /\ exist \in SUBSET Windows /\ events \in Seq(WindowEvents) /\ n \in Nat
      /\ ToSet(ids) \in SUBSET Windows
  BY WindowTypes DEF WindowInv
<1>3. exist' \in SUBSET Windows
  BY <1>2, ChangedType
<1>4. Leads(ToSet(ids), events', exist')
  BY <1>2, LeadsOn DEF WaylandInv
<1>5. /\ Len(events') = n + 1 /\ events'[n + 1] = e
      /\ \A i \in 1 .. n : events'[i] = events[i]
  BY <1>2
<1> HIDE DEF n
<1>6. \A i \in 1 .. n + 1 : i \in 1 .. n \/ i = n + 1
  BY <1>2
<1>7. ASSUME NEW i \in 1 .. Len(events'), events'[i].kind = "toplevel"
      PROVE  i < Len(events') /\ events'[i + 1].kind = "done"
  <2>1. i \in 1 .. n
    BY <1>5, <1>6, <1>7
  <2>2. i < n /\ events[i + 1].kind = "done"
    BY <1>2, <1>5, <1>7, <2>1 DEF WaylandInv, n
  <2>3. i + 1 \in 1 .. n
    BY <1>2, <2>1, <2>2
  <2> QED BY <1>2, <1>5, <2>2, <2>3
<1>8. WaylandInv'
  BY <1>1, <1>2, <1>4, <1>7 DEF WaylandInv
<1>9. WindowTypeOK'
  BY <1>1, <1>3 DEF WindowInv, WindowTypeOK, WindowEvents, Kinds
<1> QED BY <1>1, <1>8, <1>9 DEF WindowInv

\* A window is closed, or has another title.
LEMMA DestroyKeeps ==
  ASSUME WindowInv, NEW w \in Windows, Destroy(w) \/ NewTitle(w)
  PROVE  WindowInv'
<1>1. events \in Seq(WindowEvents) /\ exist \in SUBSET Windows /\ (server = "x11" \/ server = "wayland")
  BY WindowTypes DEF WindowInv
<1>2. \A k \in Kinds : /\ Event(k, w) \in WindowEvents /\ Event(k, w).kind = k /\ Event(k, w).window = w
                      /\ events \o <<Event(k, w)>> = Append(events, Event(k, w))
  <2>1. \A k \in Kinds : Event(k, w) \in WindowEvents /\ Event(k, w).kind = k /\ Event(k, w).window = w
    BY DEF WindowEvents, Event
  <2> QED BY <1>1, <2>1, TellIs
<1>3. UNCHANGED <<server, listed, ids, reading, loading, timer, idle, inView>>
  BY DEF Destroy, NewTitle
<1>4. CASE Destroy(w)
  <2>1. w \in exist /\ exist' = exist \ {w}
    BY <1>4 DEF Destroy
  <2>2. CASE server = "x11"
    <3> DEFINE e == Event("destroy", w)
    <3>1. e \in WindowEvents /\ e.kind = "destroy" /\ events' = Append(events, e)
      BY <1>2, <1>4, <2>2 DEF Destroy, Tell, Kinds
    <3> HIDE DEF e
    <3> QED BY <1>1, <1>3, <2>1, <2>2, <3>1, X11More
  <2>3. CASE server = "wayland"
    <3> DEFINE e == Event("closed", w)
    <3>1. e \in WindowEvents /\ e.kind = "closed" /\ e.window = w /\ events' = Append(events, e)
      BY <1>2, <1>4, <2>3 DEF Destroy, Tell, Kinds
    <3> HIDE DEF e
    <3>2. Fitting(exist, e) /\ exist' = Changed(exist, e)
      BY <2>1, <3>1 DEF Fitting, Changed
    <3> QED BY <1>3, <2>3, <3>1, <3>2, WaylandMore
  <2> QED BY <1>1, <2>2, <2>3
<1>5. CASE NewTitle(w)
  <2> DEFINE e == Event("done", w)
  <2>1. e \in WindowEvents /\ e.kind = "done" /\ events' = Append(events, e) /\ exist' = exist
        /\ server = "wayland"
    BY <1>2, <1>5 DEF NewTitle, Tell, Kinds
  <2> HIDE DEF e
  <2>2. Fitting(exist, e) /\ exist' = Changed(exist, e)
    BY <2>1 DEF Fitting, Changed
  <2> QED BY <1>3, <2>1, <2>2, WaylandMore
<1> QED BY <1>4, <1>5

\* The window manager keeps its list.
LEMMA ManageKeeps ==
  ASSUME WindowInv, NEW w \in Windows, Manage(w)
  PROVE  WindowInv'
<1>1. /\ server = "x11" /\ UNCHANGED <<server, exist, events, ids, reading, loading, timer, idle, inView>>
      /\ \/ w \notin ToSet(listed) /\ listed' = Append(listed, w)
         \/ w \in ToSet(listed) /\ listed' = Without(listed, w)
  BY DEF Manage
<1>2. listed \in Seq(Windows) /\ IsInjective(listed) /\ X11Inv
  BY <1>1 DEF WindowInv, WindowTypeOK, X11Inv
<1>3. listed' \in Seq(Windows) /\ IsInjective(listed')
  <2>1. CASE w \notin ToSet(listed) /\ listed' = Append(listed, w)
    <3>1. \A i, j \in DOMAIN listed : i # j => listed[i] # listed[j]
      BY <1>2 DEF IsInjective
    <3>2. \A i, j \in DOMAIN Append(listed, w) : i # j => Append(listed, w)[i] # Append(listed, w)[j]
      BY <1>2, <2>1, <3>1, AppendNew
    <3> QED BY <1>2, <2>1, <3>2 DEF IsInjective
  <2>2. CASE w \in ToSet(listed) /\ listed' = Without(listed, w)
    <3>1. listed' = RemoveAt(listed, CHOOSE i \in DOMAIN listed : listed[i] = w)
      BY <2>2 DEF Without
    <3> QED BY <1>2, <2>2, <3>1, RemoveInjective
  <2> QED BY <1>1, <2>1, <2>2
<1>4. X11Inv'
  BY <1>1, <1>2, <1>3 DEF X11Inv, Queued
<1>5. WindowTypeOK' /\ ViewInv'
  BY <1>1, <1>3 DEF WindowInv, WindowTypeOK, ViewInv
<1> QED BY <1>1, <1>4, <1>5 DEF WindowInv

-----------------------------------------------------------------------------
(* The theorems.                                                           *)

\* The windows in any order, each once.
LEMMA OrderOfAll ==
  ASSUME NEW S, IsFiniteSet(S), NEW s \in SetToSeqs(S)
  PROVE  s \in Seq(S) /\ IsInjective(s) /\ ToSet(s) = S
<1> DEFINE n == Cardinality(S)
<1>1. n \in Nat
  BY FS_CardinalityType
<1>2. s \in [1 .. n -> S] /\ \A i, j \in 1 .. n : i # j => s[i] # s[j]
  BY DEF SetToSeqs
<1>3. IsFiniteSet(1 .. n) /\ Cardinality(1 .. n) = n
  BY <1>1, FS_Interval
<1> HIDE DEF n
<1>4. s \in Seq(S) /\ DOMAIN s = 1 .. n
  BY <1>1, <1>2
<1>5. IsInjective(s)
  BY <1>2, <1>4 DEF IsInjective
<1>6. s \in Injection(1 .. n, S)
  BY <1>2 DEF Injection, IsInjective
<1>7. s \in Surjection(1 .. n, S)
  <2>1. Cardinality(S) = n
    BY DEF n
  <2> QED BY <1>3, <1>6, <2>1, FS_Injection
<1>8. ToSet(s) = S
  <2>1. S \subseteq ToSet(s)
    BY <1>4, <1>7 DEF Surjection, ToSet
  <2>2. ToSet(s) \subseteq S
    BY <1>4, SetOfSeq
  <2> QED BY <2>1, <2>2
<1> QED BY <1>4, <1>5, <1>8

\* A sequence from its last element to the first one.
LEMMA ReverseInjective ==
  ASSUME NEW S, NEW s \in Seq(S), IsInjective(s)
  PROVE  Reverse(s) \in Seq(S) /\ IsInjective(Reverse(s))
<1> DEFINE n == Len(s)
           r == Reverse(s)
<1>1. n \in Nat /\ DOMAIN s = 1 .. n
  OBVIOUS
<1>2. r = [i \in 1 .. n |-> s[(n - i) + 1]]
  BY DEF Reverse
<1>3. \A i \in 1 .. n : (n - i) + 1 \in 1 .. n
  BY <1>1
<1> HIDE DEF n, r
<1>4. r \in Seq(S) /\ DOMAIN r = 1 .. n
  <2>1. \A i \in 1 .. n : s[(n - i) + 1] \in S
    BY <1>1, <1>3
  <2>2. r \in [1 .. n -> S]
    BY <1>2, <2>1
  <2> QED BY <1>1, <2>2
<1>5. \A i, j \in 1 .. n : r[i] = r[j] => i = j
  <2> TAKE i, j \in 1 .. n
  <2> HAVE r[i] = r[j]
  <2>1. s[(n - i) + 1] = s[(n - j) + 1]
    BY <1>2
  <2>2. (n - i) + 1 = (n - j) + 1
    BY <1>1, <1>3, <2>1 DEF IsInjective
  <2> QED BY <1>1, <2>2
<1> QED BY <1>4, <1>5 DEF IsInjective, r

\* At the start rofi knows of every window.
LEMMA WindowStart ==
  ASSUME WindowInit
  PROVE  WindowInv
<1>1. /\ server \in Servers /\ exist \in SUBSET Windows
      /\ ids \in SetToSeqs(exist) /\ inView = ids
      /\ server = "x11" => listed = Reverse(ids)
      /\ server # "x11" => listed = <<>>
      /\ events = <<>> /\ reading = <<>> /\ loading = FALSE /\ timer = FALSE /\ idle = FALSE
  BY DEF WindowInit
<1>2. IsFiniteSet(exist)
  BY <1>1, FS_Subset
<1>3. ids \in Seq(exist) /\ IsInjective(ids) /\ ToSet(ids) = exist
  BY <1>1, <1>2, OrderOfAll
<1>4. ids \in Seq(Windows)
  BY <1>1, <1>3
<1>5. Reverse(ids) \in Seq(Windows) /\ IsInjective(Reverse(ids))
  BY <1>3, <1>4, ReverseInjective
<1>6. <<>> \in Seq(Windows) /\ <<>> \in Seq(WindowEvents) /\ IsInjective(<<>>)
  BY DEF IsInjective
<1>7. \A kinds : Queued(kinds)
  BY <1>1 DEF Queued
<1>8. WindowTypeOK
  BY <1>1, <1>4, <1>5, <1>6 DEF WindowTypeOK, WindowEvents, Kinds
<1>9. ViewInv
  BY <1>1, <1>3 DEF ViewInv
<1>10. X11Inv \/ server # "x11"
  BY <1>1, <1>3, <1>5, <1>6, <1>7, SetOfEmpty DEF X11Inv
<1>11. WaylandInv \/ server # "wayland"
  <2>1. Leads(ToSet(ids), events, exist)
    BY <1>1, <1>3, LeadsToItself
  <2> QED BY <1>1, <1>7, <2>1 DEF WaylandInv
<1> QED BY <1>8, <1>9, <1>10, <1>11 DEF WindowInv

\* Every step keeps it.
LEMMA WindowNextKeeps ==
  ASSUME WindowInv, [WindowNext]_wmvars
  PROVE  WindowInv'
<1>1. CASE UNCHANGED wmvars
  <2>1. /\ UNCHANGED <<server, exist, listed, events, ids>>
        /\ UNCHANGED <<reading, loading, timer, idle, inView>>
    BY <1>1 DEF wmvars
  <2>2. WindowTypeOK' /\ ViewInv'
    BY <2>1 DEF WindowInv, WindowTypeOK, ViewInv
  <2>3. (X11Inv => X11Inv') /\ (WaylandInv => WaylandInv')
    BY <2>1 DEF X11Inv, WaylandInv, Queued
  <2> QED BY <2>1, <2>2, <2>3 DEF WindowInv
<1>2. CASE HandleSignal
  BY <1>2, SignalKeeps
<1>3. CASE ClientReload
  BY <1>3, ReloadKeeps
<1>4. CASE WindowClient
  BY <1>4, ClientKeeps
<1>5. CASE LoadEnds
  BY <1>5, LoadEndsKeeps
<1>6. CASE Toplevel
  BY <1>6, ToplevelKeeps
<1>7. CASE HandleDone
  BY <1>7, DoneKeeps
<1>8. CASE HandleClosed
  BY <1>8, ClosedKeeps
<1>9. CASE ViewReload
  BY <1>9, ViewKeeps
<1>10. ASSUME NEW w \in Windows, Create(w) \/ Destroy(w) \/ NewTitle(w) \/ Manage(w)
       PROVE  WindowInv'
  BY <1>10, CreateKeeps, DestroyKeeps, ManageKeeps
<1> QED BY <1>1, <1>2, <1>3, <1>4, <1>5, <1>6, <1>7, <1>8, <1>9, <1>10 DEF WindowNext

\* Whatever the servers do, a window that is gone is announced or its row is on
\* the way out, and what is under way on Wayland leads from rofi's list to the
\* windows there are.
THEOREM WindowInvariant == WindowSpec => []WindowInv
<1>1. WindowInit => WindowInv
  BY WindowStart
<1>2. WindowInv /\ [WindowNext]_wmvars => WindowInv'
  BY WindowNextKeeps
<1> QED BY <1>1, <1>2, PTL DEF WindowSpec

\* The variables of the window modes have their types.
THEOREM WindowTypesCorrect == WindowSpec => []WindowTypeOK
<1>1. WindowInv => WindowTypeOK
  BY DEF WindowInv
<1> QED BY <1>1, WindowInvariant, PTL

\* When no change is under way the view shows no window that is gone and none
\* twice, and on Wayland it shows every window, for any windows and any number of
\* changes under way.
THEOREM RowsAreWindows == WindowSpec => []RowsFollowWindows
<1>1. ASSUME WindowInv, events = <<>>, ~timer, ~loading, ~idle
      PROVE  /\ ToSet(inView) \subseteq exist /\ IsInjective(inView)
             /\ server = "wayland" => ToSet(inView) = exist
  <2>1. inView = ids /\ IsInjective(inView)
    BY <1>1 DEF WindowInv, ViewInv
  <2>2. CASE server = "x11"
    BY <1>1, <2>1, <2>2 DEF WindowInv, X11Inv
  <2>3. CASE server = "wayland"
    <3>1. Leads(ToSet(ids), <<>>, exist)
      BY <1>1, <2>3 DEF WindowInv, WaylandInv
    <3>2. ToSet(ids) = exist
      BY <3>1, LeadsNowhere
    <3> QED BY <2>1, <3>2
  <2> QED BY <1>1, <2>2, <2>3, WindowTypes DEF WindowInv
<1>2. WindowInv => RowsFollowWindows
  BY <1>1 DEF RowsFollowWindows
<1> QED BY <1>2, WindowInvariant, PTL
=============================================================================
