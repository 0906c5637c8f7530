------------------------------ MODULE TextEdit ------------------------------
(***************************************************************************)
(* The editable text box (widgets/textbox.c): the cursor, the key bindings *)
(* that move it and edit the text, the text that is typed, and the layout  *)
(* that is drawn, which is renewed only when the text is marked changed.   *)
(* Offsets count characters from 0, as in the code: the character at       *)
(* offset i is text[i + 1].  A character is a letter, a space or a control *)
(* character.                                                              *)
(***************************************************************************)
EXTENDS Integers, Sequences, SequencesExt, FiniteSetsExt

CONSTANTS
  MaxLen,    \* bound: characters of the text
  Typed      \* the strings the input method delivers, or the program sets

TextEditAssumption == MaxLen \in Nat /\ Typed \subseteq Seq({"letter", "space", "control"})
ASSUME TextEditAssumption

VARIABLES
  text, cursor,
  blink, changed,
  flags,     \* [editable, password, placeholder]
  layout,    \* what pango lays out: [kind, len]
  answer     \* textbox_keybinding: 0 unhandled, 1 text changed, 2 moved

tvars == <<text, cursor, blink, changed, flags, layout, answer>>

Letter(s, i) == s[i + 1] = "letter"
Clamp(s, pos) == IF pos < 0 THEN 0 ELSE IF pos > Len(s) THEN Len(s) ELSE pos
Keep(s, from, to) == SubSeq(s, from + 1, to)

(* __textbox_update_pango_text *)
Visible(s) ==
  IF flags.placeholder /\ s = <<>> THEN [kind |-> "placeholder", len |-> 1]
  ELSE [kind |-> IF flags.password THEN "mask" ELSE "text", len |-> Len(s)]

TextInit ==
  /\ flags \in [editable : BOOLEAN, password : BOOLEAN, placeholder : BOOLEAN]
  /\ text = <<>> /\ cursor = 0 /\ blink = 1 /\ changed = FALSE /\ answer = 0
  /\ layout = Visible(<<>>)

(***************************************************************************)
(* Moving by words.  Without a word ahead the code runs past the end of    *)
(* the text, and at the start of the text it runs back out of it; what it  *)
(* finds there is cut back to the end and to the start.                    *)
(***************************************************************************)
IncWord(s, c) ==
  LET ahead == {i \in c + 1 .. Len(s) - 1 : Letter(s, i)}
      ends == {i \in Min(ahead) + 1 .. Len(s) : i = Len(s) \/ ~Letter(s, i)}
  IN  IF ahead = {} THEN Len(s) ELSE Min(ends)

DecWord(s, c) ==
  LET last == Max({0} \union {i \in 0 .. c - 1 : Letter(s, i)})
      first == Min({j \in 0 .. last : \A i \in j .. last : Letter(s, i)})
  IN  IF last = 0 THEN 0 ELSE first

(***************************************************************************)
(* textbox_insert and textbox_delete, on [text, cursor].                   *)
(***************************************************************************)
Insert(e, char) ==
  [text |-> Keep(e.text, 0, e.cursor) \o <<char>> \o Keep(e.text, e.cursor, Len(e.text)),
   cursor |-> e.cursor + 1]

(* Mutant: the cursor behind what is removed does not move. *)
DeleteKeepingCursor(e, pos, n) ==
  LET dlen == IF pos + n > Len(e.text) THEN Len(e.text) - pos ELSE n
  IN  [text |-> Keep(e.text, 0, pos) \o Keep(e.text, pos + dlen, Len(e.text)), cursor |-> e.cursor]

Delete(e, pos, n) ==
  LET len == Len(e.text)
      dlen == IF pos + n > len THEN len - n ELSE n
  IN  IF pos = len THEN e
      ELSE [text |-> Keep(e.text, 0, pos) \o Keep(e.text, pos + dlen, len),
            cursor |-> IF e.cursor \in pos .. pos + dlen - 1 THEN pos
                       ELSE IF e.cursor >= pos + dlen THEN e.cursor - dlen ELSE e.cursor]

Now == [text |-> text, cursor |-> cursor]
At(c) == [text |-> text, cursor |-> c]

(* An edit marks the layout as changed, if it gets as far as that. *)
Edit(e, touched) ==
  /\ text' = e.text /\ cursor' = e.cursor /\ answer' = 1
  /\ changed' = (changed \/ touched)
  /\ blink' = IF touched THEN 2 ELSE 3
  /\ UNCHANGED <<flags, layout>>
Nothing == answer' = 1 /\ UNCHANGED <<text, cursor, blink, changed, flags, layout>>
PutCursor(c, ret) ==
  /\ cursor' = c /\ answer' = ret /\ blink' = 3
  /\ UNCHANGED <<text, changed, flags, layout>>

Removing(e, pos, n) == IF pos = Len(text) THEN Nothing ELSE Edit(Delete(e, pos, n), TRUE)

MoveCharBack == PutCursor(Clamp(text, cursor - 1), IF cursor > 0 THEN 2 ELSE 0)
MoveCharForward == PutCursor(Clamp(text, cursor + 1), IF cursor < Len(text) THEN 2 ELSE 0)
MoveFront == PutCursor(0, 2)
MoveEnd ==
  /\ cursor' = Len(text) /\ answer' = 2 /\ blink' = 2
  /\ UNCHANGED <<text, changed, flags, layout>>
MoveWordBack == PutCursor(DecWord(text, cursor), 2)
MoveWordForward == PutCursor(IncWord(text, cursor), 2)

RemoveCharForward == Removing(Now, cursor, 1)
RemoveCharBack ==
  IF cursor > 0 THEN Removing(At(cursor - 1), cursor - 1, 1) ELSE Nothing
RemoveWordBack ==
  LET c == DecWord(text, cursor)
  IN  IF cursor > 0 THEN Removing(At(c), c, cursor - c) ELSE Nothing
RemoveWordForward ==
  LET c == IncWord(text, cursor)
  IN  IF cursor < c THEN Removing(At(c), cursor, c - cursor) ELSE Edit(At(c), FALSE)
RemoveToEol == Removing(Now, cursor, Len(text) - cursor)
RemoveToSol == Removing(Now, 0, cursor)

TransposeChars ==
  IF cursor < 2 THEN Nothing
  ELSE Edit([text |-> [text EXCEPT ![cursor] = text[cursor - 1], ![cursor - 1] = text[cursor]],
             cursor |-> cursor], TRUE)

(* textbox_text: the cursor keeps its place as far as the text reaches. *)
SetText(s) ==
  /\ text' = s /\ cursor' = Clamp(s, cursor)
  /\ layout' = Visible(s)
  /\ UNCHANGED <<blink, changed, flags>>
ClearLine == SetText(<<>>) /\ answer' = 1

KeyBinding ==
  /\ flags.editable
  /\ \/ MoveCharBack \/ MoveCharForward \/ MoveFront \/ MoveEnd
     \/ MoveWordBack \/ MoveWordForward
     \/ RemoveCharForward \/ RemoveCharBack \/ RemoveWordBack \/ RemoveWordForward
     \/ RemoveToEol \/ RemoveToSol \/ TransposeChars \/ ClearLine

(* textbox_append_text: spaces of any kind become a space, control         *)
(* characters are left out; each other one is inserted at the cursor, which *)
(* moves on.                                                               *)
Appended(e, pad) ==
  LET after[i \in 0 .. Len(pad)] ==
        IF i = 0 THEN e
        ELSE IF pad[i] = "control" THEN after[i - 1] ELSE Insert(after[i - 1], pad[i])
  IN  after[Len(pad)]
AppendText(pad) ==
  /\ flags.editable /\ \E i \in 1 .. Len(pad) : pad[i] # "control"
  /\ Len(text) + Len(pad) <= MaxLen
  /\ LET e == Appended(Now, pad)
     IN  /\ text' = e.text /\ cursor' = Clamp(e.text, e.cursor)
         /\ changed' = TRUE /\ blink' = 3 /\ answer' = 1
         /\ UNCHANGED <<flags, layout>>

(* The program sets the text; a click puts the cursor anywhere or at the end. *)
Empty == [text |-> <<>>, cursor |-> 0]
Program(s) == Len(s) <= MaxLen /\ SetText(s) /\ answer' = 0
ClickAt(c) ==
  /\ flags.editable
  /\ cursor' = Clamp(text, c) /\ blink' = IF c >= layout.len THEN 2 ELSE 3
  /\ answer' = 0
  /\ UNCHANGED <<text, changed, flags, layout>>

Blink ==
  /\ flags.editable
  /\ blink' = IF blink < 2 THEN 1 - blink ELSE blink - 1
  /\ UNCHANGED <<text, cursor, changed, flags, layout, answer>>

(* The mark is never taken back: from then on every drawing lays out anew. *)
DrawText ==
  /\ layout' = IF changed THEN Visible(text) ELSE layout
  /\ UNCHANGED <<text, cursor, blink, changed, flags, answer>>

TextNext ==
  \/ KeyBinding \/ Blink \/ DrawText
  \/ \E pad \in Typed : AppendText(pad) \/ Program(Appended(Empty, pad).text)
  \/ \E c \in 0 .. layout.len : ClickAt(c)

TextSpec == TextInit /\ [][TextNext]_tvars

TextTypeOK ==
  /\ text \in Seq({"letter", "space"}) /\ Len(text) <= MaxLen /\ cursor \in Nat
  /\ flags \in [editable : BOOLEAN, password : BOOLEAN, placeholder : BOOLEAN]
  /\ blink \in 0 .. 3 /\ answer \in 0 .. 2 /\ changed \in BOOLEAN
  /\ layout \in [kind : {"placeholder", "mask", "text"}, len : Nat]

(* The cursor is in the text, whatever the order of the edits; and a       *)
(* layout that is not marked for renewal is that of the text.              *)
CursorInText == cursor \in 0 .. Len(text) /\ (changed \/ layout = Visible(text))

(* Moving by words stops at the start of the last word before the cursor   *)
(* and at the end of a word behind it.                                     *)
WordMoves ==
  LET Starts == {i \in 0 .. Len(text) - 1 : Letter(text, i) /\ (i = 0 \/ ~Letter(text, i - 1))}
      Ends == {i \in 1 .. Len(text) : Letter(text, i - 1) /\ (i = Len(text) \/ ~Letter(text, i))}
      back == DecWord(text, cursor)
      on == IncWord(text, cursor)
  IN  /\ back = Max({0} \union {i \in Starts : i < cursor})
      /\ on \in Ends \union {Len(text)} /\ on >= cursor

(* What an edit leaves alone: removing backwards keeps the text behind the *)
(* cursor, removing forwards keeps the text before it and the cursor, and  *)
(* a key that answers 2 or 0 has changed nothing the filter depends on.    *)
Rest(s, c) == Keep(s, c, Len(s))
EditStep ==
  /\ RemoveCharBack \/ RemoveWordBack \/ RemoveToSol =>
       cursor' <= cursor /\ Rest(text', cursor') = Rest(text, cursor)
  /\ RemoveCharForward \/ RemoveWordForward \/ RemoveToEol =>
       cursor' = cursor /\ Keep(text', 0, cursor') = Keep(text, 0, cursor)
  /\ \A pad \in Typed :
       AppendText(pad) => /\ Keep(text', 0, cursor) = Keep(text, 0, cursor)
                          /\ Rest(text', cursor') = Rest(text, cursor)
  /\ KeyBinding /\ text' # text => answer' = 1

(* After every step the cursor is in the text, by characters and by words, *)
(* and an edit leaves the other side of the cursor alone; no edit goes     *)
(* without the answer on which the view starts the filter.                 *)
EditsSound == [][CursorInText' /\ WordMoves' /\ EditStep]_tvars
=============================================================================
