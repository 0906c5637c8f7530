---------------------------- MODULE Lists_proofs ----------------------------
(***************************************************************************)
(* Proofs about lists and settings.  The list view: the selection exists   *)
(* and is on the page that is drawn, a click selects the row under it and  *)
(* the list gets the lines it asks for, for any theme, any heights and     *)
(* numbers of rows.  The recursive browser: no file is listed twice, and   *)
(* every file that can be reached is listed if no two directories have one *)
(* hash, for any directories and links, any limit of the queue and any     *)
(* pipe.  The options: no text is used after it was freed, the last good   *)
(* word counts and every key does one thing, for any arguments and files.  *)
(* The text box: the cursor stays in the text and an edit leaves the other *)
(* side of it alone, for any text and any strings that are typed.          *)
(***************************************************************************)
EXTENDS ListView, RecursiveBrowser, Options, TextEdit, SequenceLemmas, FiniteSetTheorems

-----------------------------------------------------------------------------
(* Words, quotients and the first row that is drawn.                       *)

\* What the theme and the rows may be.
LEMMA LookType ==
  ASSUME look \in Looks
  PROVE  /\ look.bar \in BOOLEAN /\ look.columns \in Nat \ {0} /\ look.lines \in Nat
         /\ MaxListed \in Nat /\ Word \in Nat /\ 2 * MaxListed < Word
         /\ ElementH \in Nat \ {0} /\ Gap \in Nat
         /\ ElementsAt(look.lines, look) < Word
         /\ \A h \in Heights : h \in Nat /\ ElementsAt(RowsAt(h), look) < Word
BY ListViewAssumption DEF ListViewAssumption

\* A quotient and its remainder.
LEMMA Quotient ==
  ASSUME NEW a \in Nat, NEW m \in Nat \ {0}
  PROVE  /\ a \div m \in Nat
         /\ (a \div m) * m <= a
         /\ a < (a \div m) * m + m
BY SMTT(30)

\* A quotient that is known by its bounds.
LEMMA QuotientIs ==
  ASSUME NEW a \in Nat, NEW m \in Nat \ {0}, NEW q \in Nat, q * m <= a, a < q * m + m
  PROVE  a \div m = q
BY SMTT(30)

\* A difference of words: it wraps around below zero.
LEMMA MinusIs ==
  ASSUME Word \in Nat, NEW a \in 0 .. Word - 1, NEW b \in 0 .. Word - 1
  PROVE  /\ Minus(a, b) \in 0 .. Word - 1
         /\ b <= a => Minus(a, b) = a - b
         /\ a < b => Minus(a, b) = Word + a - b
BY SMTT(30) DEF Minus

\* A page around the middle has the row it is for.
LEMMA CentredShows ==
  ASSUME Word \in Nat, NEW n \in 0 .. Word - 1, NEW r \in 0 .. Word - 1,
         NEW s \in Nat, s < n, NEW middle \in Nat, middle < r
  PROVE  /\ Centred(s, n, r, middle) \in 0 .. s
         /\ s < Centred(s, n, r, middle) + r
<1>1. Minus(r, middle) = r - middle /\ r - middle \in 0 .. Word - 1
  BY MinusIs
<1>2. /\ Minus(r, middle) <= n => Minus(n, Minus(r, middle)) = n - (r - middle)
      /\ n < Minus(r, middle) => Minus(n, Minus(r, middle)) = Word + n - (r - middle)
  <2> DEFINE d == Minus(r, middle)
  <2>1. d \in 0 .. Word - 1 /\ d = r - middle
    BY <1>1
  <2> HIDE DEF d
  <2>2. d <= n => Minus(n, d) = n - d
    BY <2>1, MinusIs
  <2>3. n < d => Minus(n, d) = Word + n - d
    BY <2>1, MinusIs
  <2> QED BY <2>1, <2>2, <2>3 DEF d
<1> QED BY <1>1, <1>2 DEF Centred

\* A page around the middle begins no later than its row or the last page.
LEMMA CentredType ==
  ASSUME NEW s \in Nat, NEW n \in Nat, NEW r \in Nat, NEW middle \in Nat
  PROVE  \/ Centred(s, n, r, middle) \in 0 .. s
         \/ s > middle /\ n > r /\ Centred(s, n, r, middle) = n - r
BY DEF Centred

-----------------------------------------------------------------------------
(* The inductive invariant of the list.                                    *)

\* The counts of rows and elements agree, the selection is a row of the list
\* unless that is empty, the elements on the screen showed consecutive rows,
\* and on an up-to-date page the selected row is one of them.
ListCounts ==
  /\ cur <= MaxListed /\ vis <= MaxListed
  /\ rows > 0 => cur = MIN(req, max)
  /\ ~look.bar => max = ElementsAt(rows, look) /\ max < Word
  /\ look.bar => sel <= MaxListed /\ off <= MaxListed
ShowsPage == \A i \in 1 .. Len(shown) : shown[i] = off + i - 1
PageHasSelection ==
  UpToDate /\ max > 0 /\ ~look.bar =>
    off <= sel /\ sel < off + Len(shown) /\ off + Len(shown) <= req
ListInv == ListTypeOK /\ ListCounts /\ SelectionExists /\ ShowsPage /\ PageHasSelection

\* The page of a list that scrolls by pages.
LEMMA PerPageShows ==
  ASSUME Word \in Nat, sel \in 0 .. Word - 1, off \in 0 .. Word - 1, max \in Nat
  PROVE  /\ PerPage \in 0 .. Word - 1
         /\ max > 0 => PerPage <= sel /\ sel < PerPage + max
<1>1. CASE Minus(sel, off) < max /\ sel >= off
  <2>1. Minus(sel, off) = sel - off
    BY <1>1, MinusIs
  <2> QED BY <1>1, <2>1 DEF PerPage
<1>2. CASE ~(Minus(sel, off) < max /\ sel >= off) /\ max > 0
  <2> DEFINE p == (sel \div max) * max
  <2>1. p \in Nat /\ p <= sel /\ sel < p + max
    BY <1>2, Quotient
  <2>2. PerPage = p
    BY <1>2 DEF PerPage
  <2> HIDE DEF p
  <2> QED BY <2>1, <2>2
<1>3. CASE ~(Minus(sel, off) < max /\ sel >= off) /\ max = 0
  BY <1>3 DEF PerPage
<1> QED BY <1>1, <1>2, <1>3

\* The rows and columns around the middle are less than a page.
LEMMA MiddleFits ==
  ASSUME Word \in Nat, NEW r \in Nat, NEW c \in Nat \ {0}, r > 0, r * c < Word
  PROVE  /\ r \in 0 .. Word - 1
         /\ Minus(r, 1) = r - 1
         /\ (r - 1) \div 2 \in 0 .. r - 1
         /\ (c - 1) \div 2 \in Nat
         /\ r * ((c - 1) \div 2) + ((r - 1) \div 2) \in Nat
         /\ r * ((c - 1) \div 2) + ((r - 1) \div 2) < r * c
<1>1. r <= r * c
  BY SMTT(30)
<1>2. Minus(r, 1) = r - 1
  <2>1. r * c \in Nat
    BY SMTT(30)
  <2>2. r \in 0 .. Word - 1 /\ 1 \in 0 .. Word - 1
    BY <1>1, <2>1
  <2> QED BY <2>2, MinusIs
<1>3. (r - 1) \div 2 \in 0 .. r - 1
  OBVIOUS
<1>4. (c - 1) \div 2 \in 0 .. c - 1
  OBVIOUS
<1>5. ASSUME NEW d \in 0 .. c - 1
      PROVE  r * d \in Nat /\ r * d + r <= r * c
  <2>1. r * (d + 1) <= r * c
    BY SMTT(30)
  <2> QED BY <2>1, SMTT(30)
<1>6. /\ r * ((c - 1) \div 2) \in Nat
      /\ r * ((c - 1) \div 2) + r <= r * c
  BY <1>4, <1>5
<1> QED BY <1>1, <1>2, <1>3, <1>4, <1>6

\* The page of a list that scrolls row by row, filled column by column.
LEMMA ElementsShow ==
  ASSUME Word \in Nat, look.columns \in Nat \ {0}, rows \in Nat, rows > 0,
         max = rows * look.columns, max < Word, req \in 0 .. Word - 1, sel \in Nat, sel < req
  PROVE  /\ ContinuousElements \in 0 .. sel
         /\ sel < ContinuousElements + max
<1> DEFINE m == rows * ((look.columns - 1) \div 2) + ((rows - 1) \div 2)
<1>1. m \in Nat /\ m < max /\ Minus(rows, 1) = rows - 1
  BY MiddleFits
<1>2. m % Word = m
  <2>1. max \in Nat
    BY SMTT(30)
  <2> HIDE DEF m
  <2>2. m \in 0 .. Word - 1
    BY <1>1, <2>1
  <2> QED BY <2>2, SMTT(30)
<1>3. ContinuousElements = Centred(sel, req, max, m)
  BY <1>1, <1>2 DEF ContinuousElements
<1>4. max \in 0 .. Word - 1
  BY <1>1
<1> HIDE DEF m
<1> QED BY <1>1, <1>3, <1>4, CentredShows

\* The number of rows of n elements.
LEMMA RowsOfElements ==
  ASSUME NEW n \in Nat, NEW c \in Nat \ {0}
  PROVE  /\ (n + c - 1) \div c \in Nat
         /\ ((n + c - 1) \div c) * c < n + c
         /\ (n + c - 1) \div c <= n
         /\ n = 0 => (n + c - 1) \div c = 0
         /\ \A s \in Nat : s < n => s \div c < (n + c - 1) \div c
<1> DEFINE q == (n + c - 1) \div c
<1>1. q \in Nat /\ q * c <= n + c - 1 /\ n + c - 1 < q * c + c
  BY Quotient
<1>2. ASSUME NEW s \in Nat, s < n PROVE s \div c < q
  <2> DEFINE p == s \div c
  <2>1. p \in Nat /\ p * c <= s
    BY Quotient
  <2>2. p * c + c < q * c + c
    BY <1>1, <1>2, <2>1
  <2> HIDE DEF p, q
  <2>3. ~(q <= p)
    <3> SUFFICES ASSUME q <= p PROVE FALSE
      OBVIOUS
    <3>1. q * c <= p * c
      BY <1>1, <2>1, SMTT(30)
    <3> QED BY <1>1, <2>1, <2>2, <3>1, SMTT(30)
  <2>4. p < q
    BY <2>3, <1>1, <2>1
  <2> QED BY <2>4 DEF p
<1>3. n = 0 => q = 0
  BY QuotientIs
<1>4. q <= n
  <2>1. CASE n = 0
    BY <2>1, <1>3
  <2>2. CASE n > 0 /\ q > n
    <3>1. (n + 1) * c <= q * c
      BY <2>2, <1>1, SMTT(30)
    <3>2. (n + 1) * c = n * c + c
      BY SMTT(30)
    <3>3. n <= n * c
      BY SMTT(30)
    <3> HIDE DEF q
    <3> QED BY <1>1, <3>1, <3>2, <3>3, <2>2
  <2> QED BY <2>1, <2>2, <1>1
<1> QED BY <1>1, <1>2, <1>3, <1>4

\* The page of a list that scrolls row by row, filled row by row.
LEMMA RowsShow ==
  ASSUME Word \in Nat, look.columns \in Nat \ {0}, rows \in Nat, rows > 0,
         max = rows * look.columns, max < Word, req \in 0 .. Word - 1, sel \in Nat, sel < req
  PROVE  /\ ContinuousRows \in 0 .. sel
         /\ sel < ContinuousRows + max
<1> DEFINE c == look.columns
           s == sel \div c
           n == (req + c - 1) \div c
           m == (rows - 1) \div 2
           o == Centred(s, n, rows, m)
<1>1. c \in Nat \ {0} /\ max = rows * c
  OBVIOUS
<1>2. s \in Nat /\ s * c <= sel /\ sel < s * c + c
  BY Quotient
<1>3. s < n /\ n \in 0 .. Word - 1
  <2>0. req \in Nat
    OBVIOUS
  <2> HIDE DEF c
  <2>1. n \in Nat /\ n <= req
    BY <1>1, <2>0, RowsOfElements
  <2>2. \A t \in Nat : t < req => t \div c < n
    BY <1>1, <2>0, RowsOfElements
  <2>3. s < n
    BY <2>2
  <2> HIDE DEF n
  <2> QED BY <2>1, <2>3
<1>4. rows \in 0 .. Word - 1 /\ Minus(rows, 1) = rows - 1 /\ m \in 0 .. rows - 1
  BY MiddleFits
<1>5. ContinuousRows = c * o
  BY <1>4 DEF ContinuousRows
<1> HIDE DEF c, s, n, m
<1>6. o \in 0 .. s /\ s < o + rows
  <2>1. m \in Nat /\ m < rows
    BY <1>4
  <2> QED BY <1>2, <1>3, <1>4, <2>1, CentredShows
<1> HIDE DEF o
<1>7. c * o \in Nat /\ c * o <= s * c
  BY <1>1, <1>2, <1>6, SMTT(30)
<1>8. s * c + c <= c * o + rows * c
  <2>1. (s + 1) * c <= (o + rows) * c
    BY <1>1, <1>2, <1>6, SMTT(30)
  <2>2. (s + 1) * c = s * c + c
    BY <1>1, <1>2, SMTT(30)
  <2>3. (o + rows) * c = c * o + rows * c
    BY <1>1, <1>2, <1>6, SMTT(30)
  <2> QED BY <2>1, <2>2, <2>3
<1>9. s * c \in Nat /\ rows * c \in Nat
  BY <1>1, <1>2, SMTT(30)
<1> QED BY <1>1, <1>2, <1>5, <1>7, <1>8, <1>9

\* What the invariant says of the state, with the types of the theme.
LEMMA ListFacts ==
  ASSUME ListInv
  PROVE  /\ look \in Looks /\ look.bar \in BOOLEAN
         /\ look.columns \in Nat \ {0} /\ look.lines \in Nat
         /\ MaxListed \in Nat /\ Word \in Nat /\ 2 * MaxListed < Word
         /\ req \in 0 .. MaxListed /\ req \in 0 .. Word - 1
         /\ sel \in 0 .. Word - 1 /\ off \in 0 .. Word - 1
         /\ rows \in Nat /\ max \in Nat /\ cur \in Nat /\ cols \in Nat /\ vis \in Nat
         /\ cur <= MaxListed /\ vis <= MaxListed
<1>1. look \in Looks
  BY DEF ListInv, ListTypeOK
<1>2. /\ look.bar \in BOOLEAN /\ look.columns \in Nat \ {0} /\ look.lines \in Nat
      /\ MaxListed \in Nat /\ Word \in Nat /\ 2 * MaxListed < Word
  BY <1>1, LookType
<1>3. /\ req \in 0 .. MaxListed
      /\ sel \in 0 .. Word - 1 /\ off \in 0 .. Word - 1
      /\ rows \in Nat /\ max \in Nat /\ cur \in Nat /\ cols \in Nat /\ vis \in Nat
      /\ cur <= MaxListed /\ vis <= MaxListed
  BY DEF ListInv, ListTypeOK, ListCounts
<1>4. req \in 0 .. Word - 1
  BY <1>2, <1>3
<1> QED BY <1>1, <1>2, <1>3, <1>4

\* A row that may be selected.
MaySelect(s) ==
  /\ s \in 0 .. Word - 1
  /\ req > 0 /\ ~look.bar => s < req
  /\ look.bar => s <= MaxListed

\* The page that is drawn has the selected row, however the list scrolls.
LEMMA PageShows ==
  ASSUME ListInv, ~look.bar, rows > 0, req > 0, max > 0
  PROVE  Offset \in 0 .. sel /\ sel < Offset + max
<1>0. /\ Word \in Nat /\ look.columns \in Nat \ {0} /\ rows \in Nat /\ max \in Nat
      /\ req \in 0 .. Word - 1 /\ sel \in 0 .. Word - 1 /\ off \in 0 .. Word - 1 /\ sel \in Nat
  BY ListFacts
<1>1. max = rows * look.columns /\ max < Word /\ sel < req
  BY DEF ListInv, ListCounts, SelectionExists, ElementsAt
<1>2. PerPage \in 0 .. sel /\ sel < PerPage + max
  BY <1>0, PerPageShows
<1>3. ContinuousElements \in 0 .. sel /\ sel < ContinuousElements + max
  BY <1>0, <1>1, ElementsShow
<1>4. ContinuousRows \in 0 .. sel /\ sel < ContinuousRows + max
  BY <1>0, <1>1, RowsShow
<1> QED BY <1>2, <1>3, <1>4 DEF Offset

\* The first row that is drawn fits a word, even when no row is drawn.
LEMMA OffsetType ==
  ASSUME ListInv, ~look.bar
  PROVE  Offset \in 0 .. Word - 1
<1>0. /\ Word \in Nat /\ look.columns \in Nat \ {0} /\ rows \in Nat /\ max \in Nat
      /\ MaxListed \in Nat /\ 2 * MaxListed < Word /\ req \in 0 .. MaxListed
      /\ req \in 0 .. Word - 1 /\ sel \in 0 .. Word - 1 /\ off \in 0 .. Word - 1 /\ sel \in Nat
      /\ req \in Nat
  BY ListFacts
<1>1. PerPage \in 0 .. Word - 1
  BY <1>0, PerPageShows
<1>2. ContinuousElements \in 0 .. Word - 1
  <2> DEFINE m == (rows * ((look.columns - 1) \div 2) + (Minus(rows, 1) \div 2)) % Word
  <2>1. m \in Nat
    <3>1. (look.columns - 1) \div 2 \in Int
      BY <1>0
    <3>2. rows * ((look.columns - 1) \div 2) \in Int
      BY <1>0, <3>1, SMTT(30)
    <3>3. Minus(rows, 1) \in Int
      BY <1>0 DEF Minus
    <3>4. Minus(rows, 1) \div 2 \in Int
      BY <3>3
    <3> QED BY <1>0, <3>2, <3>4, SMTT(30)
  <2>2. ContinuousElements = Centred(sel, req, max, m)
    BY DEF ContinuousElements
  <2> HIDE DEF m
  <2>3. \/ Centred(sel, req, max, m) \in 0 .. sel
        \/ max < req /\ Centred(sel, req, max, m) = req - max
    <3>1. sel \in Nat /\ req \in Nat /\ max \in Nat
      BY <1>0
    <3> QED BY <3>1, <2>1, CentredType
  <2> QED BY <1>0, <2>2, <2>3
<1>3. ContinuousRows \in 0 .. Word - 1
  <2> DEFINE c == look.columns
             s == sel \div c
             n == (req + c - 1) \div c
             m == Minus(rows, 1) \div 2
             o == Centred(s, n, rows, m)
  <2>1. s \in Nat /\ s * c <= sel /\ c \in Nat \ {0}
    BY <1>0, Quotient
  <2>2. n \in Nat /\ n * c < req + c /\ (req = 0 => n = 0)
    BY <1>0, RowsOfElements
  <2>3. m \in Nat
    BY <1>0, SMTT(30) DEF Minus
  <2>4. ContinuousRows = c * o
    BY DEF ContinuousRows
  <2>5. rows = 0 /\ req > 0 => s <= m
    <3> SUFFICES ASSUME rows = 0, req > 0 PROVE s <= m
      OBVIOUS
    <3>1. Minus(rows, 1) = Word - 1
      BY <1>0, MinusIs
    <3>2. MaxListed <= (Word - 1) \div 2
      BY <1>0
    <3>3. sel < req
      BY DEF ListInv, SelectionExists
    <3>4. s <= sel
      <4> HIDE DEF s
      <4>1. s <= s * c
        BY <2>1, SMTT(30)
      <4>2. s * c \in Int
        BY <2>1, SMTT(30)
      <4> QED BY <4>1, <4>2, <2>1, <1>0
    <3>5. m = (Word - 1) \div 2
      BY <3>1
    <3> HIDE DEF m, s
    <3> QED BY <1>0, <3>2, <3>3, <3>4, <3>5, <2>1
  <2> HIDE DEF c, s, n, m
  <2>6. \/ o \in 0 .. s
        \/ s > m /\ n > rows /\ o = n - rows
    <3> HIDE DEF o
    <3>1. s \in Nat /\ n \in Nat /\ rows \in Nat /\ m \in Nat
      BY <1>0, <2>1, <2>2, <2>3
    <3>2. \/ Centred(s, n, rows, m) \in 0 .. s
          \/ s > m /\ n > rows /\ Centred(s, n, rows, m) = n - rows
      BY <3>1, CentredType
    <3> QED BY <3>2 DEF o
  <2> HIDE DEF o
  <2>7. CASE o \in 0 .. s
    <3>1. c * o \in Nat /\ c * o <= s * c
      BY <2>1, <2>7, SMTT(30)
    <3>2. s * c \in Nat
      BY <2>1, SMTT(30)
    <3> QED BY <1>0, <2>1, <2>4, <3>1, <3>2
  <2>8. CASE s > m /\ n > rows /\ o = n - rows
    <3>1. rows > 0 /\ req > 0
      BY <1>0, <2>1, <2>2, <2>3, <2>5, <2>8
    <3>2. c * o \in Nat /\ c * o <= n * c - c
      <4>1. o \in Nat /\ o <= n - 1
        BY <1>0, <2>2, <2>8, <3>1
      <4>2. c * o <= (n - 1) * c
        BY <2>1, <2>2, <4>1, SMTT(30)
      <4>3. (n - 1) * c = n * c - c /\ c * o \in Nat
        BY <2>1, <2>2, <4>1, SMTT(30)
      <4> QED BY <4>2, <4>3
    <3>3. n * c \in Nat
      BY <2>1, <2>2, SMTT(30)
    <3> QED BY <1>0, <2>1, <2>2, <2>4, <3>2, <3>3
  <2> QED BY <2>6, <2>7, <2>8
<1> QED BY <1>1, <1>2, <1>3 DEF Offset

-----------------------------------------------------------------------------
(* The steps.                                                              *)

\* Selecting a row that may be selected.
LEMMA SettleKeeps ==
  ASSUME ListInv, NEW s, NEW b \in BOOLEAN, MaySelect(s), Settle(s, b)
  PROVE  ListInv'
<1>1. /\ look' = look /\ req' = req /\ off' = off /\ rows' = rows /\ max' = max /\ cur' = cur
      /\ cols' = cols /\ redo' = redo /\ vis' = vis /\ shown' = shown /\ sb' = sb
      /\ sel' = s /\ back' = b /\ clean' = FALSE
  BY DEF Settle, place
<1>2. ListTypeOK'
  BY <1>1 DEF ListInv, ListTypeOK, MaySelect
<1>3. ListCounts'
  BY <1>1 DEF ListInv, ListCounts, ElementsAt, MIN, MaySelect
<1>4. SelectionExists'
  BY <1>1 DEF SelectionExists, MaySelect
<1>5. ShowsPage'
  BY <1>1 DEF ListInv, ShowsPage
<1>6. PageHasSelection'
  BY <1>1 DEF PageHasSelection, UpToDate
<1> QED BY <1>2, <1>3, <1>4, <1>5, <1>6 DEF ListInv

\* A key of the list selects a row that may be selected.
LEMMA NavigateSettles ==
  ASSUME ListInv, Navigate
  PROVE  \E s, b : MaySelect(s) /\ b \in BOOLEAN /\ Settle(s, b)
<1>0. /\ Word \in Nat /\ rows \in Nat /\ max \in Nat /\ cols \in Nat /\ vis \in Nat
      /\ MaxListed \in Nat /\ 2 * MaxListed < Word /\ req \in 0 .. MaxListed
      /\ req \in 0 .. Word - 1 /\ sel \in 0 .. Word - 1 /\ off \in 0 .. Word - 1
      /\ look.bar \in BOOLEAN /\ back \in BOOLEAN
      /\ req > 0 /\ ~look.bar => sel < req
      /\ look.bar => sel <= MaxListed /\ off <= MaxListed
  BY ListFacts DEF ListInv, ListTypeOK, ListCounts, SelectionExists
<1> DEFINE Goal == \E s, b : MaySelect(s) /\ b \in BOOLEAN /\ Settle(s, b)
<1>1. ASSUME UpInt PROVE Goal
  <2> DEFINE s == (IF sel = 0 THEN req ELSE sel) - 1
  <2>1. req # 0 /\ Settle(s, TRUE)
    BY <1>1 DEF UpInt
  <2>2. MaySelect(s)
    BY <1>0, <2>1 DEF MaySelect
  <2> QED BY <2>1, <2>2
<1>2. ASSUME DownInt PROVE Goal
  <2> DEFINE s == IF sel < req - 1 THEN sel + 1 ELSE 0
  <2>1. req # 0 /\ Settle(s, FALSE)
    BY <1>2 DEF DownInt
  <2>2. MaySelect(s)
    BY <1>0, <2>1 DEF MaySelect
  <2> QED BY <2>1, <2>2
<1>3. ASSUME ColumnLeft PROVE Goal
  <2>1. MaySelect(sel - cols)
    BY <1>0, <1>3 DEF MaySelect, ColumnLeft
  <2> QED BY <1>0, <1>3, <2>1 DEF ColumnLeft
<1>4. ASSUME ColumnRight PROVE Goal
  <2>1. MaySelect(sel + cols)
    BY <1>0, <1>4 DEF MaySelect, ColumnRight
  <2> QED BY <1>0, <1>4, <2>1 DEF ColumnRight
<1>5. ASSUME PagePrevInt PROVE Goal
  <2>1. CASE look.bar
    <3>1. MaySelect(IF off = 0 THEN 0 ELSE off - 1)
      BY <1>0, <2>1 DEF MaySelect
    <3> QED BY <1>5, <2>1, <3>1 DEF PagePrevInt
  <2>2. CASE ~look.bar
    <3>1. MaySelect(IF sel < max THEN 0 ELSE sel - max)
      BY <1>0, <2>2 DEF MaySelect
    <3> QED BY <1>0, <1>5, <2>2, <3>1 DEF PagePrevInt
  <2> QED BY <2>1, <2>2
<1>6. ASSUME PageNextInt PROVE Goal
  <2>1. CASE look.bar
    <3>1. req # 0 /\ MaySelect(MIN(off + vis, req - 1))
      BY <1>0, <1>6, <2>1 DEF MaySelect, MIN, PageNextInt
    <3> QED BY <1>6, <2>1, <3>1 DEF PageNextInt
  <2>2. CASE ~look.bar
    <3>1. req # 0 /\ MaySelect(IF sel + max >= req THEN req - 1 ELSE sel + max)
      BY <1>0, <1>6, <2>2 DEF MaySelect, PageNextInt
    <3> QED BY <1>0, <1>6, <2>2, <3>1 DEF PageNextInt
  <2> QED BY <2>1, <2>2
<1>7. ASSUME Left PROVE Goal
  <2>1. CASE look.across \/ look.bar
    BY <1>1, <1>7, <2>1 DEF Left
  <2>2. CASE ~(look.across \/ look.bar)
    <3>1. sel >= rows /\ Settle(sel - rows, back)
      BY <1>7, <2>2 DEF Left
    <3>2. MaySelect(sel - rows)
      BY <1>0, <2>2, <3>1 DEF MaySelect
    <3> QED BY <1>0, <3>1, <3>2
  <2> QED BY <2>1, <2>2
<1>8. ASSUME Right PROVE Goal
  <2>1. CASE look.across \/ look.bar
    BY <1>2, <1>8, <2>1 DEF Right
  <2>2. CASE ~(look.across \/ look.bar) /\ sel + rows < req /\ Settle(sel + rows, back)
    <3>1. MaySelect(sel + rows)
      BY <1>0, <2>2 DEF MaySelect
    <3> QED BY <1>0, <2>2, <3>1
  <2>3. CASE ~(look.across \/ look.bar) /\ Settle(Minus(req, 1), back)
    <3>1. CASE req = 0
      <4>1. Minus(req, 1) \in 0 .. Word - 1
        BY <1>0, <3>1, SMTT(30) DEF Minus
      <4>2. MaySelect(Minus(req, 1))
        BY <2>3, <3>1, <4>1 DEF MaySelect
      <4> QED BY <1>0, <2>3, <4>2
    <3>2. CASE req > 0
      <4>1. 1 \in 0 .. Word - 1
        BY <1>0, <3>2
      <4>2. Minus(req, 1) = req - 1
        BY <1>0, <3>2, <4>1, MinusIs
      <4>3. MaySelect(Minus(req, 1))
        BY <1>0, <2>3, <3>2, <4>2 DEF MaySelect
      <4> QED BY <1>0, <2>3, <4>3
    <3> QED BY <1>0, <3>1, <3>2
  <2> QED BY <1>8, <2>1, <2>2, <2>3 DEF Right, LastColumn
<1>9. Up => Goal
  BY <1>1, <1>2, <1>3, <1>4 DEF Up
<1>10. Down => Goal
  BY <1>1, <1>2, <1>3, <1>4 DEF Down
<1>11. PagePrev => Goal
  BY <1>5, <1>6 DEF PagePrev
<1>12. PageNext => Goal
  BY <1>5, <1>6 DEF PageNext
<1> HIDE DEF Goal
<1>13. Goal
  BY <1>1, <1>2, <1>7, <1>8, <1>9, <1>10, <1>11, <1>12 DEF Navigate
<1> QED BY <1>13 DEF Goal

\* Selecting by the function, as a click and the scroll bar do.
LEMMA SetSelectedKeeps ==
  ASSUME ListInv, NEW i \in Nat, SetSelected(req, i), clean' = FALSE,
         UNCHANGED <<look, req, off, place, vis, shown, sb>>
  PROVE  ListInv'
<1>0. /\ Word \in Nat /\ MaxListed \in Nat /\ 2 * MaxListed < Word /\ req \in 0 .. MaxListed
      /\ req \in 0 .. Word - 1 /\ sel \in 0 .. Word - 1 /\ back \in BOOLEAN
      /\ req > 0 /\ ~look.bar => sel < req
      /\ look.bar => sel <= MaxListed
  BY ListFacts DEF ListInv, ListTypeOK, ListCounts, SelectionExists
<1>1. CASE req > 0
  <2>1. MaySelect(MIN(i, req - 1))
    BY <1>0, <1>1 DEF MaySelect, MIN
  <2>2. Settle(MIN(i, req - 1), FALSE)
    BY <1>1 DEF SetSelected, Settle
  <2> QED BY <2>1, <2>2, SettleKeeps
<1>2. CASE ~(req > 0)
  <2>1. MaySelect(sel)
    BY <1>0 DEF MaySelect
  <2>2. Settle(sel, back)
    BY <1>2 DEF SetSelected, Settle
  <2> QED BY <1>0, <2>1, <2>2, SettleKeeps
<1> QED BY <1>1, <1>2

\* The number of elements is that of the rows, as far as they fit.
LEMMA RecomputeCounts ==
  ASSUME ListInv, NEW n \in 0 .. MaxListed, NEW r \in Nat, NEW m \in Nat, Recompute(n, r, m)
  PROVE  /\ cur' \in Nat /\ cols' \in Nat /\ redo' \in BOOLEAN
         /\ cur' <= MaxListed
         /\ r > 0 => cur' = MIN(n, m)
<1>0. /\ look.columns \in Nat \ {0} /\ MaxListed \in Nat /\ cur \in Nat /\ cur <= MaxListed
      /\ cols \in Nat /\ redo \in BOOLEAN
  BY ListFacts DEF ListInv, ListTypeOK
<1>1. CASE r = 0
  BY <1>0, <1>1 DEF Recompute
<1>2. CASE r # 0 /\ ~look.fixedCols /\ n < m
  <2>1. redo' = TRUE /\ cur' = n
    BY <1>2 DEF Recompute
  <2>2. cols' = IF look.across THEN MIN(n, look.columns) ELSE (n + r - 1) \div r
    BY <1>2 DEF Recompute
  <2>3. (n + r - 1) \div r \in Nat
    BY <1>2, RowsOfElements
  <2> QED BY <1>0, <1>2, <2>1, <2>2, <2>3 DEF MIN
<1>3. CASE r # 0 /\ ~(~look.fixedCols /\ n < m)
  <2>1. redo' = TRUE /\ cur' = MIN(n, m) /\ cols' = look.columns
    BY <1>3 DEF Recompute
  <2> QED BY <1>0, <1>3, <2>1 DEF MIN
<1> QED BY <1>1, <1>2, <1>3

\* Another number of rows: a selection past the end moves to the last row.
LEMMA SetNumElementsKeeps ==
  ASSUME ListInv, NEW n \in 0 .. MaxListed, NEW f \in BOOLEAN, SetNumElements(n, f)
  PROVE  ListInv'
<1> DEFINE listed == IF look.needInput /\ ~f THEN 0 ELSE n
<1>0. /\ Word \in Nat /\ MaxListed \in Nat /\ 2 * MaxListed < Word /\ listed \in 0 .. MaxListed
      /\ sel \in 0 .. Word - 1 /\ back \in BOOLEAN /\ rows \in Nat /\ max \in Nat
      /\ look.bar => sel <= MaxListed
  BY ListFacts DEF ListInv, ListTypeOK, ListCounts
<1>1. /\ req' = listed /\ look' = look /\ off' = off /\ rows' = rows /\ max' = max
      /\ vis' = vis /\ shown' = shown /\ sb' = sb /\ clean' = FALSE
      /\ SetSelected(listed, sel) /\ Recompute(listed, rows, max)
  BY DEF SetNumElements
<1> HIDE DEF listed
<1>2. /\ sel' \in 0 .. Word - 1 /\ back' \in BOOLEAN
      /\ listed > 0 => sel' < listed
      /\ look.bar => sel' <= MaxListed
  <2>1. CASE listed > 0
    <3>1. sel' = MIN(sel, listed - 1) /\ back' = FALSE
      BY <1>1, <2>1 DEF SetSelected
    <3>2. sel' \in 0 .. Word - 1 /\ sel' < listed /\ sel' <= MaxListed
      BY <1>0, <2>1, <3>1 DEF MIN
    <3> QED BY <3>1, <3>2
  <2>2. CASE ~(listed > 0)
    <3>1. sel' = sel /\ back' = back
      BY <1>1, <2>2 DEF SetSelected
    <3> QED BY <1>0, <2>2, <3>1
  <2> QED BY <2>1, <2>2
<1>3. /\ cur' \in Nat /\ cols' \in Nat /\ redo' \in BOOLEAN
      /\ cur' <= MaxListed
      /\ rows > 0 => cur' = MIN(listed, max)
  BY <1>0, <1>1, RecomputeCounts
<1>4. ListTypeOK'
  BY <1>0, <1>1, <1>2, <1>3 DEF ListInv, ListTypeOK
<1>5. ListCounts'
  BY <1>0, <1>1, <1>2, <1>3 DEF ListInv, ListCounts, ElementsAt, MIN
<1>6. SelectionExists'
  BY <1>1, <1>2 DEF SelectionExists
<1>7. ShowsPage'
  BY <1>1 DEF ListInv, ShowsPage
<1>8. PageHasSelection'
  BY <1>1 DEF PageHasSelection, UpToDate
<1> QED BY <1>4, <1>5, <1>6, <1>7, <1>8 DEF ListInv

\* Another height, from which the rows and elements follow.
LEMMA ResizeKeeps ==
  ASSUME ListInv, NEW h \in Nat, ResizeList(h), h = 0 \/ ElementsAt(RowsAt(h), look) < Word
  PROVE  ListInv'
<1> DEFINE r == IF h = 0 THEN look.lines ELSE RowsAt(h)
           m == IF look.bar THEN look.lines ELSE ElementsAt(r, look)
<1>0. /\ look \in Looks /\ look.bar \in BOOLEAN
      /\ look.columns \in Nat \ {0} /\ look.lines \in Nat /\ req \in 0 .. MaxListed
  BY ListFacts
<1>1. /\ ElementH \in Nat \ {0} /\ Gap \in Nat /\ ElementsAt(look.lines, look) < Word
  BY <1>0, LookType
<1>2. RowsAt(h) \in Nat
  <2>1. ElementH + Gap \in Nat \ {0} /\ Gap + h \in Nat
    BY <1>1
  <2> QED BY <2>1, Quotient DEF RowsAt
<1>3. r \in Nat /\ ElementsAt(r, look) \in Nat /\ ElementsAt(r, look) < Word
  <2>1. r \in Nat /\ ElementsAt(r, look) < Word
    BY <1>0, <1>1, <1>2
  <2> HIDE DEF r
  <2>2. r * look.columns \in Nat
    BY <1>0, <2>1, SMTT(30)
  <2> QED BY <2>1, <2>2 DEF ElementsAt
<1>4. m \in Nat
  BY <1>0, <1>3
<1>5. /\ rows' = r /\ max' = m /\ Recompute(req, r, m)
      /\ sb' = [sb EXCEPT !.h = h] /\ clean' = FALSE
      /\ look' = look /\ req' = req /\ sel' = sel /\ off' = off /\ back' = back
      /\ vis' = vis /\ shown' = shown
  BY DEF ResizeList
<1>6. ~look.bar => m = ElementsAt(r, look)
  OBVIOUS
<1> HIDE DEF r, m
<1>7. /\ cur' \in Nat /\ cols' \in Nat /\ redo' \in BOOLEAN
      /\ cur' <= MaxListed
      /\ r > 0 => cur' = MIN(req, m)
  BY <1>0, <1>3, <1>4, <1>5, RecomputeCounts
<1>8. sb' \in [h : Nat, length : Nat \ {0}, pos_length : Nat \ {0}]
  BY <1>5 DEF ListInv, ListTypeOK
<1>9. ListTypeOK'
  BY <1>3, <1>4, <1>5, <1>7, <1>8 DEF ListInv, ListTypeOK
<1>10. ListCounts'
  BY <1>3, <1>5, <1>6, <1>7 DEF ListInv, ListCounts, ElementsAt, MIN
<1>11. SelectionExists'
  BY <1>5 DEF ListInv, SelectionExists
<1>12. ShowsPage'
  BY <1>5 DEF ListInv, ShowsPage
<1>13. PageHasSelection'
  BY <1>5 DEF PageHasSelection, UpToDate
<1> QED BY <1>9, <1>10, <1>11, <1>12, <1>13 DEF ListInv

\* The height that lines of the theme ask for gives those lines.
LEMMA HeightGivesLines ==
  ASSUME ListInv, NEW t \in Nat
  PROVE  /\ HeightLines(t) \in Nat /\ HeightLines(t) <= look.lines /\ DesiredHeight(t) \in Nat
         /\ HeightLines(t) > 0 => DesiredHeight(t) > 0 /\ RowsAt(DesiredHeight(t)) = HeightLines(t)
         /\ HeightLines(t) = 0 => DesiredHeight(t) = 0
<1> DEFINE e == ElementH + Gap
<1>0. /\ look.lines \in Nat /\ req \in Nat /\ e \in Nat \ {0} /\ Gap \in Nat /\ Gap < e
  BY ListFacts, LookType
<1>1. HeightLines(t) \in Nat /\ HeightLines(t) <= look.lines
  BY <1>0 DEF HeightLines, MIN
<1>2. HeightLines(t) = 0 => DesiredHeight(t) = 0
  BY DEF DesiredHeight
<1>3. ASSUME HeightLines(t) > 0
      PROVE  /\ DesiredHeight(t) \in Nat /\ DesiredHeight(t) > 0
             /\ RowsAt(DesiredHeight(t)) = HeightLines(t)
  <2>1. DesiredHeight(t) = HeightLines(t) * e - Gap
    BY <1>1, <1>3 DEF DesiredHeight
  <2>2. RowsAt(DesiredHeight(t)) = (Gap + DesiredHeight(t)) \div e
    BY DEF RowsAt
  <2> HIDE DEF e
  <2>3. HeightLines(t) * e \in Nat /\ e <= HeightLines(t) * e
    BY <1>0, <1>1, <1>3, SMTT(30)
  <2>4. Gap + DesiredHeight(t) = HeightLines(t) * e
    BY <1>0, <2>1, <2>3
  <2>5. (HeightLines(t) * e) \div e = HeightLines(t)
    BY <1>0, <1>1, <2>3, QuotientIs
  <2> QED BY <1>0, <2>1, <2>2, <2>3, <2>4, <2>5
<1> QED BY <1>1, <1>2, <1>3

\* The height the list asks for.
LEMMA FitKeeps ==
  ASSUME ListInv, NEW t \in Nat, Fit(t)
  PROVE  ListInv' /\ (HeightLines(t) > 0 => rows' = HeightLines(t))
<1> DEFINE h == DesiredHeight(t)
<1>1. /\ look \in Looks /\ look.columns \in Nat \ {0} /\ look.lines \in Nat /\ Word \in Nat
      /\ ElementsAt(look.lines, look) < Word
  BY ListFacts, LookType
<1>2. /\ HeightLines(t) \in Nat /\ HeightLines(t) <= look.lines /\ h \in Nat
      /\ HeightLines(t) > 0 => h > 0 /\ RowsAt(h) = HeightLines(t)
      /\ HeightLines(t) = 0 => h = 0
  BY HeightGivesLines
<1>3. ResizeList(h)
  BY DEF Fit
<1> HIDE DEF h
<1>4. h = 0 \/ ElementsAt(RowsAt(h), look) < Word
  <2>1. HeightLines(t) * look.columns <= look.lines * look.columns
    BY <1>1, <1>2, SMTT(30)
  <2>2. HeightLines(t) * look.columns \in Nat /\ look.lines * look.columns \in Nat
    BY <1>1, <1>2, SMTT(30)
  <2>3. HeightLines(t) * look.columns < Word
    BY <1>1, <2>1, <2>2 DEF ElementsAt
  <2> QED BY <1>2, <2>3 DEF ElementsAt
<1>5. ListInv'
  BY <1>2, <1>3, <1>4, ResizeKeeps
<1>6. HeightLines(t) > 0 => rows' = HeightLines(t)
  BY <1>2, <1>3 DEF ResizeList
<1> QED BY <1>5, <1>6

\* Consecutive rows as a sequence.
LEMMA RowsFromIs ==
  ASSUME NEW first \in Nat, NEW n \in Nat
  PROVE  /\ Len(RowsFrom(first, n)) = n
         /\ \A i \in 1 .. n : RowsFrom(first, n)[i] = first + i - 1
         /\ first + n <= Word => RowsFrom(first, n) \in Seq(0 .. Word - 1)
<1> DEFINE s == RowsFrom(first, n)
<1>1. /\ DOMAIN s = 1 .. n
      /\ \A i \in 1 .. n : s[i] = first + i - 1
      /\ s \in [1 .. n -> Nat]
  BY DEF RowsFrom
<1> HIDE DEF s
<1>2. s \in Seq(Nat) /\ Len(s) = n
  BY <1>1
<1>3. ASSUME first + n <= Word, Word \in Nat PROVE s \in Seq(0 .. Word - 1)
  <2>1. \A i \in 1 .. n : s[i] \in 0 .. Word - 1
    BY <1>1, <1>3
  <2> DEFINE T == 0 .. Word - 1
  <2>2. s \in [1 .. n -> T]
    BY <1>1, <2>1
  <2> HIDE DEF T
  <2>3. s \in Seq(T)
    BY <2>2
  <2> QED BY <2>3 DEF T
<1>4. Word \in Nat
  BY ListViewAssumption DEF ListViewAssumption
<1> QED BY <1>1, <1>2, <1>3, <1>4 DEF s

\* Drawing the list: the page moves to where the selection is.
LEMMA DrawListKeeps ==
  ASSUME ListInv, DrawList
  PROVE  ListInv'
<1> DEFINE o == Offset
           k == MIN(cur, Minus(req, o))
<1>0. /\ look.bar = FALSE /\ MaxListed \in Nat /\ Word \in Nat /\ 2 * MaxListed < Word
      /\ req \in 0 .. MaxListed /\ req \in 0 .. Word - 1
      /\ sel \in 0 .. Word - 1 /\ rows \in Nat /\ max \in Nat /\ cur \in Nat /\ cols \in Nat
      /\ redo \in BOOLEAN
      /\ rows > 0 => cur = MIN(req, max)
      /\ req > 0 => sel < req
  BY ListFacts DEF ListInv, ListTypeOK, ListCounts, SelectionExists, DrawList
<1>1. o \in 0 .. Word - 1
  BY <1>0, OffsetType
<1>2. /\ off' = o /\ shown' = Shows(o) /\ redo' = (redo /\ ~(cur > 0 /\ rows > 0)) /\ clean' = TRUE
      /\ look' = look /\ req' = req /\ sel' = sel /\ rows' = rows /\ max' = max /\ cur' = cur
      /\ cols' = cols /\ back' = back /\ vis' = vis
      /\ sb' = [sb EXCEPT !.length = MAX(1, req),
                          !.pos_length = MIN(MAX(1, req), MAX(1, cols * rows))]
  BY DEF DrawList
<1>3. ASSUME cur > 0, rows > 0
      PROVE  /\ shown' \in Seq(0 .. Word - 1)
             /\ \A i \in 1 .. Len(shown') : shown'[i] = o + i - 1
             /\ o <= sel /\ sel < o + Len(shown') /\ o + Len(shown') <= req
  <2>1. req > 0 /\ max > 0 /\ (cur = req \/ cur = max) /\ cur <= req
    BY <1>0, <1>3 DEF MIN
  <2>2. o \in 0 .. sel /\ sel < o + max /\ sel < req
    BY <1>0, <1>3, <2>1, PageShows
  <2>3. Minus(req, o) = req - o
    BY <1>0, <1>1, <2>2, MinusIs
  <2>4. shown' = RowsFrom(o, k)
    BY <1>2, <1>3 DEF Shows
  <2>5. k \in Nat /\ o + k <= req /\ sel < o + k
    BY <1>0, <2>1, <2>2, <2>3 DEF MIN
  <2> HIDE DEF o, k
  <2>6. o \in Nat /\ o + k <= Word
    BY <1>0, <1>1, <2>5
  <2>7. /\ Len(shown') = k /\ shown' \in Seq(0 .. Word - 1)
        /\ \A i \in 1 .. k : shown'[i] = o + i - 1
    BY <2>4, <2>5, <2>6, RowsFromIs
  <2> QED BY <2>2, <2>5, <2>7
<1>4. ASSUME ~(cur > 0 /\ rows > 0)
      PROVE  /\ shown' \in Seq(0 .. Word - 1)
             /\ \A i \in 1 .. Len(shown') : shown'[i] = o + i - 1
             /\ rows > 0 => req = 0 \/ max = 0
  <2>1. shown' = <<>>
    BY <1>2, <1>4 DEF Shows
  <2>2. rows > 0 => req = 0 \/ max = 0
    BY <1>0, <1>4 DEF MIN
  <2>3. Len(shown') = 0 /\ shown' \in Seq(0 .. Word - 1)
    BY <2>1
  <2> QED BY <2>2, <2>3
<1> HIDE DEF o, k
<1>5. sb' \in [h : Nat, length : Nat \ {0}, pos_length : Nat \ {0}]
  <2>1. MAX(1, req) \in Nat \ {0}
    BY <1>0 DEF MAX
  <2>2. cols * rows \in Nat
    BY <1>0, SMTT(30)
  <2>3. MAX(1, cols * rows) \in Nat \ {0}
    BY <2>2 DEF MAX
  <2>4. MIN(MAX(1, req), MAX(1, cols * rows)) \in Nat \ {0}
    BY <2>1, <2>3 DEF MIN
  <2> QED BY <1>2, <2>1, <2>4 DEF ListInv, ListTypeOK
<1>6. ListTypeOK'
  <2>1. redo' \in BOOLEAN
    BY <1>2
  <2> QED BY <1>1, <1>2, <1>3, <1>4, <1>5, <2>1 DEF ListInv, ListTypeOK
<1>7. ListCounts'
  BY <1>0, <1>2 DEF ListInv, ListCounts, ElementsAt, MIN
<1>8. SelectionExists'
  BY <1>2 DEF ListInv, SelectionExists
<1>9. ShowsPage'
  BY <1>2, <1>3, <1>4 DEF ShowsPage
<1>10. PageHasSelection'
  BY <1>2, <1>3, <1>4 DEF PageHasSelection, UpToDate
<1> QED BY <1>6, <1>7, <1>8, <1>9, <1>10 DEF ListInv

\* Drawing a bar: as many elements as there is room for.
LEMMA DrawBarKeeps ==
  ASSUME ListInv, DrawBar
  PROVE  ListInv'
<1> DEFINE o == BarOffset
           again == redo \/ o # off \/ sel >= off + vis
           most == IF back THEN MIN(cur, o + 1) ELSE MIN(cur, Minus(req, o))
<1>0. /\ look.bar = TRUE /\ MaxListed \in Nat /\ Word \in Nat /\ 2 * MaxListed < Word
      /\ req \in 0 .. MaxListed /\ req \in 0 .. Word - 1
      /\ sel \in 0 .. MaxListed /\ off \in 0 .. MaxListed
      /\ rows \in Nat /\ max \in Nat /\ cur \in Nat /\ cols \in Nat /\ vis \in Nat
      /\ cur <= MaxListed /\ vis <= MaxListed /\ redo \in BOOLEAN
  BY ListFacts DEF ListInv, ListTypeOK, ListCounts, DrawBar
<1>1. o \in 0 .. MaxListed /\ o \in 0 .. Word - 1 /\ o \in Nat
  BY <1>0 DEF BarOffset
<1>2. /\ clean' = TRUE /\ look' = look /\ req' = req /\ sel' = sel /\ rows' = rows /\ max' = max
      /\ cur' = cur /\ cols' = cols /\ back' = back /\ sb' = sb
  BY DEF DrawBar
<1>3. IF cur = 0 THEN off' = o /\ redo' = again /\ shown' = <<>> /\ vis' = vis
      ELSE IF ~again THEN /\ shown' = RowsFrom(o, vis)
                          /\ off' = off /\ redo' = redo /\ vis' = vis
      ELSE \E n \in 1 .. most :
             /\ vis' = n /\ redo' = FALSE
             /\ off' = IF back THEN Minus(o, n - 1) ELSE o
             /\ shown' = RowsFrom(IF back THEN Minus(o, n - 1) ELSE o, n)
  BY DEF DrawBar
<1> DEFINE Drawn == /\ off' \in 0 .. MaxListed /\ vis' \in Nat /\ vis' <= MaxListed
                    /\ redo' \in BOOLEAN /\ shown' \in Seq(0 .. Word - 1)
                    /\ \A i \in 1 .. Len(shown') : shown'[i] = off' + i - 1
<1>4. ASSUME cur = 0 PROVE Drawn
  <2>1. off' = o /\ redo' = again /\ shown' = <<>> /\ vis' = vis
    BY <1>3, <1>4
  <2>2. redo' \in BOOLEAN
    BY <2>1
  <2>3. shown' \in Seq(0 .. Word - 1) /\ Len(shown') = 0
    BY <2>1
  <2>4. \A i \in 1 .. Len(shown') : shown'[i] = off' + i - 1
    BY <2>3
  <2> HIDE DEF o
  <2> QED BY <1>0, <1>1, <2>1, <2>2, <2>3, <2>4
<1>5. ASSUME cur # 0, ~again PROVE Drawn
  <2>1. /\ shown' = RowsFrom(o, vis) /\ o = off
        /\ off' = off /\ redo' = redo /\ vis' = vis
    BY <1>3, <1>5
  <2>2. off \in Nat /\ off + vis <= Word
    BY <1>0
  <2>3. /\ Len(shown') = vis /\ shown' \in Seq(0 .. Word - 1)
        /\ \A i \in 1 .. vis : shown'[i] = off + i - 1
    BY <1>0, <2>1, <2>2, RowsFromIs
  <2> QED BY <1>0, <2>1, <2>3
<1>6. ASSUME cur # 0, again PROVE Drawn
  <2>1. most \in Nat /\ most <= MaxListed /\ (back => most <= o + 1)
    <3> HIDE DEF o
    <3>1. Minus(req, o) \in 0 .. Word - 1
      BY <1>0, <1>1, MinusIs
    <3> QED BY <1>0, <1>1, <3>1 DEF MIN
  <2>2. PICK n \in 1 .. most :
          /\ vis' = n /\ redo' = FALSE
          /\ off' = IF back THEN Minus(o, n - 1) ELSE o
          /\ shown' = RowsFrom(IF back THEN Minus(o, n - 1) ELSE o, n)
    BY <1>3, <1>6
  <2> HIDE DEF o, most, again
  <2>3. off' \in 0 .. MaxListed
    <3>1. CASE back
      <4>1. n - 1 \in 0 .. Word - 1 /\ n - 1 <= o
        BY <1>0, <1>1, <2>1, <3>1
      <4>2. Minus(o, n - 1) = o - (n - 1)
        BY <1>0, <1>1, <4>1, MinusIs
      <4> QED BY <1>0, <1>1, <2>2, <3>1, <4>1, <4>2
    <3>2. CASE ~back
      BY <1>1, <2>2, <3>2
    <3> QED BY <3>1, <3>2
  <2>4. shown' = RowsFrom(off', n)
    BY <2>2
  <2>5. /\ n \in Nat /\ off' \in Nat /\ off' + n <= Word /\ n <= MaxListed
    <3>1. n \in Nat /\ n <= MaxListed
      BY <1>0, <2>1
    <3>2. off' \in Nat /\ off' <= MaxListed
      BY <1>0, <2>3
    <3>3. MaxListed \in Nat /\ Word \in Nat /\ 2 * MaxListed < Word
      BY <1>0
    <3>4. \A a, b \in Nat : a <= MaxListed /\ b <= MaxListed => a + b <= Word
      BY <3>3
    <3>5. off' + n <= Word
      BY <3>1, <3>2, <3>4
    <3> QED BY <3>1, <3>2, <3>5
  <2>6. /\ Len(shown') = n /\ shown' \in Seq(0 .. Word - 1)
        /\ \A i \in 1 .. n : shown'[i] = off' + i - 1
    BY <2>4, <2>5, RowsFromIs
  <2> QED BY <2>2, <2>3, <2>5, <2>6
<1>7. Drawn
  BY <1>4, <1>5, <1>6
<1> HIDE DEF o, again, most
<1>8. ListTypeOK'
  BY <1>0, <1>2, <1>7 DEF ListInv, ListTypeOK
<1>9. ListCounts'
  BY <1>0, <1>2, <1>7 DEF ListInv, ListCounts, MIN
<1>10. SelectionExists'
  BY <1>0, <1>2 DEF SelectionExists
<1>11. ShowsPage'
  BY <1>7 DEF ShowsPage
<1>12. PageHasSelection'
  BY <1>0, <1>2 DEF PageHasSelection
<1> QED BY <1>8, <1>9, <1>10, <1>11, <1>12 DEF ListInv

\* A position on the scroll bar stands for a row, however the bar is sized.
LEMMA GetLineType ==
  ASSUME sb \in [h : Nat, length : Nat \ {0}, pos_length : Nat \ {0}], NEW y \in Int
  PROVE  GetLine(y) \subseteq Nat
<1> DEFINE h == sb.h
           n == sb.length
           p == sb.pos_length
           r == (n * h) \div (n + p)
           half == (h - r) \div 2
           z == MIN(MAX(0, y - half), h - 2 * half)
<1>0. h \in Nat /\ n \in Nat \ {0} /\ p \in Nat \ {0} /\ HandleRange = r
  BY DEF HandleRange
<1>1. GetLine(y) = IF y < 0 THEN {0}
                   ELSE IF y > h THEN {n - 1}
                   ELSE IF r = 0 /\ n > 1 THEN 0 .. n - 1
                   ELSE IF n = 1 THEN {0}
                   ELSE {MIN((z * (n - 1)) \div r, n - 1)}
  BY DEF GetLine, HandleRange
<1> HIDE DEF h, n, p
<1>2. r \in Nat /\ r <= h
  <2>1. n * h \in Nat /\ n + p \in Nat \ {0}
    BY <1>0, SMTT(30)
  <2>2. r \in Nat /\ r * (n + p) <= n * h
    BY <2>1, Quotient
  <2> HIDE DEF r
  <2>3. ~(r > h)
    <3> SUFFICES ASSUME r > h PROVE FALSE
      OBVIOUS
    <3>1. (h + 1) * (n + p) <= r * (n + p)
      BY <1>0, <2>1, <2>2, SMTT(30)
    <3>2. (h + 1) * (n + p) = n * h + (h * p + n + p)
      BY <1>0, SMTT(30)
    <3>3. h * p \in Nat
      BY <1>0, SMTT(30)
    <3> QED BY <1>0, <2>1, <2>2, <3>1, <3>2, <3>3
  <2> QED BY <1>0, <2>2, <2>3
<1> HIDE DEF r
<1>3. half \in Nat /\ 2 * half <= h
  BY <1>0, <1>2
<1> HIDE DEF half
<1>4. z \in Nat
  BY <1>0, <1>3 DEF MIN, MAX
<1> HIDE DEF z
<1>5. ASSUME r > 0 PROVE MIN((z * (n - 1)) \div r, n - 1) \in Nat
  <2>1. z * (n - 1) \in Nat
    BY <1>0, <1>4, SMTT(30)
  <2>2. (z * (n - 1)) \div r \in Nat
    BY <1>2, <1>5, <2>1, Quotient
  <2> QED BY <1>0, <2>2 DEF MIN
<1> QED BY <1>0, <1>1, <1>2, <1>5

\* Every step keeps the invariant.
LEMMA ListNextKeeps ==
  ASSUME ListInv, [ListNext]_lvars
  PROVE  ListInv'
<1>1. ASSUME NEW n \in 0 .. MaxListed, NEW f \in BOOLEAN, SetNumElements(n, f)
      PROVE  ListInv'
  BY <1>1, SetNumElementsKeeps
<1>2. ASSUME NEW h \in Heights, ResizeList(h) PROVE ListInv'
  <2>1. h \in Nat /\ ElementsAt(RowsAt(h), look) < Word
    BY ListFacts, LookType
  <2> QED BY <1>2, <2>1, ResizeKeeps
<1>3. ASSUME NEW t \in Totals, Fit(t) PROVE ListInv'
  BY <1>3, FitKeeps, ListFacts, ListViewAssumption DEF Totals
<1>4. CASE DrawList
  BY <1>4, DrawListKeeps
<1>5. CASE DrawBar
  BY <1>5, DrawBarKeeps
<1>6. CASE Navigate
  BY <1>6, NavigateSettles, SettleKeeps
<1>7. ASSUME NEW i \in 0 .. MaxListed, Hit(i) PROVE ListInv'
  <2>1. off + i \in Nat
    BY ListFacts
  <2> QED BY <1>7, <2>1, SetSelectedKeeps DEF Hit
<1>8. ASSUME NEW y \in {-1, 0, sb.h, sb.h + 1}, Scroll(y) PROVE ListInv'
  <2>1. sb \in [h : Nat, length : Nat \ {0}, pos_length : Nat \ {0}]
    BY DEF ListInv, ListTypeOK
  <2>2. y \in Int
    BY <2>1
  <2>3. PICK i \in GetLine(y) : SetSelected(req, i)
    BY <1>8 DEF Scroll
  <2>4. i \in Nat
    BY <2>1, <2>2, <2>3, GetLineType
  <2> QED BY <1>8, <2>3, <2>4, SetSelectedKeeps DEF Scroll
<1>9. CASE UNCHANGED lvars
  BY <1>9 DEF lvars, place, ListInv, ListTypeOK, ListCounts, SelectionExists, ShowsPage,
              PageHasSelection, UpToDate, ElementsAt, MIN
<1> QED BY <1>1, <1>2, <1>3, <1>4, <1>5, <1>6, <1>7, <1>8, <1>9 DEF ListNext

\* The invariant holds in the beginning.
LEMMA ListInitInv ==
  ASSUME ListInit
  PROVE  ListInv
<1>0. look \in Looks /\ MaxListed \in Nat /\ Word \in Nat /\ 2 * MaxListed < Word
      /\ look.columns \in Nat \ {0} /\ look.lines \in Nat
  BY LookType DEF ListInit
<1>1. sb \in [h : Nat, length : Nat \ {0}, pos_length : Nat \ {0}]
  BY DEF ListInit
<1>2. shown \in Seq(0 .. Word - 1) /\ Len(shown) = 0
  BY DEF ListInit
<1>3. ListTypeOK
  <2>1. 0 \in 0 .. MaxListed /\ 0 \in 0 .. Word - 1
    BY <1>0
  <2>2. {redo, back, clean} \subseteq BOOLEAN
    BY DEF ListInit
  <2> QED BY <1>0, <1>1, <1>2, <2>1, <2>2 DEF ListInit, ListTypeOK
<1>4. ListCounts
  <2>1. 0 * look.columns = 0
    BY <1>0, SMTT(30)
  <2> QED BY <1>0, <2>1 DEF ListInit, ListCounts, ElementsAt
<1> QED BY <1>2, <1>3, <1>4
        DEF ListInit, ListInv, SelectionExists, ShowsPage, PageHasSelection, UpToDate

\* The invariant holds in every state the list can be in.
THEOREM ListInvariant == ListSpec => []ListInv
<1>1. ListInit => ListInv
  BY ListInitInv
<1>2. ListInv /\ [ListNext]_lvars => ListInv'
  BY ListNextKeeps
<1> QED BY <1>1, <1>2, PTL DEF ListSpec

\* The counts, offsets and rows of the list have their types: what is drawn
\* and selected fits a word.
THEOREM ListTypesCorrect == ListSpec => []ListTypeOK
<1>1. ListInv => ListTypeOK
  BY DEF ListInv
<1> QED BY <1>1, ListInvariant, PTL

\* The selection is a row of the list and on the page that is drawn, for every
\* theme, height and number of rows, however the list scrolls.
THEOREM SelectionIsSound == ListSpec => []SelectionSound
<1>1. ASSUME ListInv PROVE SelectionSound
  <2>1. SelectionExists
    BY <1>1 DEF ListInv
  <2>2. SelectionShown
    <3> SUFFICES ASSUME UpToDate, max > 0, ~look.bar
                 PROVE  /\ \E i \in 1 .. Len(shown) : shown[i] = sel
                        /\ \A i \in 1 .. Len(shown) : shown[i] < req
      BY DEF SelectionShown
    <3>1. off <= sel /\ sel < off + Len(shown) /\ off + Len(shown) <= req
      BY <1>1 DEF ListInv, PageHasSelection
    <3>2. \A i \in 1 .. Len(shown) : shown[i] = off + i - 1
      BY <1>1 DEF ListInv, ShowsPage
    <3>3. /\ off \in Nat /\ sel \in Nat /\ req \in Nat /\ Len(shown) \in Nat
      BY <1>1, ListFacts DEF ListInv, ListTypeOK
    <3>4. sel - off + 1 \in 1 .. Len(shown)
      BY <3>1, <3>3
    <3>5. shown[sel - off + 1] = sel
      BY <3>2, <3>3, <3>4
    <3> QED BY <3>1, <3>2, <3>3, <3>4, <3>5
  <2> QED BY <2>1, <2>2 DEF SelectionSound
<1> QED BY <1>1, ListInvariant, PTL

\* A list at the height it asked for shows the lines it asked it for, and a
\* click selects the row that the element under it shows.
THEOREM ListStepsAreRight == ListSpec => ListSteps
<1>1. ASSUME ListInv PROVE FitStep /\ ClickStep
  <2>1. FitStep
    BY <1>1, FitKeeps, ListFacts, ListViewAssumption DEF FitStep, Totals
  <2>2. ASSUME NEW i \in 0 .. MaxListed, Hit(i), UpToDate, i < Len(shown)
        PROVE  sel' = MIN(shown[i + 1], req - 1)
    <3>1. i \in Nat /\ off \in Nat /\ Len(shown) \in Nat
      BY <1>1, ListFacts DEF ListInv, ListTypeOK
    <3>2. i + 1 \in 1 .. Len(shown)
      BY <2>2, <3>1
    <3>3. shown[i + 1] = off + i
      BY <1>1, <3>1, <3>2 DEF ListInv, ShowsPage
    <3> QED BY <2>2, <3>3 DEF Hit, SetSelected, UpToDate
  <2> QED BY <2>1, <2>2 DEF ClickStep
<1>2. ListInv => [FitStep /\ ClickStep]_lvars
  BY <1>1
<1> QED BY <1>2, ListInvariant, PTL DEF ListSteps

-----------------------------------------------------------------------------
(* What can be reached.                                                    *)

\* The contents of a directory, and no more.
LEMMA ReadType ==
  ASSUME NEW d
  PROVE  /\ EntriesOf(d) \subseteq Entry
         /\ d \notin DOMAIN Contents => EntriesOf(d) = {}
         /\ d \in DOMAIN Contents => d # "none" /\ EntriesOf(d) = ToSet(Contents[d])
                                    /\ Contents[d] \in Seq(Entry)
BY RecursiveBrowserAssumption, SetOfSeq DEF RecursiveBrowserAssumption, EntriesOf

\* More directories lead to more.
LEMMA LeadsToGrows ==
  ASSUME NEW a, NEW b, a \subseteq b
  PROVE  LeadsTo(a) \subseteq LeadsTo(b)
BY DEF LeadsTo

\* A directory leads to what its links and directories name.
LEMMA LeadsToEntry ==
  ASSUME NEW ds, NEW d \in ds, NEW e \in EntriesOf(d), IsDir(e)
  PROVE  e.to \in LeadsTo(ds)
BY DEF LeadsTo

\* What can be reached has the root and what it leads to, and is in every set
\* that has them.
LEMMA ReachableIsLeast ==
  /\ Closed(Reachable) /\ Reachable \subseteq Dirs
  /\ \A ds \in SUBSET Dirs : Closed(ds) => Reachable \subseteq ds
<1>1. \A ds \in SUBSET Dirs : Closed(ds) => Reachable \subseteq ds
  BY DEF Reachable
<1>2. Reachable \subseteq Dirs
  BY DEF Reachable
<1>3. RootDir \in Reachable
  BY DEF Reachable, Closed, Dirs
<1>4. LeadsTo(Reachable) \subseteq Reachable
  <2> SUFFICES ASSUME NEW x \in LeadsTo(Reachable) PROVE x \in Reachable
    OBVIOUS
  <2>1. \A ds \in SUBSET Dirs : Closed(ds) => x \in ds
    BY <1>1, LeadsToGrows DEF Closed
  <2>2. LeadsTo(Reachable) \subseteq LeadsTo(DOMAIN Contents)
    BY ReadType DEF LeadsTo
  <2>3. x \in Dirs
    BY <2>2 DEF Dirs
  <2> QED BY <2>1, <2>3 DEF Reachable
<1> QED BY <1>1, <1>2, <1>3, <1>4 DEF Closed

-----------------------------------------------------------------------------
(* The inductive invariant.                                                *)

Listed == files \o found
Known == visited \cup ToSet(scan)
Has(d) == \E v \in Known : HashOf[v] = HashOf[d]
Pending(d) == IF d = dir THEN ToSet(left) ELSE {}

\* What is left of a directory is part of it.
LeftOfDir ==
  /\ dir = "none" => left = <<>>
  /\ ToSet(left) \subseteq EntriesOf(dir)
  /\ \A i, j \in DOMAIN left : i # j => left[i].name # left[j].name

\* What is listed is in a visited directory and not left of the one that is read.
ListedOnce ==
  /\ \A f \in ToSet(Listed) : f[1] \in visited /\ f \in FilesOf(f[1])
  /\ \A e \in ToSet(left) : IsFile(e) => <<dir, e.name>> \notin ToSet(Listed)
  /\ \A i, j \in DOMAIN Listed : i # j => Listed[i] # Listed[j]

\* The walk stays where it can get, and what it has read it knows or has listed.
WalkSound == Known \subseteq Reachable /\ Has(RootDir)
WalkComplete ==
  ~endThread => \A d \in visited : \A e \in EntriesOf(d) \ Pending(d) :
                  /\ IsDir(e) => Has(e.to)
                  /\ IsFile(e) => <<d, e.name>> \in ToSet(Listed)

\* After the scan nothing is left to scan, and a byte is under way for the files
\* in the queue; the mode waits for its thread only when it told it to end.
ScanOver ==
  /\ reader \notin {"scan", "wake"} => dir = "none" /\ scan = <<>>
  /\ reader \in {"lastq", "done"} /\ found # <<>> => "r" \in ToSet(wake)
  /\ loop \in {"join", "gone"} => endThread

RecursiveInv ==
  RecursiveTypeOK /\ LeftOfDir /\ ListedOnce /\ WalkSound /\ WalkComplete /\ ScanOver

\* The types of the sequences.
LEMMA RecursiveTypes ==
  ASSUME RecursiveInv
  PROVE  /\ scan \in Seq(STRING) /\ visited \subseteq STRING /\ left \in Seq(Entry)
         /\ found \in Seq(STRING \X STRING) /\ files \in Seq(STRING \X STRING)
         /\ Listed \in Seq(STRING \X STRING) /\ wake \in Seq({"r", "q"})
         /\ dir \in visited \cup {"none"}
<1>1. Listed \in Seq(STRING \X STRING)
  BY DEF RecursiveInv, RecursiveTypeOK, Listed
<1> QED BY <1>1 DEF RecursiveInv, RecursiveTypeOK

\* The invariant holds in the beginning.
LEMMA RecursiveInitInv ==
  ASSUME RecursiveInit
  PROVE  RecursiveInv
<1>1. /\ scan = <<RootDir>> /\ visited = {} /\ dir = "none" /\ left = <<>>
      /\ found = <<>> /\ wake = <<>> /\ reader = "scan" /\ endThread = FALSE
      /\ loop = "idle" /\ files = <<>>
  BY DEF RecursiveInit
<1>2. RootDir \in STRING /\ PipeSize \in Nat \ {0}
  BY RecursiveBrowserAssumption DEF RecursiveBrowserAssumption
<1>3. RecursiveTypeOK
  <2>1. scan \in Seq(STRING)
    BY <1>1, <1>2
  <2>2. Len(wake) <= PipeSize
    BY <1>1, <1>2
  <2>3. /\ left \in Seq(Entry) /\ wake \in Seq({"r", "q"})
        /\ found \in Seq(STRING \X STRING) /\ files \in Seq(STRING \X STRING)
    BY <1>1
  <2>4. visited \subseteq STRING /\ dir \in visited \cup {"none"}
    BY <1>1
  <2> QED BY <1>1, <2>1, <2>2, <2>3, <2>4 DEF RecursiveTypeOK
<1>4. Listed = <<>> /\ ToSet(left) = {} /\ ToSet(Listed) = {}
  BY <1>1, SetOfEmpty DEF Listed
<1>5. Known = {RootDir}
  BY <1>1 DEF Known, ToSet
<1>6. LeftOfDir
  BY <1>1, <1>4 DEF LeftOfDir
<1>7. ListedOnce
  BY <1>4 DEF ListedOnce
<1>8. WalkSound
  BY <1>5, ReachableIsLeast DEF WalkSound, Closed, Has
<1>9. WalkComplete
  BY <1>1 DEF WalkComplete, Has
<1>10. ScanOver
  BY <1>1 DEF ScanOver
<1> QED BY <1>3, <1>6, <1>7, <1>8, <1>9, <1>10 DEF RecursiveInv

-----------------------------------------------------------------------------
(* The steps.                                                              *)

\* Opening a directory: it is new, so nothing of it is listed.
LEMMA OpenDirKeeps ==
  ASSUME RecursiveInv, OpenDir
  PROVE  RecursiveInv'
<1> DEFINE h == Head(scan)
<1>0. /\ reader = "scan" /\ dir = "none" /\ scan # <<>> /\ scan' = Tail(scan)
      /\ found' = found /\ wake' = wake /\ reader' = reader /\ endThread' = endThread
      /\ loop' = loop /\ files' = files
  BY DEF OpenDir
<1>1. /\ h \in STRING /\ scan' \in Seq(STRING) /\ ToSet(scan) = {h} \cup ToSet(scan')
  BY <1>0, RecursiveTypes, HeadAndTail
<1>2. Listed' = Listed /\ left = <<>> /\ ToSet(left) = {}
  BY <1>0, SetOfEmpty DEF Listed, RecursiveInv, LeftOfDir
<1>3. ScanOver'
  BY <1>0 DEF RecursiveInv, ScanOver
<1>4. CASE Seen(h)
  <2>1. visited' = visited /\ dir' = dir /\ left' = left
    BY <1>4 DEF OpenDir
  <2>2. Known' \subseteq Known /\ \A d : Has(d) => Has(d)'
    <3>1. visited \subseteq Known' /\ Known \subseteq Known' \cup {h} /\ Known' \subseteq Known
      BY <1>1, <2>1 DEF Known
    <3> HIDE DEF h
    <3>2. PICK v \in visited : HashOf[v] = HashOf[h]
      BY <1>4 DEF Seen
    <3> QED BY <3>1, <3>2 DEF Has
  <2>3. RecursiveTypeOK'
    BY <1>0, <1>1, <2>1 DEF RecursiveInv, RecursiveTypeOK
  <2>4. LeftOfDir'
    BY <2>1 DEF RecursiveInv, LeftOfDir, EntriesOf
  <2>5. ListedOnce'
    BY <1>2, <2>1 DEF RecursiveInv, ListedOnce, FilesOf, EntriesOf
  <2>6. WalkSound'
    BY <2>2 DEF RecursiveInv, WalkSound, Has
  <2>7. WalkComplete'
    BY <1>0, <1>2, <2>1, <2>2 DEF RecursiveInv, WalkComplete, Has, Pending, EntriesOf
  <2> QED BY <1>3, <2>3, <2>4, <2>5, <2>6, <2>7 DEF RecursiveInv
<1>5. CASE ~Seen(h)
  <2>1. /\ visited' = visited \cup {h} /\ dir' = h
        /\ left' = IF h \in DOMAIN Contents THEN Contents[h] ELSE <<>>
    BY <1>5 DEF OpenDir
  <2>0. h \notin visited
    BY <1>5 DEF Seen
  <2> HIDE DEF h
  <2>2. Known' = Known
    BY <1>1, <2>1 DEF Known
  <2>3. left' \in Seq(Entry) /\ ToSet(left') = EntriesOf(h)
    <3>1. CASE h \in DOMAIN Contents
      BY <2>1, <3>1, ReadType
    <3>2. CASE h \notin DOMAIN Contents
      <4>1. left' = <<>> /\ EntriesOf(h) = {}
        BY <2>1, <3>2, ReadType
      <4> QED BY <4>1, SetOfEmpty
    <3> QED BY <3>1, <3>2
  <2>4. RecursiveTypeOK'
    BY <1>0, <1>1, <2>1, <2>3 DEF RecursiveInv, RecursiveTypeOK
  <2>5. LeftOfDir'
    <3>1. h = "none" => left' = <<>>
      BY <2>1, ReadType
    <3>2. \A i, j \in DOMAIN left' : i # j => left'[i].name # left'[j].name
      BY <2>1, RecursiveBrowserAssumption DEF RecursiveBrowserAssumption
    <3>3. ToSet(left') \subseteq EntriesOf(dir')
      BY <2>1, <2>3
    <3> QED BY <2>1, <3>1, <3>2, <3>3 DEF LeftOfDir, EntriesOf
  <2>6. ListedOnce'
    <3>1. \A f \in ToSet(Listed) : f[1] \in visited /\ f \in FilesOf(f[1])
      BY DEF RecursiveInv, ListedOnce
    <3>2. \A e \in ToSet(left') : <<h, e.name>> \notin ToSet(Listed)
      BY <2>0, <3>1
    <3> QED BY <1>2, <2>1, <3>1, <3>2 DEF RecursiveInv, ListedOnce, FilesOf, EntriesOf
  <2>7. WalkSound'
    BY <2>2 DEF RecursiveInv, WalkSound, Has
  <2>8. WalkComplete'
    <3> SUFFICES ASSUME ~endThread, NEW d \in visited', NEW e \in EntriesOf(d) \ Pending(d)'
                 PROVE  /\ IsDir(e) => Has(e.to)
                        /\ IsFile(e) => <<d, e.name>> \in ToSet(Listed)
      BY <1>0, <1>2, <2>2 DEF WalkComplete, Has, EntriesOf
    <3>1. d # h
      BY <2>1, <2>3 DEF Pending
    <3>2. d \in visited /\ Pending(d) = {}
      BY <1>2, <2>1, <3>1 DEF Pending
    <3> QED BY <3>2 DEF RecursiveInv, WalkComplete, Has
  <2> QED BY <1>3, <2>4, <2>5, <2>6, <2>7, <2>8 DEF RecursiveInv
<1> QED BY <1>4, <1>5

\* The end of a directory: nothing of it is left, or the thread is to end.
LEMMA CloseDirKeeps ==
  ASSUME RecursiveInv, CloseDir
  PROVE  RecursiveInv'
<1>0. /\ reader = "scan" /\ (left = <<>> \/ endThread) /\ dir' = "none" /\ left' = <<>>
      /\ scan' = scan /\ visited' = visited
      /\ found' = found /\ wake' = wake /\ reader' = reader /\ endThread' = endThread
      /\ loop' = loop /\ files' = files
  BY DEF CloseDir
<1>1. Listed' = Listed /\ Known' = Known /\ ToSet(left') = {}
  BY <1>0, SetOfEmpty DEF Listed, Known
<1>2. RecursiveTypeOK'
  BY <1>0 DEF RecursiveInv, RecursiveTypeOK
<1>3. LeftOfDir'
  BY <1>0, <1>1 DEF LeftOfDir
<1>4. ListedOnce'
  BY <1>0, <1>1 DEF RecursiveInv, ListedOnce, FilesOf, EntriesOf
<1>5. WalkSound'
  BY <1>1 DEF RecursiveInv, WalkSound, Has
<1>6. WalkComplete'
  <2> SUFFICES ASSUME ~endThread, NEW d \in visited, NEW e \in EntriesOf(d)
               PROVE  /\ IsDir(e) => Has(e.to)
                      /\ IsFile(e) => <<d, e.name>> \in ToSet(Listed)
    BY <1>0, <1>1 DEF WalkComplete, Has, EntriesOf
  <2>1. Pending(d) = {}
    BY <1>0, SetOfEmpty DEF Pending
  <2> QED BY <2>1 DEF RecursiveInv, WalkComplete, Has
<1>7. ScanOver'
  BY <1>0 DEF RecursiveInv, ScanOver
<1> QED BY <1>2, <1>3, <1>4, <1>5, <1>6, <1>7 DEF RecursiveInv

\* Reading an entry: the rest of the directory stays as it should be.
LEMMA ReadingEntry ==
  ASSUME RecursiveInv, Reading, left' = Tail(left), dir' = dir
  PROVE  /\ Head(left) \in Entry /\ left' \in Seq(Entry) /\ dir \in visited
         /\ Head(left) \in EntriesOf(dir)
         /\ ToSet(left) = {Head(left)} \cup ToSet(left')
         /\ LeftOfDir'
         /\ \A e \in ToSet(left') : e.name # Head(left).name
<1>1. left # <<>> /\ left \in Seq(Entry) /\ dir \in visited
  BY RecursiveTypes DEF Reading
<1>2. /\ Head(left) \in Entry /\ left' \in Seq(Entry)
      /\ Len(left) \in Nat \ {0} /\ Len(left') = Len(left) - 1
      /\ left[1] = Head(left)
      /\ \A i \in 1 .. Len(left') : left'[i] = left[i + 1]
      /\ ToSet(left) = {Head(left)} \cup ToSet(left')
  BY <1>1, HeadAndTail
<1>3. DOMAIN left = 1 .. Len(left) /\ DOMAIN left' = 1 .. Len(left')
  BY <1>1, <1>2
<1>4. \A i, j \in 1 .. Len(left) : i # j => left[i].name # left[j].name
  BY <1>3 DEF RecursiveInv, LeftOfDir
<1>5. \A i \in 1 .. Len(left') : i + 1 \in 1 .. Len(left) /\ i + 1 # 1 /\ 1 \in 1 .. Len(left)
  BY <1>2
<1>6. \A e \in ToSet(left') : e.name # Head(left).name
  BY <1>2, <1>3, <1>4, <1>5 DEF ToSet
<1>7. \A i, j \in 1 .. Len(left') : i # j => left'[i].name # left'[j].name
  <2> TAKE i, j \in 1 .. Len(left')
  <2>1. i # j => i + 1 # j + 1
    BY <1>2
  <2> QED BY <1>2, <1>4, <1>5, <2>1
<1>8. ToSet(left) \subseteq EntriesOf(dir) /\ (dir = "none" => left = <<>>)
  BY DEF RecursiveInv, LeftOfDir
<1>9. LeftOfDir'
  BY <1>1, <1>2, <1>3, <1>7, <1>8 DEF LeftOfDir, EntriesOf
<1> QED BY <1>1, <1>2, <1>6, <1>8, <1>9

\* An entry that is neither a file nor a directory.
LEMMA SkipKeeps ==
  ASSUME RecursiveInv, Skip
  PROVE  RecursiveInv'
<1>0. /\ Reading /\ ~IsFile(Head(left)) /\ ~IsDir(Head(left)) /\ left' = Tail(left)
      /\ scan' = scan /\ visited' = visited /\ dir' = dir
      /\ found' = found /\ wake' = wake /\ reader' = reader /\ endThread' = endThread
      /\ loop' = loop /\ files' = files
  BY DEF Skip, IsFile, IsDir
<1>1. /\ left' \in Seq(Entry) /\ dir \in visited /\ LeftOfDir'
      /\ ToSet(left) = {Head(left)} \cup ToSet(left')
  BY <1>0, ReadingEntry
<1>2. Listed' = Listed /\ Known' = Known
  BY <1>0 DEF Listed, Known
<1>3. RecursiveTypeOK'
  BY <1>0, <1>1 DEF RecursiveInv, RecursiveTypeOK
<1>4. ListedOnce'
  BY <1>0, <1>1, <1>2 DEF RecursiveInv, ListedOnce, FilesOf, EntriesOf
<1>5. WalkSound'
  BY <1>2 DEF RecursiveInv, WalkSound, Has
<1>6. WalkComplete'
  BY <1>0, <1>1, <1>2 DEF RecursiveInv, WalkComplete, Has, Pending, EntriesOf
<1>7. ScanOver'
  BY <1>0 DEF RecursiveInv, ScanOver
<1> QED BY <1>1, <1>3, <1>4, <1>5, <1>6, <1>7 DEF RecursiveInv

\* A file: it is of the directory that is read and was not listed before.
LEMMA PushFileKeeps ==
  ASSUME RecursiveInv, PushFile
  PROVE  RecursiveInv'
<1> DEFINE h == Head(left)
           f == <<dir, h.name>>
<1>0. /\ Reading /\ IsFile(h) /\ left' = Tail(left)
      /\ found' = Append(found, f) /\ reader' \in {"scan", "wake"} /\ reader = "scan"
      /\ scan' = scan /\ visited' = visited /\ dir' = dir
      /\ wake' = wake /\ endThread' = endThread
      /\ loop' = loop /\ files' = files
  BY DEF PushFile, Reading
<1>1. /\ h \in Entry /\ left' \in Seq(Entry) /\ dir \in visited /\ h \in EntriesOf(dir) /\ LeftOfDir'
      /\ ToSet(left) = {h} \cup ToSet(left')
      /\ \A e \in ToSet(left') : e.name # h.name
  BY <1>0, ReadingEntry
<1>2. /\ found \in Seq(STRING \X STRING) /\ files \in Seq(STRING \X STRING)
      /\ Listed \in Seq(STRING \X STRING) /\ visited \subseteq STRING
  BY RecursiveTypes
<1>3. f \in STRING \X STRING
  BY <1>1, <1>2 DEF Entry
<1>4. f \in FilesOf(dir)
  BY <1>0, <1>1 DEF FilesOf
<1>5. f \notin ToSet(Listed)
  BY <1>0, <1>1 DEF RecursiveInv, ListedOnce
<1>6. \A e \in ToSet(left') : <<dir, e.name>> # f
  BY <1>1
<1>61. f[1] = dir
  OBVIOUS
<1> HIDE DEF f
<1>7. Listed' = Append(Listed, f)
  <2> DEFINE T == STRING \X STRING
  <2>1. files \in Seq(T) /\ found \in Seq(T) /\ f \in T
    BY <1>2, <1>3
  <2> HIDE DEF T
  <2>2. files \o Append(found, f) = Append(files \o found, f)
    BY <2>1, SMTT(30)
  <2> QED BY <1>0, <2>2 DEF Listed
<1>8. ToSet(Listed') = ToSet(Listed) \cup {f}
  BY <1>2, <1>3, <1>7, SetOfAppend
<1>9. Known' = Known
  BY <1>0 DEF Known
<1>10. RecursiveTypeOK'
  BY <1>0, <1>1, <1>2, <1>3, SetOfAppend DEF RecursiveInv, RecursiveTypeOK
<1>11. ListedOnce'
  <2>1. \A i, j \in DOMAIN Listed' : i # j => Listed'[i] # Listed'[j]
    <3> DEFINE T == STRING \X STRING
               s == Listed
    <3>1. s \in Seq(T) /\ f \in T /\ f \notin ToSet(s)
      BY <1>2, <1>3, <1>5
    <3>2. \A i, j \in DOMAIN s : i # j => s[i] # s[j]
      BY DEF RecursiveInv, ListedOnce
    <3> HIDE DEF T, s
    <3>3. \A i, j \in DOMAIN Append(s, f) : i # j => Append(s, f)[i] # Append(s, f)[j]
      BY <3>1, <3>2, AppendNew
    <3> QED BY <1>7, <3>3 DEF s
  <2>2. \A g \in ToSet(Listed') : g[1] \in visited' /\ g \in FilesOf(g[1])
    BY <1>0, <1>1, <1>4, <1>61, <1>8 DEF RecursiveInv, ListedOnce
  <2>3. \A e \in ToSet(left') : IsFile(e) => <<dir', e.name>> \notin ToSet(Listed')
    BY <1>0, <1>1, <1>6, <1>8 DEF RecursiveInv, ListedOnce
  <2> QED BY <2>1, <2>2, <2>3 DEF ListedOnce, FilesOf, EntriesOf
<1>12. WalkSound'
  BY <1>9 DEF RecursiveInv, WalkSound, Has
<1>13. WalkComplete'
  <2> SUFFICES ASSUME ~endThread, NEW d \in visited, NEW e \in EntriesOf(d) \ Pending(d)'
               PROVE  /\ IsDir(e) => Has(e.to)
                      /\ IsFile(e) => <<d, e.name>> \in ToSet(Listed')
    BY <1>0, <1>9 DEF WalkComplete, Has, EntriesOf
  <2>1. CASE d = dir /\ e = h
    BY <1>0, <1>8, <2>1 DEF f, IsFile, IsDir
  <2>2. CASE ~(d = dir /\ e = h)
    <3>1. e \notin Pending(d)
      BY <1>0, <1>1, <2>2 DEF Pending
    <3> QED BY <1>8, <3>1 DEF RecursiveInv, WalkComplete, Has
  <2> QED BY <2>1, <2>2
<1>14. ScanOver'
  BY <1>0 DEF RecursiveInv, ScanOver
<1> QED BY <1>1, <1>10, <1>11, <1>12, <1>13, <1>14 DEF RecursiveInv

\* A directory or a link to one: it can be reached, as it is read from one that can.
LEMMA PushDirKeeps ==
  ASSUME RecursiveInv, PushDir
  PROVE  RecursiveInv'
<1> DEFINE h == Head(left)
<1>0. /\ Reading /\ IsDir(h) /\ left' = Tail(left)
      /\ scan' = Append(scan, h.to) /\ reader = "scan"
      /\ found' = found /\ reader' = reader
      /\ visited' = visited /\ dir' = dir
      /\ wake' = wake /\ endThread' = endThread
      /\ loop' = loop /\ files' = files
  BY DEF PushDir, Reading
<1>1. /\ h \in Entry /\ left' \in Seq(Entry) /\ dir \in visited /\ h \in EntriesOf(dir) /\ LeftOfDir'
      /\ ToSet(left) = {h} \cup ToSet(left')
  BY <1>0, ReadingEntry
<1>2. scan \in Seq(STRING) /\ h.to \in STRING
  BY <1>1, RecursiveTypes DEF Entry
<1>3. scan' \in Seq(STRING) /\ ToSet(scan') = ToSet(scan) \cup {h.to}
  BY <1>0, <1>2, SetOfAppend
<1>4. Known' = Known \cup {h.to} /\ Listed' = Listed
  BY <1>0, <1>3 DEF Known, Listed
<1>5. h.to \in Reachable
  <2>1. dir \in Reachable
    BY <1>1 DEF RecursiveInv, WalkSound, Known
  <2>2. h.to \in LeadsTo(Reachable)
    BY <1>0, <1>1, <2>1, LeadsToEntry
  <2> QED BY <2>2, ReachableIsLeast DEF Closed
<1> HIDE DEF h
<1>6. RecursiveTypeOK'
  BY <1>0, <1>1, <1>3 DEF RecursiveInv, RecursiveTypeOK
<1>7. ListedOnce'
  BY <1>0, <1>1, <1>4 DEF RecursiveInv, ListedOnce, FilesOf, EntriesOf
<1>8. WalkSound'
  BY <1>4, <1>5 DEF RecursiveInv, WalkSound, Has
<1>9. WalkComplete'
  <2> SUFFICES ASSUME ~endThread, NEW d \in visited, NEW e \in EntriesOf(d) \ Pending(d)'
               PROVE  /\ IsDir(e) => Has(e.to)'
                      /\ IsFile(e) => <<d, e.name>> \in ToSet(Listed)
    BY <1>0, <1>4 DEF WalkComplete, Has, EntriesOf
  <2>1. CASE d = dir /\ e = h
    <3>1. /\ IsDir(h) => h.to \in Known'
          /\ IsFile(h) => <<dir, h.name>> \in ToSet(Listed)
      BY <1>0, <1>4 DEF IsFile, IsDir
    <3> QED BY <2>1, <3>1 DEF Has
  <2>2. CASE ~(d = dir /\ e = h)
    <3>1. e \notin Pending(d)
      BY <1>0, <1>1, <2>2 DEF Pending
    <3> QED BY <1>4, <3>1 DEF RecursiveInv, WalkComplete, Has
  <2> QED BY <2>1, <2>2
<1>10. ScanOver'
  BY <1>0 DEF RecursiveInv, ScanOver
<1> QED BY <1>1, <1>6, <1>7, <1>8, <1>9, <1>10 DEF RecursiveInv

\* A step that leaves the walk alone.
LEMMA WalkStands ==
  ASSUME RecursiveInv, Listed' = Listed, scan' = scan, visited' = visited, dir' = dir,
         left' = left, endThread' = endThread
  PROVE  LeftOfDir' /\ ListedOnce' /\ WalkSound' /\ WalkComplete'
<1>1. visited' = visited /\ dir' = dir /\ left' = left /\ endThread' = endThread
  OBVIOUS
<1>2. Known' = Known
  BY DEF Known
<1>3. LeftOfDir'
  BY <1>1 DEF RecursiveInv, LeftOfDir, EntriesOf
<1>4. ListedOnce'
  BY <1>1 DEF RecursiveInv, ListedOnce, FilesOf, EntriesOf
<1>5. WalkSound'
  BY <1>2 DEF RecursiveInv, WalkSound, Has
<1>6. WalkComplete'
  <2>1. \A d : Pending(d)' = Pending(d)
    BY <1>1 DEF Pending
  <2>2. \A d : EntriesOf(d)' = EntriesOf(d)
    BY DEF EntriesOf
  <2>3. WalkComplete
    BY DEF RecursiveInv
  <2>4. ASSUME ~endThread', NEW d \in visited', NEW e \in EntriesOf(d)' \ Pending(d)'
        PROVE  /\ IsDir(e) => Has(e.to)'
               /\ IsFile(e) => <<d, e.name>> \in ToSet(Listed)'
    <3>1. ~endThread /\ d \in visited
      BY <1>1, <2>4
    <3>2. e \in EntriesOf(d) \ Pending(d)
      BY <2>1, <2>2, <2>4
    <3>3. ToSet(Listed)' = ToSet(Listed)
      BY DEF ToSet
    <3> QED BY <1>2, <2>3, <3>1, <3>2, <3>3 DEF WalkComplete, Has
  <2> QED BY <2>4 DEF WalkComplete, Has
<1> QED BY <1>3, <1>4, <1>5, <1>6

\* A byte that is written: for the files in the queue it is under way.
LEMMA WakeKeeps ==
  ASSUME RecursiveInv, NEW spot \in {"wake", "lastr", "lastq"}, NEW byte \in {"r", "q"},
         NEW next, Wake(spot, byte, next),
         <<spot, byte, next>> \in
           {<<"wake", "r", "scan">>, <<"lastr", "r", "lastq">>, <<"lastq", "q", "done">>},
         UNCHANGED <<scan, visited, dir, left, found, endThread, loop, files>>
  PROVE  RecursiveInv'
<1>0. /\ reader = spot /\ Len(wake) < PipeSize /\ wake' = Append(wake, byte) /\ reader' = next
      /\ scan' = scan /\ visited' = visited /\ dir' = dir /\ left' = left
      /\ found' = found /\ endThread' = endThread /\ loop' = loop /\ files' = files
  BY DEF Wake
<1>1. /\ wake \in Seq({"r", "q"}) /\ wake' \in Seq({"r", "q"})
      /\ ToSet(wake') = ToSet(wake) \cup {byte}
  <2>1. wake \in Seq({"r", "q"})
    BY RecursiveTypes
  <2> QED BY <1>0, <2>1, SetOfAppend
<1>2. Len(wake') <= PipeSize
  <2>1. Len(wake') = Len(wake) + 1 /\ Len(wake) \in Nat
    BY <1>0, <1>1
  <2>2. PipeSize \in Nat
    BY RecursiveBrowserAssumption DEF RecursiveBrowserAssumption
  <2> QED BY <1>0, <2>1, <2>2
<1>3. Listed' = Listed
  BY <1>0 DEF Listed
<1>4. \/ spot = "wake" /\ byte = "r" /\ next = "scan"
      \/ spot = "lastr" /\ byte = "r" /\ next = "lastq"
      \/ spot = "lastq" /\ byte = "q" /\ next = "done"
  OBVIOUS
<1>5. RecursiveTypeOK'
  BY <1>0, <1>1, <1>2, <1>4 DEF RecursiveInv, RecursiveTypeOK
<1>6. LeftOfDir' /\ ListedOnce' /\ WalkSound' /\ WalkComplete'
  BY <1>0, <1>3, WalkStands
<1>7. ScanOver'
  BY <1>0, <1>1, <1>4 DEF RecursiveInv, ScanOver
<1> QED BY <1>5, <1>6, <1>7 DEF RecursiveInv

\* The end of the scan: nothing is left to scan.
LEMMA ScanEndsKeeps ==
  ASSUME RecursiveInv, ScanEnds
  PROVE  RecursiveInv'
<1>0. /\ reader = "scan" /\ dir = "none" /\ scan = <<>> /\ reader' = "lastr"
      /\ scan' = scan /\ visited' = visited /\ dir' = dir /\ left' = left /\ wake' = wake
      /\ found' = found /\ endThread' = endThread /\ loop' = loop /\ files' = files
  BY DEF ScanEnds
<1>1. Listed' = Listed
  BY <1>0 DEF Listed
<1>2. RecursiveTypeOK'
  BY <1>0 DEF RecursiveInv, RecursiveTypeOK
<1>3. LeftOfDir' /\ ListedOnce' /\ WalkSound' /\ WalkComplete'
  BY <1>0, <1>1, WalkStands
<1>4. ScanOver'
  BY <1>0 DEF RecursiveInv, ScanOver
<1> QED BY <1>2, <1>3, <1>4 DEF RecursiveInv

\* A byte that is read: the queue moves to the end of the rows.
LEMMA ReadProcKeeps ==
  ASSUME RecursiveInv, ReadProc
  PROVE  RecursiveInv'
<1>0. /\ wake # <<>> /\ wake' = Tail(wake)
      /\ scan' = scan /\ visited' = visited /\ dir' = dir /\ left' = left
      /\ reader' = reader /\ endThread' = endThread /\ loop' = loop
  BY DEF ReadProc
<1>1. /\ wake' \in Seq({"r", "q"}) /\ Len(wake') <= Len(wake) /\ Len(wake') \in Nat
      /\ Len(wake) \in Nat /\ ToSet(wake) = {Head(wake)} \cup ToSet(wake')
  <2>1. wake \in Seq({"r", "q"})
    BY RecursiveTypes
  <2>2. /\ wake' \in Seq({"r", "q"}) /\ Len(wake) \in Nat \ {0} /\ Len(wake') = Len(wake) - 1
        /\ ToSet(wake) = {Head(wake)} \cup ToSet(wake')
    BY <1>0, <2>1, HeadAndTail
  <2> QED BY <2>2
<1>2. Len(wake') <= PipeSize
  <2>1. PipeSize \in Nat /\ Len(wake) <= PipeSize
    BY RecursiveBrowserAssumption DEF RecursiveBrowserAssumption, RecursiveInv, RecursiveTypeOK
  <2> QED BY <1>1, <2>1
<1>3. /\ Listed' = Listed
      /\ found' \in Seq(STRING \X STRING) /\ files' \in Seq(STRING \X STRING)
      /\ found' # <<>> => found # <<>> /\ Head(wake) # "r"
  <2> DEFINE T == STRING \X STRING
  <2>1. files \in Seq(T) /\ found \in Seq(T)
    BY RecursiveTypes
  <2> HIDE DEF T
  <2>2. CASE Head(wake) = "r"
    <3>1. files' = files \o found /\ found' = <<>>
      BY <2>2 DEF ReadProc
    <3>2. files' \in Seq(T) /\ files' \o <<>> = files'
      BY <2>1, <3>1
    <3> QED BY <3>1, <3>2 DEF Listed, T
  <2>3. CASE Head(wake) # "r"
    <3>1. files' = files /\ found' = found
      BY <2>3 DEF ReadProc
    <3> QED BY <2>1, <2>3, <3>1 DEF Listed, T
  <2> QED BY <2>2, <2>3
<1>4. RecursiveTypeOK'
  BY <1>0, <1>1, <1>2, <1>3 DEF RecursiveInv, RecursiveTypeOK
<1>5. LeftOfDir' /\ ListedOnce' /\ WalkSound' /\ WalkComplete'
  BY <1>0, <1>3, WalkStands
<1>6. ScanOver'
  BY <1>0, <1>1, <1>3 DEF RecursiveInv, ScanOver
<1> QED BY <1>4, <1>5, <1>6 DEF RecursiveInv

\* What the main loop does otherwise.
LEMMA LoopKeeps ==
  ASSUME RecursiveInv, Handle \/ DestroyMode
  PROVE  RecursiveInv'
<1>0. /\ scan' = scan /\ visited' = visited /\ dir' = dir /\ left' = left /\ wake' = wake
      /\ found' = found /\ files' = files /\ reader' = reader
      /\ endThread' \in BOOLEAN /\ (endThread => endThread')
      /\ loop' \in {"idle", "busy", "join", "gone"}
      /\ loop' \in {"join", "gone"} => endThread'
  BY DEF Handle, DestroyMode, RecursiveInv, RecursiveTypeOK
<1>1. Listed' = Listed /\ Known' = Known
  BY <1>0 DEF Listed, Known
<1>2. RecursiveTypeOK'
  BY <1>0 DEF RecursiveInv, RecursiveTypeOK
<1>3. LeftOfDir'
  BY <1>0 DEF RecursiveInv, LeftOfDir, EntriesOf
<1>4. ListedOnce'
  BY <1>0, <1>1 DEF RecursiveInv, ListedOnce, FilesOf, EntriesOf
<1>5. WalkSound'
  BY <1>1 DEF RecursiveInv, WalkSound, Has
<1>6. WalkComplete'
  BY <1>0, <1>1 DEF RecursiveInv, WalkComplete, Has, Pending, EntriesOf
<1>7. ScanOver'
  BY <1>0 DEF RecursiveInv, ScanOver
<1> QED BY <1>2, <1>3, <1>4, <1>5, <1>6, <1>7 DEF RecursiveInv

\* The rows go when the mode does.
LEMMA JoinKeeps ==
  ASSUME RecursiveInv, Join
  PROVE  RecursiveInv'
<1> DEFINE T == STRING \X STRING
<1>0. /\ loop = "join" /\ loop' = "gone" /\ files' = <<>>
      /\ scan' = scan /\ visited' = visited /\ dir' = dir /\ left' = left /\ wake' = wake
      /\ found' = found /\ reader' = reader /\ endThread' = endThread
  BY DEF Join
<1>1. Known' = Known
  BY <1>0 DEF Known
<1>2. endThread
  BY <1>0 DEF RecursiveInv, ScanOver
<1>3. files \in Seq(T) /\ found \in Seq(T)
  BY RecursiveTypes
<1> HIDE DEF T
<1>4. /\ Listed' = found
      /\ DOMAIN found = 1 .. Len(found)
      /\ \A i \in 1 .. Len(found) : /\ Len(files) + i \in DOMAIN Listed
                                    /\ Listed[Len(files) + i] = found[i]
  <2>1. <<>> \o found = found
    BY <1>3
  <2> QED BY <1>0, <1>3, <2>1 DEF Listed
<1>5. ToSet(Listed') \subseteq ToSet(Listed)
  BY <1>4 DEF ToSet
<1>6. \A i, j \in 1 .. Len(found) : i # j => found[i] # found[j]
  <2> TAKE i, j \in 1 .. Len(found)
  <2>1. i # j => Len(files) + i # Len(files) + j
    BY <1>3
  <2> QED BY <1>4, <2>1 DEF RecursiveInv, ListedOnce
<1>7. RecursiveTypeOK'
  BY <1>0 DEF RecursiveInv, RecursiveTypeOK
<1>8. LeftOfDir'
  BY <1>0 DEF RecursiveInv, LeftOfDir, EntriesOf
<1>9. ListedOnce'
  BY <1>0, <1>4, <1>5, <1>6 DEF RecursiveInv, ListedOnce, FilesOf, EntriesOf
<1>10. WalkSound'
  BY <1>1 DEF RecursiveInv, WalkSound, Has
<1>11. WalkComplete'
  BY <1>0, <1>2 DEF WalkComplete, Has
<1>12. ScanOver'
  BY <1>0, <1>2 DEF RecursiveInv, ScanOver
<1> QED BY <1>7, <1>8, <1>9, <1>10, <1>11, <1>12 DEF RecursiveInv

\* Every step keeps the invariant.
LEMMA RecursiveNextKeeps ==
  ASSUME RecursiveInv, [RecursiveNext]_rvars
  PROVE  RecursiveInv'
<1>1. CASE OpenDir
  BY <1>1, OpenDirKeeps
<1>2. CASE CloseDir
  BY <1>2, CloseDirKeeps
<1>3. CASE Skip
  BY <1>3, SkipKeeps
<1>4. CASE PushFile
  BY <1>4, PushFileKeeps
<1>5. CASE PushDir
  BY <1>5, PushDirKeeps
<1>6. CASE WakeLoop
  BY <1>6, WakeKeeps DEF WakeLoop
<1>7. CASE ScanEnds
  BY <1>7, ScanEndsKeeps
<1>8. CASE InputThread
  BY <1>8, WakeKeeps DEF InputThread
<1>9. CASE ReadProc
  BY <1>9, ReadProcKeeps
<1>10. CASE Handle \/ DestroyMode
  BY <1>10, LoopKeeps
<1>11. CASE Join
  BY <1>11, JoinKeeps
<1>12. CASE UNCHANGED rvars
  <2>1. /\ scan' = scan /\ visited' = visited /\ dir' = dir /\ left' = left /\ wake' = wake
        /\ found' = found /\ files' = files /\ reader' = reader /\ endThread' = endThread
        /\ loop' = loop
    BY <1>12 DEF rvars
  <2>2. Listed' = Listed
    BY <2>1 DEF Listed
  <2>3. RecursiveTypeOK' /\ ScanOver'
    BY <2>1 DEF RecursiveInv, RecursiveTypeOK, ScanOver
  <2>4. LeftOfDir' /\ ListedOnce' /\ WalkSound' /\ WalkComplete'
    BY <2>1, <2>2, WalkStands
  <2> QED BY <2>3, <2>4 DEF RecursiveInv
<1> QED BY <1>1, <1>2, <1>3, <1>4, <1>5, <1>6, <1>7, <1>8, <1>9, <1>10, <1>11, <1>12
        DEF RecursiveNext

\* The invariant holds in every state the browser can be in.
THEOREM RecursiveInvariant == RecursiveSpec => []RecursiveInv
<1>1. RecursiveInit => RecursiveInv
  BY RecursiveInitInv
<1>2. RecursiveInv /\ [RecursiveNext]_rvars => RecursiveInv'
  BY RecursiveNextKeeps
<1> QED BY <1>1, <1>2, PTL DEF RecursiveSpec

\* When the thread is done and its bytes are read, it has visited what can be
\* reached, and all its files are rows.
LEMMA WalkReachesAll ==
  ASSUME RecursiveInv, ScanIsRead
  PROVE  /\ ToSet(files) = UNION {FilesOf(d) : d \in visited} /\ visited \subseteq Reachable
         /\ \A d \in {RootDir} \cup LeadsTo(visited) : Seen(d)
<1>1. reader = "done" /\ ~endThread /\ dir = "none" /\ scan = <<>> /\ found = <<>>
  BY SetOfEmpty DEF ScanIsRead, RecursiveInv, ScanOver
<1>2. files \in Seq(STRING \X STRING)
  BY RecursiveTypes
<1>3. Listed = files
  BY <1>1, <1>2 DEF Listed
<1>4. Known = visited /\ \A d : Pending(d) = {}
  BY <1>1, SetOfEmpty DEF Known, Pending, RecursiveInv, LeftOfDir
<1>5. visited \subseteq Reachable
  BY <1>4 DEF RecursiveInv, WalkSound
<1>6. \A d \in {RootDir} \cup LeadsTo(visited) : Seen(d)
  <2>1. \A d : Has(d) => Seen(d)
    BY <1>4 DEF Has, Seen
  <2>2. Has(RootDir)
    BY DEF RecursiveInv, WalkSound
  <2>3. \A d \in visited : \A e \in EntriesOf(d) : IsDir(e) => Has(e.to)
    BY <1>1, <1>4 DEF RecursiveInv, WalkComplete
  <2>4. \A d \in LeadsTo(visited) : Has(d)
    BY <2>3 DEF LeadsTo
  <2> QED BY <2>1, <2>2, <2>4
<1>7. \A f \in ToSet(files) : f[1] \in visited /\ f \in FilesOf(f[1])
  BY <1>3 DEF RecursiveInv, ListedOnce
<1>8. \A d \in visited : FilesOf(d) \subseteq ToSet(files)
  BY <1>1, <1>3, <1>4 DEF RecursiveInv, WalkComplete, FilesOf
<1> QED BY <1>5, <1>6, <1>7, <1>8

\* No file is listed twice, and in the end the rows are the files of what was
\* visited, and what these lead to was visited or taken for visited, for any
\* directories, links, hashes and lengths of the queue and the pipe.
THEOREM FilesAreListedOnce == RecursiveSpec => []EveryFileOnce
<1>1. RecursiveInv => EveryFileOnce
  BY WalkReachesAll DEF RecursiveInv, ListedOnce, Listed, EveryFileOnce
<1> QED BY <1>1, RecursiveInvariant, PTL

\* When no two directories have one hash, every file that can be reached is a
\* row in the end.
THEOREM FilesAreReached ==
  ASSUME HashesDiffer
  PROVE  RecursiveSpec => []EveryFileReached
<1>1. ASSUME RecursiveInv, ScanIsRead
      PROVE  ToSet(files) = UNION {FilesOf(d) : d \in Reachable}
  <2>1. /\ ToSet(files) = UNION {FilesOf(d) : d \in visited} /\ visited \subseteq Reachable
        /\ \A d \in {RootDir} \cup LeadsTo(visited) : Seen(d)
    BY <1>1, WalkReachesAll
  <2>2. {RootDir} \cup LeadsTo(visited) \subseteq Reachable
    BY <2>1, ReachableIsLeast, LeadsToGrows DEF Closed
  <2>3. \A d \in {RootDir} \cup LeadsTo(visited) : d \in visited
    BY <2>1, <2>2, HashesDiffer DEF Seen, HashesDiffer
  <2>4. visited \in SUBSET Dirs /\ Closed(visited)
    BY <2>1, <2>3, ReachableIsLeast DEF Closed
  <2>5. visited = Reachable
    BY <2>1, <2>4, ReachableIsLeast
  <2> QED BY <2>1, <2>5
<1>2. RecursiveInv => EveryFileReached
  BY <1>1 DEF EveryFileReached
<1> QED BY <1>2, RecursiveInvariant, PTL

\* What the walk keeps has its type, and the pipe is never overrun.
THEOREM RecursiveTypesCorrect == RecursiveSpec => []RecursiveTypeOK
<1>1. RecursiveInv => RecursiveTypeOK
  BY DEF RecursiveInv
<1> QED BY <1>1, RecursiveInvariant, PTL

-----------------------------------------------------------------------------
(* The options.                                                            *)
USE OptionsAssumption DEF OptionsAssumption

-----------------------------------------------------------------------------
(* The options.                                                            *)

\* What the table of options says: the names that share a variable are in it.
LEMMA NamesAre ==
  /\ Names = Table \cup {"pid"} \cup Dashed
  /\ Table \cap Dashed = {} /\ "pid" \notin Table \cup Dashed
  /\ Var \in [Names -> Vars] /\ Vars \subseteq Names
  /\ \A v \in Vars : Var[v] = v
  /\ \A n \in Names \ Table : Var[n] = n /\ n \in Vars /\ Type[n] = "string"
  /\ \A n \in Table : Var[n] \in Table
<1>1. Names = {"modi", "modes", "dpi", "sort", "pid", "kbaccept", "kbcancel", "merow"}
  BY DEF Names, Type
<1>2. Var = [n \in Names |-> IF n = "modi" THEN "modes" ELSE n]
  BY DEF Var
<1>3. "modes" \in Names
  BY <1>1
<1>4. /\ Var \in [Names -> Names] /\ \A n \in Names : Var[n] = IF n = "modi" THEN "modes" ELSE n
  BY <1>2, <1>3
<1>5. Vars = Names \ {"modi"}
  <2>1. Vars \subseteq Names \ {"modi"}
    BY <1>3, <1>4 DEF Vars
  <2>2. \A n \in Names \ {"modi"} : Var[n] = n
    BY <1>4
  <2>3. Names \ {"modi"} \subseteq Vars
    BY <2>2 DEF Vars
  <2> QED BY <2>1, <2>3
<1>6. Names = Table \cup {"pid"} \cup Dashed
  BY <1>1 DEF Table, Dashed
<1>7. Table \cap Dashed = {} /\ "pid" \notin Table \cup Dashed /\ "modi" \in Table /\ "modes" \in Table
  BY DEF Table, Dashed
<1>8. /\ Type["pid"] = "string" /\ Type["kbaccept"] = "string" /\ Type["kbcancel"] = "string"
      /\ Type["merow"] = "string"
  BY DEF Type
<1>9. \A n \in Names \ Table : Type[n] = "string"
  BY <1>6, <1>8 DEF Dashed
<1>10. Var \in [Names -> Vars]
  BY <1>4 DEF Vars
<1> HIDE DEF Names, Vars, Var
<1> QED BY <1>4, <1>5, <1>6, <1>7, <1>9, <1>10

\* Options and keys have values from the beginning, keys one that is no button.
LEMMA DefaultsAre == Default \in [Vars -> Nat] /\ \A n \in Dashed : Default[n] > 0
<1>1. Dashed \subseteq Vars /\ Dashed = {"kbaccept", "kbcancel", "merow"}
  BY NamesAre DEF Dashed
<1>2. \A v \in Vars : Default[v] = CASE v = "kbaccept" -> 1 [] v = "kbcancel" -> 2 [] v = "merow" -> 1
                                     [] OTHER -> 0
  BY DEF Default
<1>3. Default \in [Vars -> Nat]
  BY DEF Default
<1> QED BY <1>1, <1>2, <1>3

\* The key bindings are three options.
LEMMA KeysAre ==
  /\ Len(Keys) = 3 /\ Dashed = {Keys[1], Keys[2], Keys[3]}
  /\ Keys[1] # Keys[2] /\ Keys[1] # Keys[3] /\ Keys[2] # Keys[3]
BY DEF Keys, Dashed

\* The loop over the options meets all of them.
LEMMA OptionsAre ==
  /\ Len(Options) = 8 /\ \A i \in 1 .. 8 : Options[i] \in Names
  /\ \A n \in Dashed : \E i \in 1 .. 8 : Options[i] = n
<1>1. Len(Options) = 8
  BY DEF Options
<1>2. Options[6] = "kbaccept" /\ Options[7] = "kbcancel" /\ Options[8] = "merow"
  BY DEF Options
<1>3. Options[1] = "modi" /\ Options[2] = "modes" /\ Options[3] = "dpi" /\ Options[4] = "sort" /\ Options[5] = "pid"
  BY DEF Options
<1>4. Names = {"modi", "modes", "dpi", "sort", "pid", "kbaccept", "kbcancel", "merow"}
  BY DEF Names, Type
<1>5. \A i \in 1 .. 8 : i = 1 \/ i = 2 \/ i = 3 \/ i = 4 \/ i = 5 \/ i = 6 \/ i = 7 \/ i = 8
  OBVIOUS
<1>6. \A i \in 1 .. 8 : Options[i] \in Names
  BY <1>2, <1>3, <1>4, <1>5
<1>7. Dashed = {"kbaccept", "kbcancel", "merow"} /\ 6 \in 1 .. 8 /\ 7 \in 1 .. 8 /\ 8 \in 1 .. 8
  BY DEF Dashed
<1> QED BY <1>1, <1>2, <1>6, <1>7

\* The settings as a record.
LEMMA SettingsAre ==
  /\ Settings.known = known /\ Settings.value = value /\ Settings.owner = owner
  /\ Settings.mem = mem /\ Settings.source = source /\ Settings.backup = backup
  /\ Settings.failed = failed /\ Settings.asked = asked
BY DEF Settings

-----------------------------------------------------------------------------
(* Whatever is done to the settings: no variable points at a text that was *)
(* freed, a property is kept for the option it names, and keys are given.  *)
OptionStates ==
  [known : SUBSET Names, value : [Vars -> Nat], owner : [Vars -> Names \cup {"static", "argv"}],
   mem : SUBSET Names, source : [Names -> {"default", "file", "argument"}],
   backup : [Names -> Property \cup {NoProperty}], failed : BOOLEAN, asked : [Vars -> Nat]]
Owned(s) == \A v \in Vars : s.owner[v] \in Names => s.owner[v] \in s.mem /\ Var[s.owner[v]] = v
SoundSettings(s) ==
  /\ s \in OptionStates /\ Owned(s)
  /\ \A n \in Names : s.backup[n] # NoProperty => s.backup[n].name = n
  /\ \A n \in Dashed : s.value[n] > 0

(* What is asked is what holds; an option that is not known yet has its    *)
(* default and will get what is kept for it.                               *)
Awaits(s, n) == IF s.backup[n] # NoProperty /\ Fits(n, s.backup[n].kind)
                THEN s.backup[n].value ELSE Default[n]
Agree(s) ==
  /\ \A n \in s.known : s.value[Var[n]] = s.asked[Var[n]]
  /\ \A n \in Names \ s.known : s.value[n] = Default[n] /\ s.asked[n] = Awaits(s, n)

(* Of the command line.                                                    *)
GivenWord(v) == argv[IF v \in Dashed THEN Min(Given(v)) ELSE Max(Given(v))].value
ArgumentsAsked == \A v \in Vars : IF Given(v) = {} THEN value[v] = asked[v] ELSE asked[v] = GivenWord(v)
OptionsParsed ==
  \A v \in Dashed, j \in 1 .. at - 1 : Options[j] = v => value[v] = asked[v]
ArgumentsParsed ==
  /\ \A v \in Dashed : value[v] = asked[v]
  /\ \A v \in Vars \ Dashed :
       Given(v) # {} /\ Max(Given(v)) < at => SomeUnfit \/ value[v] = asked[v]

KnownAt(st) == CASE st = "start" -> Table
                 [] st \in {"defaults", "modes", "keys"} -> Table \cup {"pid"}
                 [] OTHER -> Names
Progress ==
  /\ known = KnownAt(stage) /\ argv \in Args
  /\ CASE stage = "options" ->
              at \in 1 .. Len(Options) /\ ArgumentsAsked /\ OptionsParsed
       [] stage = "arguments" ->
              at \in 1 .. Len(argv) + 1 /\ ArgumentsAsked /\ ArgumentsParsed
       [] stage \in {"themestr", "bindings", "done"} ->
              at = 1 /\ (failed \/ SomeUnfit \/ Agree(Settings))
       [] OTHER -> at = 1 /\ Agree(Settings)

OptionsInv ==
  /\ stage \in DOMAIN Follows \cup {"options", "arguments", "bindings", "done"}
  /\ SoundSettings(Settings) /\ Progress /\ KeysAreBound
-----------------------------------------------------------------------------
(* What the functions of the configuration do to the settings.             *)

\* A property that fits gives the variable of its option the value.
LEMMA SetOptionIs ==
  ASSUME NEW s \in OptionStates, NEW p \in Property, Fits(p.name, p.kind)
  PROVE  LET t == SetOption(s, p)
             n == p.name
         IN  /\ t \in OptionStates /\ t.known = s.known /\ t.backup = s.backup
             /\ t.asked = s.asked /\ t.failed = s.failed
             /\ t.value = [s.value EXCEPT ![Var[n]] = p.value]
             /\ \/ t.owner = [s.owner EXCEPT ![Var[n]] = n] /\ t.mem = s.mem \cup {n}
                \/ t.owner = s.owner /\ t.mem = s.mem
<1> DEFINE n == p.name
           v == Var[n]
<1>1. n \in Names /\ v \in Vars /\ p.value \in Nat
  BY NamesAre DEF Property
<1> HIDE DEF n, v
<1>2. CASE Type[n] = "string"
  <2> DEFINE a == [s EXCEPT !.value[v] = p.value]
             t == [a EXCEPT !.owner[v] = n, !.mem = @ \cup {n}, !.source[n] = "file"]
  <2>1. SetOption(s, p) = t
    BY <1>2 DEF SetOption, Assign, n, v
  <2>2. /\ a \in OptionStates /\ a.known = s.known /\ a.backup = s.backup /\ a.asked = s.asked
        /\ a.failed = s.failed /\ a.value = [s.value EXCEPT ![v] = p.value]
        /\ a.owner = s.owner /\ a.mem = s.mem
    BY <1>1 DEF OptionStates
  <2> HIDE DEF a
  <2>3. /\ t \in OptionStates /\ t.known = a.known /\ t.backup = a.backup /\ t.asked = a.asked
        /\ t.failed = a.failed /\ t.value = a.value
        /\ t.owner = [a.owner EXCEPT ![v] = n] /\ t.mem = a.mem \cup {n}
    BY <1>1, <2>2 DEF OptionStates
  <2> HIDE DEF t
  <2> QED BY <2>1, <2>2, <2>3 DEF n, v
<1>3. CASE Type[n] # "string"
  <2> DEFINE a == [s EXCEPT !.value[v] = p.value]
             t == [a EXCEPT !.source[n] = "file"]
  <2>1. SetOption(s, p) = t
    BY <1>3 DEF SetOption, Assign, n, v
  <2>2. /\ a \in OptionStates /\ a.known = s.known /\ a.backup = s.backup /\ a.asked = s.asked
        /\ a.failed = s.failed /\ a.value = [s.value EXCEPT ![v] = p.value]
        /\ a.owner = s.owner /\ a.mem = s.mem
    BY <1>1 DEF OptionStates
  <2> HIDE DEF a
  <2>3. /\ t \in OptionStates /\ t.known = a.known /\ t.backup = a.backup /\ t.asked = a.asked
        /\ t.failed = a.failed /\ t.value = a.value /\ t.owner = a.owner /\ t.mem = a.mem
    BY <1>1, <2>2 DEF OptionStates
  <2> HIDE DEF t
  <2> QED BY <2>1, <2>2, <2>3 DEF n, v
<1> QED BY <1>2, <1>3

\* Who owns the text of a variable after it was given to another option.
LEMMA OwnedAfter ==
  ASSUME NEW s \in OptionStates, Owned(s), NEW t \in OptionStates, NEW n \in Names,
         \/ t.owner = [s.owner EXCEPT ![Var[n]] = n] /\ t.mem = s.mem \cup {n}
         \/ t.owner = s.owner /\ t.mem = s.mem
  PROVE  Owned(t)
<1>1. Var[n] \in Vars
  BY NamesAre
<1>2. s.owner \in [Vars -> Names \cup {"static", "argv"}]
  BY DEF OptionStates
<1> QED BY <1>1, <1>2 DEF Owned

\* A property of a file keeps the settings sound.
LEMMA SetPropertyKeeps ==
  ASSUME NEW s, SoundSettings(s), NEW p \in Property, NEW t, t = SetProperty(s, p)
  PROVE  /\ SoundSettings(t) /\ t.known = s.known /\ t.asked = s.asked
         /\ p.name \in s.known /\ Fits(p.name, p.kind) =>
              /\ t.value = [s.value EXCEPT ![Var[p.name]] = p.value]
              /\ t.backup = s.backup /\ t.failed = s.failed
         /\ p.name \in s.known /\ ~Fits(p.name, p.kind) =>
              t.value = s.value /\ t.backup = s.backup /\ t.failed
         /\ p.name \notin s.known =>
              /\ t.value = s.value /\ t.failed = s.failed
              /\ t.backup = [s.backup EXCEPT ![p.name] = p]
<1> DEFINE n == p.name
<1>1. /\ n \in Names /\ Var[n] \in Vars /\ p.value \in Nat /\ p.value > 0 /\ s \in OptionStates
      /\ Owned(s)
      /\ \A m \in Names : s.backup[m] # NoProperty => s.backup[m].name = m
      /\ \A m \in Dashed : s.value[m] > 0
  BY NamesAre DEF SoundSettings, Property
<1>2. CASE n \in s.known /\ Fits(n, p.kind)
  <2>1. t = SetOption(s, p)
    BY <1>2 DEF SetProperty
  <2>2. /\ t \in OptionStates /\ t.known = s.known /\ t.backup = s.backup /\ t.asked = s.asked
        /\ t.failed = s.failed
        /\ t.value = [s.value EXCEPT ![Var[n]] = p.value]
        /\ \/ t.owner = [s.owner EXCEPT ![Var[n]] = n] /\ t.mem = s.mem \cup {n}
           \/ t.owner = s.owner /\ t.mem = s.mem
    BY <1>1, <1>2, <2>1, SetOptionIs
  <2> HIDE DEF n
  <2>3. Owned(t)
    BY <1>1, <2>2, OwnedAfter
  <2>4. s.value \in [Vars -> Nat] /\ Dashed \subseteq Vars
    BY <1>1, NamesAre DEF OptionStates
  <2>5. \A m \in Dashed : t.value[m] > 0
    BY <1>1, <2>2, <2>4
  <2>6. SoundSettings(t)
    BY <1>1, <2>2, <2>3, <2>5 DEF SoundSettings
  <2> QED BY <1>2, <2>2, <2>6 DEF n
<1>3. CASE n \in s.known /\ ~Fits(n, p.kind)
  <2>1. t = [s EXCEPT !.failed = TRUE]
    BY <1>3 DEF SetProperty, SetOption
  <2>2. /\ t \in OptionStates /\ t.known = s.known /\ t.backup = s.backup /\ t.asked = s.asked
        /\ t.failed = TRUE /\ t.value = s.value /\ t.owner = s.owner /\ t.mem = s.mem
    BY <1>1, <2>1 DEF OptionStates
  <2> HIDE DEF n
  <2>3. SoundSettings(t)
    BY <1>1, <2>2 DEF SoundSettings, Owned
  <2> QED BY <1>3, <2>2, <2>3 DEF n
<1>4. CASE n \notin s.known
  <2>0. \A x \in OptionStates, m \in Names, q \in Property :
          /\ [x EXCEPT !.backup[m] = q] \in OptionStates
          /\ [x EXCEPT !.backup[m] = q].backup = [x.backup EXCEPT ![m] = q]
    BY DEF OptionStates
  <2>1. t = [s EXCEPT !.backup[n] = p]
    BY <1>4 DEF SetProperty
  <2> HIDE DEF n
  <2>2. /\ t \in OptionStates /\ t.known = s.known /\ t.backup = [s.backup EXCEPT ![n] = p]
        /\ t.asked = s.asked
        /\ t.failed = s.failed /\ t.value = s.value /\ t.owner = s.owner /\ t.mem = s.mem
    <3>1. t \in OptionStates /\ t.backup = [s.backup EXCEPT ![n] = p]
      BY <1>1, <2>0, <2>1
    <3> QED BY <1>1, <2>1, <3>1 DEF OptionStates
  <2>3. s.backup \in [Names -> Property \cup {NoProperty}] /\ p.name = n
    BY <1>1 DEF OptionStates, n
  <2>4. \A m \in Names : t.backup[m] # NoProperty => t.backup[m].name = m
    BY <1>1, <2>2, <2>3
  <2>5. SoundSettings(t)
    BY <1>1, <2>2, <2>4 DEF SoundSettings, Owned
  <2> QED BY <1>4, <2>2, <2>5 DEF n
<1> QED BY <1>2, <1>3, <1>4

\* The property of an option that is known gives it its value.
LEMMA SetKnown ==
  ASSUME NEW s, SoundSettings(s), NEW p \in Property, p.name \in s.known, Fits(p.name, p.kind)
  PROVE  LET t == SetProperty(s, p)
         IN  /\ SoundSettings(t) /\ t.known = s.known /\ t.asked = s.asked
             /\ t.value = [s.value EXCEPT ![Var[p.name]] = p.value]
             /\ t.backup = s.backup /\ t.failed = s.failed
<1> DEFINE t == SetProperty(s, p)
<1>1. /\ SoundSettings(t) /\ t.known = s.known /\ t.asked = s.asked
      /\ p.name \in s.known /\ Fits(p.name, p.kind) =>
           /\ t.value = [s.value EXCEPT ![Var[p.name]] = p.value]
           /\ t.backup = s.backup /\ t.failed = s.failed
      /\ p.name \in s.known /\ ~Fits(p.name, p.kind) =>
           t.value = s.value /\ t.backup = s.backup /\ t.failed
      /\ p.name \notin s.known =>
           /\ t.value = s.value /\ t.failed = s.failed
           /\ t.backup = [s.backup EXCEPT ![p.name] = p]
  BY SetPropertyKeeps
<1> HIDE DEF t
<1> QED BY <1>1 DEF t

\* An option that is added has the value that was kept for it.
LEMMA AddOptionKeeps ==
  ASSUME NEW s, SoundSettings(s), NEW n \in Names \ Table, NEW t, t = AddOption(s, n)
  PROVE  LET k == s.backup[n]
         IN  /\ SoundSettings(t) /\ t.known = s.known \cup {n} /\ t.asked = s.asked
             /\ t.failed = s.failed /\ t.backup = s.backup
             /\ t.value = IF k # NoProperty /\ Fits(n, k.kind)
                          THEN [s.value EXCEPT ![n] = k.value] ELSE s.value
<1> DEFINE k == s.backup[n]
           a == [s EXCEPT !.known = @ \cup {n}, !.mem = @ \cup {n}, !.owner[Var[n]] = n]
<1>1. /\ n \in Names /\ Var[n] = n /\ n \in Vars /\ s \in OptionStates /\ Owned(s)
      /\ \A m \in Names : s.backup[m] # NoProperty => s.backup[m].name = m
      /\ \A m \in Dashed : s.value[m] > 0
  BY NamesAre DEF SoundSettings
<1>2. s.backup \in [Names -> Property \cup {NoProperty}]
  BY <1>1 DEF OptionStates
<1>3. /\ a \in OptionStates /\ a.known = s.known \cup {n} /\ a.mem = s.mem \cup {n}
      /\ a.owner = [s.owner EXCEPT ![n] = n] /\ a.backup = s.backup /\ a.asked = s.asked
      /\ a.failed = s.failed /\ a.value = s.value
  BY <1>1 DEF OptionStates
<1>4. t = IF k # NoProperty /\ Fits(n, k.kind) THEN SetOption(a, k) ELSE a
  BY DEF AddOption
<1> HIDE DEF a
<1>5. Owned(a)
  BY <1>1, <1>3, OwnedAfter
<1>6. SoundSettings(a)
  BY <1>1, <1>3, <1>5 DEF SoundSettings
<1>7. CASE k # NoProperty /\ Fits(n, k.kind)
  <2>1. k \in Property /\ k.name = n
    BY <1>1, <1>2, <1>7
  <2>2. k.name \in a.known /\ Fits(k.name, k.kind)
    BY <1>3, <1>7, <2>1
  <2>3. t = SetProperty(a, k)
    BY <1>4, <1>7, <2>2 DEF SetProperty
  <2> HIDE DEF k
  <2>4. /\ SoundSettings(t) /\ t.known = a.known /\ t.asked = a.asked
        /\ t.value = [a.value EXCEPT ![Var[k.name]] = k.value]
        /\ t.backup = a.backup /\ t.failed = a.failed
    BY <1>6, <2>1, <2>2, <2>3, SetKnown
  <2>5. t.value = [s.value EXCEPT ![n] = k.value]
    BY <1>1, <1>3, <2>1, <2>4
  <2> QED BY <1>3, <1>7, <2>4, <2>5 DEF k
<1>8. CASE ~(k # NoProperty /\ Fits(n, k.kind))
  <2>1. t = a
    BY <1>4, <1>8
  <2> QED BY <1>3, <1>6, <1>8, <2>1
<1> QED BY <1>7, <1>8

\* The least and the greatest of some numbers.
LEMMA LeastAndMost ==
  ASSUME NEW n \in Nat, NEW S, S \subseteq 0 .. n, S # {}
  PROVE  /\ Min(S) \in S /\ \A x \in S : Min(S) <= x
         /\ Max(S) \in S /\ \A x \in S : Max(S) >= x
<1>0. S \subseteq Nat
  OBVIOUS
<1>1. \E x \in S : \A y \in S : x <= y
  BY <1>0, Least
<1>2. \E x \in S : \A y \in S : x >= y
  <2> DEFINE T == {n - x : x \in S}
  <2>1. T \subseteq Nat /\ T # {}
    <3>1. \A x \in S : n - x \in Nat
      OBVIOUS
    <3> QED BY <3>1
  <2>2. PICK z \in T : \A y \in T : z <= y
    BY <2>1, Least
  <2>3. PICK x \in S : z = n - x
    BY <2>2
  <2>4. ASSUME NEW y \in S PROVE x >= y
    <3>1. n - y \in T
      OBVIOUS
    <3>2. n - x <= n - y
      BY <2>2, <2>3, <3>1
    <3>3. x \in Int /\ y \in Int
      OBVIOUS
    <3> QED BY <3>2, <3>3
  <2> QED BY <2>4
<1> QED BY <1>1, <1>2 DEF Min, Max

\* The first and the last place of some.
LEMMA MinAndMax ==
  ASSUME NEW n \in Nat, NEW S, S \subseteq 1 .. n, S # {}
  PROVE  /\ Min(S) \in S /\ \A x \in S : Min(S) <= x
         /\ Max(S) \in S /\ \A x \in S : Max(S) >= x
<1>1. S \subseteq 0 .. n
  OBVIOUS
<1> QED BY <1>1, LeastAndMost

\* An option of the command line: its first place gives the value.
LEMMA CmdOptionKeeps ==
  ASSUME NEW s, SoundSettings(s), argv \in Seq(Property), NEW n \in Names, NEW t, t = CmdOption(s, n)
  PROVE  LET i == Min(Occurrences(n))
         IN  /\ SoundSettings(t) /\ t.known = s.known /\ t.asked = s.asked
             /\ t.failed = s.failed /\ t.backup = s.backup
             /\ Occurrences(n) = {} => t.value = s.value
             /\ Occurrences(n) # {} => /\ i \in Occurrences(n)
                                       /\ t.value = [s.value EXCEPT ![Var[n]] = argv[i].value]
<1> DEFINE i == Min(Occurrences(n))
           v == Var[n]
<1>1. /\ v \in Vars /\ s \in OptionStates /\ Owned(s)
      /\ \A m \in Names : s.backup[m] # NoProperty => s.backup[m].name = m
      /\ \A m \in Dashed : s.value[m] > 0
  BY NamesAre DEF SoundSettings
<1>2. Len(argv) \in Nat /\ Occurrences(n) \subseteq 1 .. Len(argv)
  BY DEF Occurrences
<1>3. CASE Occurrences(n) = {}
  <2>1. t = s
    BY <1>3 DEF CmdOption, FindArg
  <2> QED BY <1>3, <2>1
<1>4. CASE Occurrences(n) # {}
  <2>1. i \in Occurrences(n) /\ i \in 1 .. Len(argv) /\ i # 0 /\ FindArg(n) = i
    <3>1. i \in Occurrences(n)
      BY <1>2, <1>4, MinAndMax
    <3> QED BY <1>2, <1>4, <3>1 DEF FindArg
  <2> DEFINE w == argv[i].value
             isText == Type[n] = "string"
             a == [s EXCEPT !.value[v] = w]
             o == IF isText THEN "argv" ELSE a.owner[v]
             m == IF isText THEN a.mem \ {n} ELSE a.mem
             b == [a EXCEPT !.source[n] = "argument", !.owner[v] = o, !.mem = m]
  <2>2. w \in Nat /\ w > 0
    <3>1. argv[i] \in Property
      BY <1>2, <2>1
    <3> QED BY <3>1 DEF Property
  <2>3. t = b
    <3>1. t = [Assign(s, n, argv[FindArg(n)].value)
                 EXCEPT !.source[n] = "argument",
                        !.owner[Var[n]] = IF isText THEN "argv" ELSE @,
                        !.mem = IF isText THEN @ \ {n} ELSE @]
      BY <2>1 DEF CmdOption
    <3> QED BY <2>1, <3>1 DEF Assign
  <2> HIDE DEF i, v, w
  <2>4. /\ a \in OptionStates /\ a.known = s.known /\ a.backup = s.backup /\ a.asked = s.asked
        /\ a.failed = s.failed /\ a.value = [s.value EXCEPT ![v] = w]
        /\ a.owner = s.owner /\ a.mem = s.mem
    BY <1>1, <2>2 DEF OptionStates
  <2> HIDE DEF a
  <2>5. a.owner \in [Vars -> Names \cup {"static", "argv"}] /\ a.mem \subseteq Names
    BY <2>4 DEF OptionStates
  <2>6. o \in Names \cup {"static", "argv"} /\ m \subseteq Names
    BY <1>1, <2>5
  <2>7. \A x \in Names \cup {"static", "argv"}, y \in SUBSET Names :
          LET c == [a EXCEPT !.source[n] = "argument", !.owner[v] = x, !.mem = y]
          IN  /\ c \in OptionStates /\ c.known = a.known /\ c.backup = a.backup /\ c.asked = a.asked
              /\ c.failed = a.failed /\ c.value = a.value
              /\ c.owner = [a.owner EXCEPT ![v] = x] /\ c.mem = y
    BY <1>1, <2>4 DEF OptionStates
  <2>8. /\ b \in OptionStates /\ b.known = a.known /\ b.backup = a.backup /\ b.asked = a.asked
        /\ b.failed = a.failed /\ b.value = a.value
        /\ b.owner = [a.owner EXCEPT ![v] = o] /\ b.mem = m
    <3> HIDE DEF o, m
    <3> QED BY <2>6, <2>7
  <2> HIDE DEF b
  <2>9. Owned(b)
    <3>1. CASE isText
      <4>1. b.owner = [s.owner EXCEPT ![v] = "argv"] /\ b.mem = s.mem \ {n}
        BY <2>4, <2>8, <3>1
      <4>2. "argv" \notin Names
        BY DEF Names, Type
      <4> QED BY <1>1, <2>4, <2>5, <4>1, <4>2 DEF Owned, v
    <3>2. CASE ~isText
      <4>1. b.owner = s.owner /\ b.mem = s.mem
        BY <1>1, <2>4, <2>5, <2>8, <3>2
      <4> QED BY <1>1, <4>1 DEF Owned
    <3> QED BY <3>1, <3>2
  <2>10. \A x \in Dashed : b.value[x] > 0
    <3>1. s.value \in [Vars -> Nat] /\ Dashed \subseteq Vars
      BY <1>1, NamesAre DEF OptionStates
    <3> QED BY <1>1, <2>2, <2>4, <2>8, <3>1
  <2>11. SoundSettings(b)
    BY <1>1, <2>4, <2>8, <2>9, <2>10 DEF SoundSettings
  <2> QED BY <1>4, <2>1, <2>3, <2>4, <2>8, <2>11 DEF i, v, w
<1> QED BY <1>3, <1>4

-----------------------------------------------------------------------------
(* The steps of main.                                                      *)

\* What a step sets is the settings after it.
LEMMA SetsIs ==
  ASSUME NEW t \in OptionStates, Sets(t)
  PROVE  Settings' = t
<1>1. t = [known |-> t.known, value |-> t.value, owner |-> t.owner, mem |-> t.mem,
           source |-> t.source, backup |-> t.backup, failed |-> t.failed, asked |-> t.asked]
  BY DEF OptionStates
<1> QED BY <1>1 DEF Sets, Settings

\* The types follow from the invariant.
LEMMA OptionsTypes ==
  ASSUME OptionsInv
  PROVE  /\ OptionsTypeOK /\ argv \in Seq(Property) /\ Settings \in OptionStates
         /\ Table \subseteq known
<1>1. Settings \in OptionStates /\ argv \in Seq(Property)
  BY DEF OptionsInv, SoundSettings, Progress
<1>2. /\ known \subseteq Names /\ mem \subseteq Names /\ failed \in BOOLEAN
      /\ value \in [Vars -> Nat] /\ asked \in [Vars -> Nat]
      /\ owner \in [Vars -> Names \cup {"static", "argv"}]
      /\ source \in [Names -> {"default", "file", "argument"}]
      /\ backup \in [Names -> Property \cup {NoProperty}]
  BY <1>1, SettingsAre DEF OptionStates
<1>3. at \in Nat \ {0}
  <2>1. Len(argv) \in Nat /\ Len(Options) = 8
    BY <1>1, OptionsAre
  <2> QED BY <2>1 DEF OptionsInv, Progress
<1>4. Table \subseteq known
  BY NamesAre DEF OptionsInv, Progress, KnownAt
<1> QED BY <1>1, <1>2, <1>3, <1>4 DEF OptionsTypeOK, OptionsInv

\* The variable of a known option is not that of an unknown one.
LEMMA KnownVariable ==
  ASSUME NEW k, Table \subseteq k, NEW n \in k, n \in Names
  PROVE  Var[n] \in k /\ Var[n] \in Vars
BY NamesAre

\* A property of a file is what is asked from then on.
LEMMA ReadAgrees ==
  ASSUME NEW s, SoundSettings(s), NEW p \in Property, Table \subseteq s.known,
         NEW w, w = [s.asked EXCEPT ![Var[p.name]] =
                       IF Fits(p.name, p.kind) THEN p.value
                       ELSE IF p.name \in s.known THEN s.asked[Var[p.name]] ELSE Default[p.name]]
  PROVE  LET t == [SetProperty(s, p) EXCEPT !.asked = w]
         IN  SoundSettings(t) /\ t.known = s.known /\ (~t.failed => ~s.failed) /\ (Agree(s) => Agree(t))
<1> DEFINE n == p.name
           v == Var[n]
           u == SetProperty(s, p)
           t == [u EXCEPT !.asked = w]
<1>1. /\ n \in Names /\ v \in Vars /\ p.value \in Nat /\ p.value > 0
      /\ s.asked \in [Vars -> Nat] /\ s.value \in [Vars -> Nat] /\ s.known \subseteq Names
      /\ s.backup \in [Names -> Property \cup {NoProperty}] /\ s.failed \in BOOLEAN
  BY NamesAre DEF SoundSettings, OptionStates, Property
<1>2. w \in [Vars -> Nat]
  <2>1. n \notin s.known => Default[n] \in Nat
    BY <1>1, NamesAre, DefaultsAre
  <2> QED BY <1>1, <2>1
<1>3. /\ SoundSettings(u) /\ u.known = s.known /\ u.asked = s.asked
      /\ n \in s.known /\ Fits(n, p.kind) =>
           /\ u.value = [s.value EXCEPT ![v] = p.value]
           /\ u.backup = s.backup /\ u.failed = s.failed
      /\ n \in s.known /\ ~Fits(n, p.kind) =>
           u.value = s.value /\ u.backup = s.backup /\ u.failed
      /\ n \notin s.known =>
           /\ u.value = s.value /\ u.failed = s.failed
           /\ u.backup = [s.backup EXCEPT ![n] = p]
  BY SetPropertyKeeps
<1> HIDE DEF u
<1>4. /\ t \in OptionStates /\ t.known = u.known /\ t.value = u.value /\ t.owner = u.owner
      /\ t.mem = u.mem /\ t.backup = u.backup /\ t.failed = u.failed /\ t.asked = w
  BY <1>2, <1>3 DEF SoundSettings, OptionStates
<1> HIDE DEF t
<1>5. SoundSettings(t)
  BY <1>3, <1>4 DEF SoundSettings, Owned
<1>6. ~t.failed => ~s.failed
  BY <1>1, <1>3, <1>4
<1>7. \A m \in s.known : Var[m] \in s.known /\ Var[m] \in Vars
  BY <1>1, KnownVariable
<1>8. \A m \in Names \ s.known : Var[m] = m /\ m \in Vars
  BY NamesAre
<1>9. ASSUME Agree(s) PROVE Agree(t)
  <2>0. /\ \A m \in s.known : s.value[Var[m]] = s.asked[Var[m]]
        /\ \A m \in Names \ s.known : s.value[m] = Default[m] /\ s.asked[m] = Awaits(s, m)
    BY <1>9 DEF Agree
  <2>1. CASE n \in s.known /\ Fits(n, p.kind)
    <3>1. /\ t.value = [s.value EXCEPT ![v] = p.value] /\ t.backup = s.backup
          /\ t.asked = [s.asked EXCEPT ![v] = p.value] /\ t.known = s.known
      BY <1>3, <1>4, <2>1
    <3>2. v \in s.known
      BY <1>7, <2>1
    <3>3. \A m \in s.known : t.value[Var[m]] = t.asked[Var[m]]
      BY <1>1, <1>7, <2>0, <3>1
    <3>4. \A m \in Names \ s.known : /\ t.value[m] = s.value[m] /\ t.asked[m] = s.asked[m]
                                     /\ Awaits(t, m) = Awaits(s, m)
      BY <1>1, <1>8, <3>1, <3>2 DEF Awaits
    <3> QED BY <2>0, <3>1, <3>3, <3>4 DEF Agree
  <2>2. CASE n \in s.known /\ ~Fits(n, p.kind)
    <3>1. /\ t.value = s.value /\ t.backup = s.backup /\ t.asked = s.asked /\ t.known = s.known
      BY <1>1, <1>3, <1>4, <2>2
    <3> QED BY <2>0, <3>1 DEF Agree, Awaits
  <2>3. CASE n \notin s.known
    <3>1. /\ t.value = s.value /\ t.backup = [s.backup EXCEPT ![n] = p] /\ t.known = s.known
          /\ t.asked = [s.asked EXCEPT ![n] = IF Fits(n, p.kind) THEN p.value ELSE Default[n]]
      BY <1>1, <1>3, <1>4, <1>8, <2>3
    <3>2. \A m \in s.known : t.value[Var[m]] = t.asked[Var[m]]
      BY <1>1, <1>7, <2>0, <2>3, <3>1
    <3>3. \A m \in Names \ s.known : t.value[m] = Default[m]
      BY <2>0, <3>1
    <3>4. \A m \in Names \ s.known : m # n => t.asked[m] = Awaits(t, m)
      BY <1>1, <1>8, <2>0, <3>1 DEF Awaits
    <3>5. p # NoProperty /\ t.backup[n] = p
      <4>1. NoProperty.value = 0
        BY DEF NoProperty
      <4> QED BY <1>1, <3>1, <4>1
    <3>6. t.asked[n] = Awaits(t, n)
      BY <1>1, <1>8, <2>3, <3>1, <3>5 DEF Awaits
    <3> QED BY <3>1, <3>2, <3>3, <3>4, <3>6 DEF Agree
  <2> QED BY <2>1, <2>2, <2>3
<1> QED BY <1>3, <1>4, <1>5, <1>6, <1>9 DEF t, u

\* A file keeps the invariant.
LEMMA ReadPropertyKeeps ==
  ASSUME OptionsInv, NEW p \in Files, ReadProperty(p)
  PROVE  OptionsInv'
<1> DEFINE s == Settings
           t == [SetProperty(s, p) EXCEPT !.asked = Wants(p)]
<1>1. /\ p \in Property /\ SoundSettings(s) /\ Table \subseteq s.known
      /\ s.known = known /\ s.asked = asked /\ s.failed = failed /\ failed \in BOOLEAN
  BY OptionsTypes, SettingsAre DEF OptionsInv, OptionsTypeOK
<1>2. /\ stage \in FileStages /\ Sets(t) /\ UNCHANGED <<stage, at, argv, bound>>
  BY DEF ReadProperty
<1>3. failed \/ SomeUnfit \/ Agree(s)
  BY <1>2 DEF OptionsInv, Progress, FileStages
<1>4. Wants(p) = [s.asked EXCEPT ![Var[p.name]] =
                    IF Fits(p.name, p.kind) THEN p.value
                    ELSE IF p.name \in s.known THEN s.asked[Var[p.name]] ELSE Default[p.name]]
  BY <1>1 DEF Wants
<1> HIDE DEF t
<1>5. SoundSettings(t) /\ t.known = known /\ (~t.failed => ~failed) /\ (Agree(s) => Agree(t))
  BY <1>1, <1>4, ReadAgrees DEF t
<1>6. Settings' = t
  BY <1>2, <1>5, SetsIs DEF SoundSettings
<1>7. SoundSettings(Settings)' /\ (Agree(Settings) => Agree(Settings)') /\ known' = known /\ (failed => failed')
      /\ SomeUnfit' = SomeUnfit
  <2>1. known' = t.known /\ failed' = t.failed
    BY <1>2 DEF Sets
  <2> QED BY <1>1, <1>2, <1>5, <1>6, <2>1 DEF SoundSettings, OptionStates, SomeUnfit
<1>8. Progress'
  BY <1>2, <1>3, <1>7 DEF OptionsInv, Progress, FileStages, KnownAt
<1>9. KeysAreBound'
  BY <1>2 DEF FileStages, KeysAreBound
<1> QED BY <1>2, <1>7, <1>8, <1>9 DEF OptionsInv

\* An option that is added keeps what is asked of every option.
LEMMA AddAgrees ==
  ASSUME NEW s, SoundSettings(s), Table \subseteq s.known, NEW n \in Names \ Table, n \notin s.known
  PROVE  LET t == AddOption(s, n)
         IN  /\ SoundSettings(t) /\ t.known = s.known \cup {n} /\ t.failed = s.failed
             /\ Agree(s) => Agree(t)
<1> DEFINE k == s.backup[n]
           t == AddOption(s, n)
<1>1. /\ n \in Names /\ n \in Vars /\ Var[n] = n /\ s.value \in [Vars -> Nat] /\ s.known \subseteq Names
  BY NamesAre DEF SoundSettings, OptionStates
<1>2. /\ SoundSettings(t) /\ t.known = s.known \cup {n} /\ t.asked = s.asked
      /\ t.failed = s.failed /\ t.backup = s.backup
      /\ t.value = IF k # NoProperty /\ Fits(n, k.kind)
                   THEN [s.value EXCEPT ![n] = k.value] ELSE s.value
  BY AddOptionKeeps
<1> HIDE DEF t
<1>3. \A m \in s.known : Var[m] \in s.known /\ Var[m] \in Vars
  BY <1>1, KnownVariable
<1>4. \A m \in Names \ s.known : Var[m] = m /\ m \in Vars
  BY NamesAre
<1>5. ASSUME Agree(s) PROVE Agree(t)
  <2>1. /\ \A m \in s.known : s.value[Var[m]] = s.asked[Var[m]]
        /\ \A m \in Names \ s.known : s.value[m] = Default[m] /\ s.asked[m] = Awaits(s, m)
    BY <1>5 DEF Agree
  <2>2. t.value[n] = s.asked[n]
    BY <1>1, <1>2, <2>1 DEF Awaits
  <2>3. \A v \in Vars : v # n => t.value[v] = s.value[v]
    BY <1>1, <1>2
  <2>4. \A m \in s.known : t.value[Var[m]] = t.asked[Var[m]]
    BY <1>2, <1>3, <2>1, <2>3
  <2>5. \A m \in Names \ t.known : t.value[m] = Default[m] /\ t.asked[m] = Awaits(t, m)
    BY <1>2, <1>4, <2>1, <2>3 DEF Awaits
  <2> QED BY <1>1, <1>2, <2>2, <2>4, <2>5 DEF Agree
<1> QED BY <1>2, <1>5 DEF t

\* The keys are added one after the other.
LEMMA AddKeysAgrees ==
  ASSUME NEW s, SoundSettings(s), s.known = Table \cup {"pid"}
  PROVE  LET t == AddKeys(s)
         IN  /\ SoundSettings(t) /\ t.known = Names /\ t.failed = s.failed
             /\ Agree(s) => Agree(t)
<1> DEFINE a == AddOption(s, Keys[1])
           b == AddOption(a, Keys[2])
           c == AddOption(b, Keys[3])
<1>1. /\ Dashed = {Keys[1], Keys[2], Keys[3]}
      /\ Keys[1] # Keys[2] /\ Keys[1] # Keys[3] /\ Keys[2] # Keys[3]
      /\ Dashed \cap (Table \cup {"pid"}) = {} /\ Names = Table \cup {"pid"} \cup Dashed
  BY KeysAre, NamesAre
<1>2. SoundSettings(a) /\ a.known = s.known \cup {Keys[1]} /\ a.failed = s.failed /\ (Agree(s) => Agree(a))
  BY <1>1, AddAgrees
<1> HIDE DEF a
<1>3. SoundSettings(b) /\ b.known = a.known \cup {Keys[2]} /\ b.failed = a.failed /\ (Agree(a) => Agree(b))
  BY <1>1, <1>2, AddAgrees
<1> HIDE DEF b
<1>4. SoundSettings(c) /\ c.known = b.known \cup {Keys[3]} /\ c.failed = b.failed /\ (Agree(b) => Agree(c))
  BY <1>1, <1>2, <1>3, AddAgrees
<1> HIDE DEF c
<1>5. c.known = Names
  BY <1>1, <1>2, <1>3, <1>4
<1>6. AddKeys(s) = c
  BY DEF AddKeys, a, b, c
<1> QED BY <1>2, <1>3, <1>4, <1>5, <1>6

\* The first words of the command line are what is asked from then on.
LEMMA WordsAreProperties ==
  ASSUME argv \in Seq(Property), NEW v \in Vars
  PROVE  /\ Given(v) \subseteq 1 .. Len(argv)
         /\ Given(v) # {} =>
              /\ Min(Given(v)) \in Given(v) /\ \A i \in Given(v) : Min(Given(v)) <= i
              /\ Max(Given(v)) \in Given(v) /\ \A i \in Given(v) : Max(Given(v)) >= i
              /\ GivenWord(v) \in Nat \ {0}
<1>1. Len(argv) \in Nat /\ Given(v) \subseteq 1 .. Len(argv)
  BY DEF Given
<1>2. ASSUME Given(v) # {}
      PROVE  /\ Min(Given(v)) \in Given(v) /\ \A i \in Given(v) : Min(Given(v)) <= i
             /\ Max(Given(v)) \in Given(v) /\ \A i \in Given(v) : Max(Given(v)) >= i
  BY <1>1, <1>2, MinAndMax
<1>3. \A i \in 1 .. Len(argv) : argv[i] \in Property /\ argv[i].value \in Nat \ {0}
  <2>1. \A q \in Property : q.value \in Nat \ {0}
    BY DEF Property
  <2> QED BY <1>1, <2>1
<1>4. ASSUME Given(v) # {} PROVE GivenWord(v) \in Nat \ {0}
  BY <1>1, <1>2, <1>3, <1>4 DEF GivenWord
<1> QED BY <1>1, <1>2, <1>4

\* The stages of main, up to the end of the command line and -theme-str.
LEMMA AdvanceKeeps ==
  ASSUME OptionsInv, Advance
  PROVE  OptionsInv'
<1> DEFINE s == Settings
           words == [s EXCEPT !.asked = WantsArguments]
<1>1. /\ SoundSettings(s) /\ s \in OptionStates /\ argv \in Seq(Property) /\ Table \subseteq known
      /\ s.known = known /\ s.asked = asked /\ s.failed = failed /\ failed \in BOOLEAN
      /\ s.value = value /\ value \in [Vars -> Nat] /\ asked \in [Vars -> Nat]
  BY OptionsTypes, SettingsAre DEF OptionsInv, OptionsTypeOK
<1>2. at' = at /\ argv' = argv /\ bound' = bound /\ stage \in DOMAIN Follows
  BY DEF Advance
<1>3. /\ stage' = IF stage = "theme" /\ failed THEN "themestr" ELSE Follows[stage]
      /\ stage' # "done" /\ stage' \in DOMAIN Follows \cup {"options", "bindings"}
  BY <1>2 DEF Advance, Follows
<1>4. /\ stage \in {"start", "defaults", "modes", "keys", "system", "user", "theme", "themestr"}
      /\ at = 1 /\ known = KnownAt(stage) /\ argv \in Args
      /\ stage # "themestr" => Agree(s)
      /\ stage = "themestr" => failed \/ SomeUnfit \/ Agree(s)
  BY <1>2 DEF OptionsInv, Progress, Follows
<1>5. KeysAreBound'
  BY <1>3 DEF KeysAreBound
<1>6. CASE stage = "start"
  <2> DEFINE t == AddOption(s, "pid")
  <2>1. "pid" \in Names \ Table /\ known = Table
    BY <1>4, <1>6, NamesAre DEF KnownAt
  <2>2. SoundSettings(t) /\ t.known = Table \cup {"pid"} /\ t.failed = failed /\ Agree(t)
    BY <1>1, <1>4, <1>6, <2>1, AddAgrees
  <2>3. Sets(t)
    BY <1>6 DEF Advance
  <2> HIDE DEF t
  <2>4. Settings' = t /\ known' = t.known
    BY <2>2, <2>3, SetsIs DEF SoundSettings, Sets
  <2>5. SoundSettings(Settings)' /\ Agree(Settings)' /\ stage' = "defaults" /\ known' = Table \cup {"pid"}
    BY <1>3, <1>6, <2>2, <2>4 DEF SoundSettings, Agree, Owned, Awaits, Follows
  <2> QED BY <1>2, <1>3, <1>4, <1>5, <2>5 DEF OptionsInv, Progress, KnownAt
<1>7. CASE stage = "keys"
  <2> DEFINE t == AddKeys(s)
  <2>1. known = Table \cup {"pid"}
    BY <1>4, <1>7 DEF KnownAt
  <2>2. SoundSettings(t) /\ t.known = Names /\ t.failed = failed /\ Agree(t)
    BY <1>1, <1>4, <1>7, <2>1, AddKeysAgrees
  <2>3. Sets(t)
    BY <1>7 DEF Advance
  <2> HIDE DEF t
  <2>4. Settings' = t /\ known' = t.known
    BY <2>2, <2>3, SetsIs DEF SoundSettings, Sets
  <2>5. SoundSettings(Settings)' /\ Agree(Settings)' /\ stage' = "system" /\ known' = Names
    BY <1>3, <1>7, <2>2, <2>4 DEF SoundSettings, Agree, Owned, Awaits, Follows
  <2> QED BY <1>2, <1>3, <1>4, <1>5, <2>5 DEF OptionsInv, Progress, KnownAt
<1>8. CASE stage = "theme" /\ ~failed
  <2>1. WantsArguments \in [Vars -> Nat]
    <3>1. WantsArguments = [v \in Vars |-> IF Given(v) = {} THEN asked[v] ELSE GivenWord(v)]
      BY DEF WantsArguments, GivenWord
    <3>2. \A v \in Vars : (IF Given(v) = {} THEN asked[v] ELSE GivenWord(v)) \in Nat
      BY <1>1, WordsAreProperties
    <3> QED BY <3>1, <3>2
  <2>2. words \in OptionStates /\ Sets(words)
    <3>1. words \in OptionStates
      BY <1>1, <2>1 DEF OptionStates
    <3> QED BY <1>8, <3>1 DEF Advance
  <2>3. /\ words.known = s.known /\ words.value = s.value /\ words.owner = s.owner /\ words.mem = s.mem
        /\ words.source = s.source /\ words.backup = s.backup /\ words.failed = s.failed
        /\ words.asked = WantsArguments
    BY <1>1 DEF OptionStates
  <2>4. SoundSettings(words)
    BY <1>1, <2>2, <2>3 DEF SoundSettings, Owned
  <2>5. SoundSettings(Settings)'
    <3>1. Settings' = words
      BY <2>2, SetsIs
    <3> HIDE DEF words
    <3> QED BY <2>4, <3>1 DEF SoundSettings, Owned
  <2>6. /\ known' = known /\ value' = value /\ asked' = WantsArguments /\ stage' = "options"
        /\ known = Names
    BY <1>1, <1>3, <1>4, <1>8, <2>2, <2>3 DEF Sets, Follows, KnownAt
  <2>7. ArgumentsAsked'
    <3>1. \A v \in Vars : value[v] = asked[v]
      <4>1. \A v \in Vars : v \in Names /\ Var[v] = v
        BY NamesAre
      <4> QED BY <1>1, <1>4, <1>8, <2>6, <4>1 DEF Agree
    <3>2. ASSUME NEW v \in Vars
          PROVE  IF Given(v)' = {} THEN value'[v] = asked'[v] ELSE asked'[v] = GivenWord(v)'
      <4>1. Given(v)' = Given(v) /\ GivenWord(v)' = GivenWord(v)
        BY <1>2 DEF Given, GivenWord
      <4>2. asked'[v] = IF Given(v) = {} THEN asked[v] ELSE GivenWord(v)
        BY <2>6 DEF WantsArguments, GivenWord
      <4> QED BY <2>6, <3>1, <4>1, <4>2
    <3> QED BY <3>2 DEF ArgumentsAsked
  <2>8. OptionsParsed'
    BY <1>2, <1>4 DEF OptionsParsed
  <2>9. 1 \in 1 .. Len(Options)
    BY OptionsAre
  <2> QED BY <1>2, <1>3, <1>4, <1>5, <2>5, <2>6, <2>7, <2>8, <2>9 DEF OptionsInv, Progress, KnownAt
<1>9. CASE stage \notin {"start", "keys"} /\ ~(stage = "theme" /\ ~failed)
  <2>1. Sets(s)
    BY <1>9 DEF Advance
  <2>2. Settings' = s /\ known' = known /\ failed' = failed
    BY <1>1, <2>1, SetsIs DEF Sets
  <2>3. SoundSettings(Settings)' /\ (Agree(Settings) => Agree(Settings)')
    BY <1>1, <2>2 DEF SoundSettings, Agree, Owned, Awaits
  <2>4. KnownAt(stage) = KnownAt(stage)' /\ stage' # "options" /\ stage' # "arguments"
        /\ (stage' \notin {"themestr", "bindings", "done"} => stage # "themestr")
        /\ SomeUnfit' = SomeUnfit
    BY <1>2, <1>3, <1>4, <1>9 DEF KnownAt, Follows, SomeUnfit
  <2> QED BY <1>2, <1>3, <1>4, <1>5, <2>2, <2>3, <2>4 DEF OptionsInv, Progress
<1> QED BY <1>6, <1>7, <1>8, <1>9

\* The places of a variable on the command line are those of its names, and a
\* name with a second dash has a variable of its own.
LEMMA PlacesAre ==
  ASSUME argv \in Seq(Property), NEW i \in 1 .. Len(argv)
  PROVE  LET n == argv[i].name
         IN  /\ argv[i] \in Property /\ n \in Names /\ Var[n] \in Vars
             /\ \A v \in Vars : i \in Given(v) <=> Var[n] = v
             /\ n \in Dashed <=> Var[n] \in Dashed
<1>1. argv[i] \in Property /\ argv[i].name \in Names
  <2>1. argv[i] \in Property
    OBVIOUS
  <2>2. \A q \in Property : q.name \in Names
    BY DEF Property
  <2> QED BY <2>1, <2>2
<1>2. \A v \in Vars : i \in Given(v) <=> Var[argv[i].name] = v
  BY DEF Given
<1>3. \A n \in Names : Var[n] \in Vars /\ (n \in Dashed <=> Var[n] \in Dashed)
  BY NamesAre
<1> QED BY <1>1, <1>2, <1>3

\* An option of the table, or one that was added, is looked for in the arguments.
LEMMA ParseOptionKeeps ==
  ASSUME OptionsInv, ParseOption
  PROVE  OptionsInv'
<1> DEFINE s == Settings
           n == Options[at]
           t == CmdOption(s, n)
           f == Min(Occurrences(n))
<1>1. /\ SoundSettings(s) /\ s \in OptionStates /\ argv \in Seq(Property) /\ argv \in Args
      /\ s.known = known /\ s.asked = asked /\ s.failed = failed
      /\ s.value = value /\ value \in [Vars -> Nat] /\ asked \in [Vars -> Nat]
  BY OptionsTypes, SettingsAre DEF OptionsInv, OptionsTypeOK, Progress
<1>2. /\ stage = "options" /\ Sets(t) /\ argv' = argv /\ bound' = bound
      /\ \/ at < Len(Options) /\ at' = at + 1 /\ stage' = "options"
         \/ at >= Len(Options) /\ at' = 1 /\ stage' = "arguments"
  <2>1. at \in Nat /\ Len(Options) \in Nat
    BY OptionsTypes, OptionsAre DEF OptionsTypeOK
  <2> QED BY <2>1 DEF ParseOption
<1>3. /\ known = Names /\ at \in 1 .. Len(Options) /\ ArgumentsAsked /\ OptionsParsed
  BY <1>2 DEF OptionsInv, Progress, KnownAt
<1>4. n \in Names /\ Var[n] \in Vars
  BY <1>3, OptionsAre, NamesAre
<1> HIDE DEF n
<1>5. /\ SoundSettings(t) /\ t.known = s.known /\ t.asked = s.asked
      /\ t.failed = s.failed /\ t.backup = s.backup
      /\ Occurrences(n) = {} => t.value = s.value
      /\ Occurrences(n) # {} => /\ f \in Occurrences(n)
                                /\ t.value = [s.value EXCEPT ![Var[n]] = argv[f].value]
  <2>1. SoundSettings(s) /\ argv \in Seq(Property) /\ n \in Names
    BY <1>1, <1>4
  <2> HIDE DEF s
  <2> QED BY <2>1, CmdOptionKeeps
<1> HIDE DEF t
<1>6. /\ Settings' = t /\ known' = known /\ value' = t.value /\ asked' = asked
  BY <1>1, <1>2, <1>5, SetsIs DEF SoundSettings, Sets
<1>7. SoundSettings(Settings)'
  BY <1>5, <1>6 DEF SoundSettings, Owned
<1>8. \A v \in Vars : Given(v)' = Given(v) /\ GivenWord(v)' = GivenWord(v)
  BY <1>2 DEF Given, GivenWord
<1>9. Occurrences(n) \subseteq Given(Var[n]) /\ Occurrences(n) \subseteq 1 .. Len(argv)
  BY DEF Occurrences, Given
<1>10. \A v \in Vars : Given(v) = {} => value'[v] = value[v]
  BY <1>1, <1>4, <1>5, <1>6, <1>9
<1>11. ArgumentsAsked'
  <2>1. ASSUME NEW v \in Vars
        PROVE  IF Given(v)' = {} THEN value'[v] = asked'[v] ELSE asked'[v] = GivenWord(v)'
    BY <1>3, <1>6, <1>8, <1>10 DEF ArgumentsAsked
  <2> QED BY <2>1 DEF ArgumentsAsked
<1>12. ASSUME NEW v \in Dashed, n = v \/ value[v] = asked[v]
       PROVE  value'[v] = asked'[v]
  <2>1. v \in Vars /\ Var[v] = v /\ \A m \in Names : Var[m] = v => m = v
    BY NamesAre
  <2>2. CASE n # v
    <3>1. value'[v] = value[v]
      BY <1>1, <1>4, <1>5, <1>6, <2>1, <2>2
    <3> QED BY <1>6, <1>12, <2>2, <3>1
  <2>3. CASE n = v
    <3>1. Occurrences(v) = Given(v)
      <4>1. \A i \in 1 .. Len(argv) : i \in Given(v) <=> Var[argv[i].name] = v
        BY <1>1, <2>1, PlacesAre
      <4>2. \A i \in 1 .. Len(argv) : argv[i].name \in Names
        BY <1>1, PlacesAre
      <4>3. Given(v) \subseteq 1 .. Len(argv)
        BY DEF Given
      <4>4. Given(v) \subseteq Occurrences(v)
        BY <2>1, <4>1, <4>2, <4>3 DEF Occurrences
      <4> QED BY <1>9, <2>1, <2>3, <4>4
    <3>2. CASE Given(v) = {}
      BY <1>3, <1>6, <1>10, <2>1, <3>2 DEF ArgumentsAsked
    <3>3. CASE Given(v) # {}
      <4>1. value'[v] = argv[Min(Given(v))].value
        BY <1>1, <1>4, <1>5, <1>6, <2>1, <2>3, <3>1, <3>3
      <4>2. asked[v] = argv[Min(Given(v))].value
        BY <1>3, <2>1, <3>3 DEF ArgumentsAsked, GivenWord
      <4> QED BY <1>6, <4>1, <4>2
    <3> QED BY <3>2, <3>3
  <2> QED BY <2>2, <2>3
<1>13. \A v \in Dashed, j \in 1 .. at : Options[j] = v => value'[v] = asked'[v]
  <2>1. ASSUME NEW v \in Dashed, NEW j \in 1 .. at, Options[j] = v PROVE value'[v] = asked'[v]
    <3>1. at \in Nat /\ (j = at \/ j \in 1 .. at - 1)
      BY <1>3, OptionsAre
    <3>2. n = v \/ value[v] = asked[v]
      BY <1>3, <2>1, <3>1 DEF OptionsParsed, n
    <3> QED BY <1>12, <3>2
  <2> QED BY <2>1
<1>14. KeysAreBound'
  BY <1>2 DEF KeysAreBound
<1>15. CASE at' = at + 1 /\ stage' = "options" /\ at < Len(Options)
  <2>1. at' \in 1 .. Len(Options) /\ at' - 1 = at
    BY <1>3, <1>15, OptionsAre
  <2>2. OptionsParsed'
    BY <1>13, <2>1 DEF OptionsParsed
  <2> QED BY <1>1, <1>2, <1>3, <1>6, <1>7, <1>11, <1>14, <1>15, <2>1, <2>2 DEF OptionsInv, Progress, KnownAt
<1>16. CASE at' = 1 /\ stage' = "arguments" /\ at >= Len(Options)
  <2>1. at = 8 /\ \A v \in Dashed : value'[v] = asked'[v]
    <3>1. at = 8
      BY <1>3, <1>16, OptionsAre
    <3> QED BY <1>13, <3>1, OptionsAre
  <2>2. \A v \in Vars : Given(v) # {} => ~(Max(Given(v)) < 1)
    BY <1>1, WordsAreProperties
  <2>3. ArgumentsParsed'
    BY <1>2, <1>16, <2>1, <2>2 DEF ArgumentsParsed, Given
  <2>4. 1 \in 1 .. Len(argv) + 1
    BY <1>1
  <2> QED BY <1>1, <1>2, <1>3, <1>6, <1>7, <1>11, <1>14, <1>16, <2>3, <2>4 DEF OptionsInv, Progress, KnownAt
<1> QED BY <1>2, <1>15, <1>16

\* An argument is read once more as a line of a configuration file.
LEMMA ParseArgumentKeeps ==
  ASSUME OptionsInv, ParseArgument
  PROVE  OptionsInv'
<1>0. PICK again \in BOOLEAN :
        LET s == IF again THEN [Settings EXCEPT !.failed = FALSE] ELSE Settings
        IN  Sets(IF argv[at].name \in Dashed THEN s ELSE SetProperty(s, argv[at]))
  BY DEF ParseArgument
<1> DEFINE s == IF again THEN [Settings EXCEPT !.failed = FALSE] ELSE Settings
           p == argv[at]
           n == p.name
           t == IF n \in Dashed THEN s ELSE SetProperty(s, p)
<1>1. /\ SoundSettings(s) /\ s \in OptionStates /\ argv \in Seq(Property) /\ argv \in Args
      /\ s.known = known /\ s.asked = asked
      /\ s.value = value /\ value \in [Vars -> Nat] /\ asked \in [Vars -> Nat]
  <2>1. SoundSettings(Settings) /\ Settings \in OptionStates /\ OptionsTypeOK
        /\ argv \in Seq(Property) /\ argv \in Args
    BY OptionsTypes DEF OptionsInv, Progress
  <2>2. /\ s \in OptionStates /\ s.known = Settings.known /\ s.asked = Settings.asked
        /\ s.value = Settings.value /\ s.owner = Settings.owner /\ s.mem = Settings.mem
        /\ s.backup = Settings.backup
    BY <2>1 DEF OptionStates
  <2> HIDE DEF s
  <2>3. SoundSettings(s)
    BY <2>1, <2>2 DEF SoundSettings, Owned
  <2> QED BY <2>1, <2>2, <2>3, SettingsAre DEF OptionsTypeOK
<1>2. /\ stage = "arguments" /\ stage' = stage /\ Sets(t) /\ argv' = argv /\ bound' = bound
      /\ at <= Len(argv) /\ at' = at + 1
  BY <1>0 DEF ParseArgument
<1> HIDE DEF s
<1>3. /\ known = Names /\ at \in 1 .. Len(argv) + 1 /\ ArgumentsAsked /\ ArgumentsParsed
  BY <1>2 DEF OptionsInv, Progress, KnownAt
<1>4. at \in 1 .. Len(argv) /\ at' \in 1 .. Len(argv) + 1
  BY <1>1, <1>2, <1>3
<1>5. /\ p \in Property /\ n \in Names /\ Var[n] \in Vars /\ (n \in Dashed <=> Var[n] \in Dashed)
      /\ \A v \in Vars : at \in Given(v) <=> Var[n] = v
  BY <1>1, <1>4, PlacesAre
<1> HIDE DEF p
<1>6. \/ t = s /\ n \in Dashed
      \/ /\ SoundSettings(t) /\ t.known = s.known /\ t.asked = s.asked /\ n \notin Dashed
         /\ \/ t.value = [s.value EXCEPT ![Var[n]] = p.value]
            \/ t.value = s.value /\ ~Fits(n, p.kind)
  <2>1. CASE n \in Dashed
    BY <2>1
  <2>2. CASE n \notin Dashed
    <3> DEFINE u == SetProperty(s, p)
    <3>1. /\ SoundSettings(u) /\ u.known = s.known /\ u.asked = s.asked
          /\ n \in s.known /\ Fits(n, p.kind) =>
               /\ u.value = [s.value EXCEPT ![Var[n]] = p.value]
               /\ u.backup = s.backup /\ u.failed = s.failed
          /\ n \in s.known /\ ~Fits(n, p.kind) =>
               u.value = s.value /\ u.backup = s.backup /\ u.failed
          /\ n \notin s.known =>
               /\ u.value = s.value /\ u.failed = s.failed
               /\ u.backup = [s.backup EXCEPT ![n] = p]
      <4>1. SoundSettings(s) /\ p \in Property
        BY <1>1, <1>5
      <4> HIDE DEF s, t
      <4> QED BY <4>1, SetPropertyKeeps
    <3>2. n \in s.known
      BY <1>1, <1>3, <1>5
    <3>3. t = u
      BY <2>2
    <3> HIDE DEF u, t
    <3> QED BY <2>2, <3>1, <3>2, <3>3
  <2> QED BY <2>1, <2>2
<1> HIDE DEF t
<1>7. /\ SoundSettings(t) /\ Settings' = t /\ known' = known /\ value' = t.value /\ asked' = asked
      /\ SomeUnfit' = SomeUnfit
  BY <1>1, <1>2, <1>6, SetsIs DEF SoundSettings, Sets, SomeUnfit
<1>8. SoundSettings(Settings)'
  BY <1>7 DEF SoundSettings, Owned
<1>9. \A v \in Vars : Given(v)' = Given(v) /\ GivenWord(v)' = GivenWord(v)
  BY <1>2 DEF Given, GivenWord
<1>10. \A v \in Vars : v # Var[n] => value'[v] = value[v]
  BY <1>1, <1>5, <1>6, <1>7
<1>11. ArgumentsAsked'
  <2>1. ASSUME NEW v \in Vars
        PROVE  IF Given(v)' = {} THEN value'[v] = asked'[v] ELSE asked'[v] = GivenWord(v)'
    BY <1>3, <1>5, <1>7, <1>9, <1>10 DEF ArgumentsAsked
  <2> QED BY <2>1 DEF ArgumentsAsked
<1>12. \A v \in Dashed : value'[v] = asked'[v]
  <2>1. ASSUME NEW v \in Dashed PROVE value'[v] = value[v]
    <3>1. v \in Vars
      BY NamesAre
    <3>2. CASE n \in Dashed
      BY <1>1, <1>6, <1>7, <3>2
    <3>3. CASE n \notin Dashed
      BY <1>5, <1>10, <3>1, <3>3
    <3> QED BY <3>2, <3>3
  <2> QED BY <1>3, <1>7, <2>1 DEF ArgumentsParsed
<1>13. ASSUME NEW v \in Vars \ Dashed, Given(v) # {}, Max(Given(v)) < at + 1
       PROVE  SomeUnfit \/ value'[v] = asked'[v]
  <2>1. /\ Given(v) \subseteq 1 .. Len(argv) /\ Max(Given(v)) \in Given(v)
        /\ \A i \in Given(v) : Max(Given(v)) >= i
    BY <1>1, <1>13, WordsAreProperties
  <2>2. Max(Given(v)) \in Nat /\ at \in Nat
    BY <1>1, <1>4, <2>1
  <2>3. CASE Var[n] # v
    <3>1. Max(Given(v)) # at /\ Max(Given(v)) < at
      BY <1>5, <1>13, <2>1, <2>2, <2>3
    <3>2. SomeUnfit \/ value[v] = asked[v]
      BY <1>3, <1>13, <3>1 DEF ArgumentsParsed
    <3>3. value'[v] = value[v]
      BY <1>10, <2>3
    <3> QED BY <1>7, <3>2, <3>3
  <2>4. CASE Var[n] = v
    <3>1. Max(Given(v)) = at
      BY <1>5, <1>13, <2>1, <2>2, <2>4
    <3>2. asked[v] = p.value
      BY <1>3, <1>13, <3>1 DEF ArgumentsAsked, GivenWord, p
    <3>3. n \notin Dashed
      BY <1>5, <2>4
    <3>4. SomeUnfit \/ value'[v] = p.value
      <4>1. ~Fits(n, p.kind) => SomeUnfit
        BY <1>4 DEF SomeUnfit, n, p
      <4> QED BY <1>1, <1>5, <1>6, <1>7, <2>4, <3>3, <4>1
    <3> QED BY <1>7, <3>2, <3>4
  <2> QED BY <2>3, <2>4
<1>14. ArgumentsParsed'
  <2>1. ASSUME NEW v \in Vars \ Dashed, Given(v)' # {}, Max(Given(v)') < at'
        PROVE  SomeUnfit \/ value'[v] = asked'[v]
    BY <1>2, <1>9, <1>13, <2>1
  <2> QED BY <1>7, <1>12, <2>1 DEF ArgumentsParsed
<1>15. KeysAreBound'
  BY <1>2 DEF KeysAreBound
<1> QED BY <1>1, <1>2, <1>3, <1>4, <1>7, <1>8, <1>11, <1>14, <1>15 DEF OptionsInv, Progress, KnownAt

\* After the last argument every variable holds what is asked.
LEMMA ArgumentsEndKeeps ==
  ASSUME OptionsInv, ArgumentsEnd
  PROVE  OptionsInv'
<1> DEFINE s == Settings
<1>1. /\ SoundSettings(s) /\ s \in OptionStates /\ argv \in Seq(Property) /\ argv \in Args
      /\ s.known = known /\ s.asked = asked /\ s.failed = failed /\ failed \in BOOLEAN
      /\ s.value = value
  BY OptionsTypes, SettingsAre DEF OptionsInv, OptionsTypeOK, Progress
<1>2. /\ stage = "arguments" /\ stage' = "themestr" /\ Sets(s) /\ argv' = argv /\ bound' = bound
      /\ at > Len(argv) /\ at' = 1
  BY DEF ArgumentsEnd
<1>3. /\ known = Names /\ at \in 1 .. Len(argv) + 1 /\ ArgumentsAsked /\ ArgumentsParsed
  BY <1>2 DEF OptionsInv, Progress, KnownAt
<1>4. \A v \in Vars : SomeUnfit \/ value[v] = asked[v]
  <2>1. ASSUME NEW v \in Vars, Given(v) # {} PROVE Max(Given(v)) < at
    <3>1. Given(v) \subseteq 1 .. Len(argv) /\ Max(Given(v)) \in Given(v)
      BY <1>1, <2>1, WordsAreProperties
    <3> QED BY <1>1, <1>2, <1>3, <3>1
  <2> QED BY <1>3, <2>1 DEF ArgumentsAsked, ArgumentsParsed
<1>5. SomeUnfit \/ Agree(s)
  <2>1. \A n \in Names : Var[n] \in Vars
    BY NamesAre
  <2> QED BY <1>1, <1>3, <1>4, <2>1 DEF Agree
<1>6. Settings' = s /\ known' = known /\ failed' = failed
  BY <1>1, <1>2, SetsIs DEF Sets
<1>7. SoundSettings(Settings)' /\ (Agree(Settings) => Agree(Settings)')
  BY <1>1, <1>6 DEF SoundSettings, Agree, Owned, Awaits
<1>8. KeysAreBound'
  BY <1>2 DEF KeysAreBound
<1>9. Progress'
  <2>1. SomeUnfit' \/ Agree(Settings)'
    BY <1>2, <1>5, <1>6, <1>7 DEF SomeUnfit
  <2> QED BY <1>1, <1>2, <1>3, <1>6, <2>1 DEF Progress, KnownAt
<1>10. "themestr" \in DOMAIN Follows
  BY DEF Follows
<1> QED BY <1>2, <1>7, <1>8, <1>9, <1>10 DEF OptionsInv

\* The keys are bound: the first action of a key is the only one.
LEMMA ParseKeysKeeps ==
  ASSUME OptionsInv, ParseKeys
  PROVE  OptionsInv'
<1> DEFINE s == Settings
           clash == \E i \in 1 .. Len(Keys) : Earlier(i)
           first == {k \in 1 .. Len(Keys) : ~Earlier(k)}
<1>1. /\ stage = "bindings" /\ stage' = "done" /\ argv' = argv /\ at' = at /\ known' = known
      /\ Settings.value = value /\ failed' = (failed \/ clash)
      /\ value' = value /\ owner' = owner /\ mem' = mem /\ source' = source /\ backup' = backup
      /\ asked' = asked
      /\ bound' = {Binding(i) : i \in first} \cup (IF clash THEN {} ELSE {Click})
  BY SettingsAre DEF ParseKeys
<1>2. /\ known = Names /\ at = 1 /\ argv \in Args /\ (failed \/ SomeUnfit \/ Agree(s)) /\ SoundSettings(s)
      /\ failed \in BOOLEAN
  BY <1>1, OptionsTypes DEF OptionsInv, Progress, KnownAt, OptionsTypeOK
<1>3. \A i \in 1 .. Len(Keys) : Keys[i] \in Dashed /\ value[Keys[i]] > 0 /\ value[Keys[i]] \in Nat
  <2>1. \A i \in 1 .. Len(Keys) : i = 1 \/ i = 2 \/ i = 3
    BY KeysAre
  <2>2. \A i \in 1 .. Len(Keys) : Keys[i] \in Dashed
    BY <2>1, KeysAre
  <2>3. \A n \in Dashed : value[n] > 0 /\ value[n] \in Nat
    BY <1>1, <1>2, NamesAre DEF SoundSettings, OptionStates
  <2> QED BY <2>2, <2>3
<1>4. \A i \in 1 .. Len(Keys) : Click.key # KeyOf(i)
  <2>1. ASSUME NEW i \in 1 .. Len(Keys) PROVE <<"mouse", 0>> # <<ScopeOf[Keys[i]], value[Keys[i]]>>
    BY <1>3
  <2> QED BY <2>1 DEF Click, KeyOf
<1>5. \A i \in 1 .. Len(Keys) : Binding(i).key = KeyOf(i) /\ Binding(i).action = Keys[i]
  BY DEF Binding
<1>6. \A i, j \in first : KeyOf(i) = KeyOf(j) => i = j
  <2>1. \A i \in first, j \in first : i < j => KeyOf(i) # KeyOf(j)
    <3>1. ASSUME NEW i \in first, NEW j \in first, i < j PROVE i \in 1 .. j - 1 /\ ~Earlier(j)
      BY <3>1, KeysAre
    <3> QED BY <3>1 DEF Earlier
  <2>2. \A i \in first, j \in first : i = j \/ i < j \/ j < i
    BY KeysAre
  <2> QED BY <2>1, <2>2
<1>7. \A e \in bound' : \/ \E i \in first : e = Binding(i)
                        \/ ~clash /\ e = Click
  BY <1>1
<1>8. \A d, e \in bound' : d.key = e.key => d = e
  <2> HIDE DEF first, clash
  <2>1. \A i \in first : i \in 1 .. Len(Keys)
    BY DEF first
  <2> QED BY <1>4, <1>5, <1>6, <1>7, <2>1
<1>9. \A e \in bound' : e.action = "click" \/ e.action \in HelpRows'
  <2>1. HelpRows' = Dashed
    <3>1. "modi" \notin Dashed /\ Dashed \subseteq Names
      BY NamesAre DEF Dashed
    <3> QED BY <1>1, <1>2, <3>1 DEF HelpRows, Printed
  <2>2. Click.action = "click"
    BY DEF Click
  <2> QED BY <1>3, <1>5, <1>7, <2>1, <2>2
<1>10. ASSUME ~failed'
       PROVE  /\ \A i \in 1 .. Len(Keys) : \E e \in bound' : e.action = Keys[i]
              /\ \E e \in bound' : e.action = "click"
  <2>1. ~clash
    BY <1>1, <1>10
  <2>2. \A i \in 1 .. Len(Keys) : Binding(i) \in bound'
    BY <1>1, <2>1
  <2>3. Click \in bound' /\ Click.action = "click"
    BY <1>1, <2>1 DEF Click
  <2> QED BY <1>5, <2>2, <2>3
<1>11. KeysAreBound'
  BY <1>8, <1>9, <1>10 DEF KeysAreBound
<1>12. SoundSettings(Settings)' /\ (failed' \/ SomeUnfit' \/ Agree(Settings)')
  <2>1. /\ (Settings').known = known /\ (Settings').value = value /\ (Settings').owner = owner
        /\ (Settings').mem = mem /\ (Settings').source = source /\ (Settings').backup = backup
        /\ (Settings').asked = asked /\ (Settings').failed = failed'
    BY <1>1 DEF Settings
  <2>2. failed' \in BOOLEAN
    BY <1>1
  <2>3. Settings' \in OptionStates
    <3>1. /\ known \subseteq Names /\ mem \subseteq Names
          /\ value \in [Vars -> Nat] /\ asked \in [Vars -> Nat]
          /\ owner \in [Vars -> Names \cup {"static", "argv"}]
          /\ source \in [Names -> {"default", "file", "argument"}]
          /\ backup \in [Names -> Property \cup {NoProperty}]
      BY OptionsTypes DEF OptionsTypeOK
    <3> QED BY <1>1, <2>2, <3>1 DEF Settings, OptionStates
  <2>4. SoundSettings(Settings)'
    BY <1>2, <2>1, <2>3, SettingsAre DEF SoundSettings, Owned
  <2>5. failed' \/ SomeUnfit' \/ Agree(Settings)'
    BY <1>1, <1>2, <2>1, SettingsAre DEF Agree, Awaits, SomeUnfit
  <2> QED BY <2>4, <2>5
<1> QED BY <1>1, <1>2, <1>11, <1>12 DEF OptionsInv, Progress, KnownAt

-----------------------------------------------------------------------------
(* The theorems.                                                           *)

\* rofi starts with the table and its defaults.
LEMMA OptionsStart ==
  ASSUME OptionsInit
  PROVE  OptionsInv
<1>1. /\ stage = "start" /\ at = 1 /\ known = Table /\ argv \in Args
      /\ value = Default /\ asked = Default /\ mem = {} /\ failed = FALSE
      /\ owner = [v \in Vars |-> "static"] /\ source = [n \in Names |-> "default"]
      /\ backup = [n \in Names |-> NoProperty]
  BY DEF OptionsInit
<1>2. Settings \in OptionStates
  BY <1>1, NamesAre, DefaultsAre DEF Settings, OptionStates
<1>3. Owned(Settings)
  <2>1. "static" \notin Names
    BY DEF Names, Type
  <2> QED BY <1>1, <2>1, SettingsAre DEF Owned
<1>4. SoundSettings(Settings)
  BY <1>1, <1>2, <1>3, SettingsAre, DefaultsAre DEF SoundSettings
<1>5. Agree(Settings)
  BY <1>1, SettingsAre DEF Agree, Awaits
<1>6. Progress /\ KeysAreBound
  BY <1>1, <1>5 DEF Progress, KnownAt, KeysAreBound
<1>7. stage \in DOMAIN Follows
  BY <1>1 DEF Follows
<1> QED BY <1>4, <1>6, <1>7 DEF OptionsInv

\* Every step keeps the invariant.
LEMMA OptionsNextKeeps ==
  ASSUME OptionsInv, [OptionsNext]_ovars
  PROVE  OptionsInv'
<1>1. CASE \E p \in Files : ReadProperty(p)
  BY <1>1, ReadPropertyKeeps
<1>2. CASE Advance
  BY <1>2, AdvanceKeeps
<1>3. CASE ParseOption
  BY <1>3, ParseOptionKeeps
<1>4. CASE ParseArgument
  BY <1>4, ParseArgumentKeeps
<1>5. CASE ArgumentsEnd
  BY <1>5, ArgumentsEndKeeps
<1>6. CASE ParseKeys
  BY <1>6, ParseKeysKeeps
<1>7. CASE UNCHANGED ovars
  <2>1. /\ stage' = stage /\ at' = at /\ known' = known /\ value' = value /\ owner' = owner /\ mem' = mem
        /\ source' = source /\ backup' = backup /\ argv' = argv /\ failed' = failed /\ bound' = bound
        /\ asked' = asked
    BY <1>7 DEF ovars
  <2>2. Settings' = Settings
    BY <2>1 DEF Settings
  <2>3. SoundSettings(Settings)' /\ (Agree(Settings) => Agree(Settings)')
    BY <2>2 DEF OptionsInv, SoundSettings, Owned, Agree, Awaits
  <2>4. ArgumentsAsked' = ArgumentsAsked /\ OptionsParsed' = OptionsParsed /\ ArgumentsParsed' = ArgumentsParsed
    BY <2>1 DEF ArgumentsAsked, OptionsParsed, ArgumentsParsed, Given, GivenWord, SomeUnfit
  <2>5. Progress'
    BY <2>1, <2>3, <2>4 DEF OptionsInv, Progress, SomeUnfit
  <2>6. KeysAreBound'
    BY <2>1 DEF OptionsInv, KeysAreBound, HelpRows, Printed
  <2> QED BY <2>1, <2>3, <2>5, <2>6 DEF OptionsInv
<1> QED BY <1>1, <1>2, <1>3, <1>4, <1>5, <1>6, <1>7 DEF OptionsNext

\* What holds of the configuration at every step of the start: its texts are
\* owned, and each variable agrees with what was asked so far.
THEOREM OptionsInvariant == OptionsSpec => []OptionsInv
<1>1. OptionsInit => OptionsInv
  BY OptionsStart
<1>2. OptionsInv /\ [OptionsNext]_ovars => OptionsInv'
  BY OptionsNextKeeps
<1> QED BY <1>1, <1>2, PTL DEF OptionsSpec

\* While rofi starts, no variable points at a text that was freed, the last
\* good value that was asked for counts unless there is an error or an argument
\* of a wrong type, and every key does one thing.
THEOREM SettingsAreSound == OptionsSpec => []OptionsSound
<1>1. ASSUME OptionsInv PROVE OptionsSound
  <2>1. TextsLive
    BY <1>1, SettingsAre DEF OptionsInv, SoundSettings, Owned, TextsLive
  <2>2. LastWordCounts
    BY <1>1, SettingsAre DEF OptionsInv, Progress, Agree, LastWordCounts
  <2> QED BY <1>1, <2>1, <2>2 DEF OptionsInv, OptionsSound
<1> QED BY <1>1, OptionsInvariant, PTL

\* The state of the configuration has its types.
THEOREM OptionsTypesCorrect == OptionsSpec => []OptionsTypeOK
<1>1. OptionsInv => OptionsTypeOK
  BY OptionsTypes
<1> QED BY <1>1, OptionsInvariant, PTL

-----------------------------------------------------------------------------
(* The text box: parts of the text, words, and what is inserted.           *)
Chars == {"letter", "space"}
Edited(e) == e.text \in Seq(Chars) /\ e.cursor \in 0 .. Len(e.text)

\* A part of a text.
LEMMA Part ==
  ASSUME NEW s \in Seq(Chars), NEW p \in Nat, NEW q \in Nat, p <= q, q <= Len(s)
  PROVE  /\ Keep(s, p, q) \in Seq(Chars) /\ Len(Keep(s, p, q)) = q - p
         /\ \A i \in 1 .. q - p : Keep(s, p, q)[i] = s[p + i]
<1>0. Len(s) \in Nat /\ \A i \in p + 1 .. q : s[i] \in Chars
  OBVIOUS
<1>1. /\ SubSeq(s, p + 1, q) \in Seq(Chars)
      /\ Len(SubSeq(s, p + 1, q)) = IF p + 1 <= q THEN q - (p + 1) + 1 ELSE 0
      /\ \A i \in 1 .. q - (p + 1) + 1 : SubSeq(s, p + 1, q)[i] = s[(p + 1) + i - 1]
  <2> DEFINE m == p + 1
  <2>1. m \in Int /\ q \in Int /\ \A i \in m .. q : s[i] \in Chars
    BY <1>0
  <2> HIDE DEF m
  <2>2. /\ SubSeq(s, m, q) \in Seq(Chars)
        /\ Len(SubSeq(s, m, q)) = IF m <= q THEN q - m + 1 ELSE 0
        /\ \A i \in 1 .. q - m + 1 : SubSeq(s, m, q)[i] = s[m + i - 1]
    BY <2>1, SubSeqProperties, SMTT(30)
  <2> QED BY <2>2 DEF m
<1>2. ASSUME NEW i \in 1 .. q - p PROVE SubSeq(s, p + 1, q)[i] = s[p + i]
  <2>1. i \in 1 .. q - (p + 1) + 1 /\ (p + 1) + i - 1 = p + i
    OBVIOUS
  <2> QED BY <1>1, <2>1
<1> QED BY <1>1, <1>2 DEF Keep

\* What is before an offset, and what is behind it.
LEMMA Before ==
  ASSUME NEW s \in Seq(Chars), NEW q \in Nat, q <= Len(s)
  PROVE  /\ Keep(s, 0, q) \in Seq(Chars) /\ Len(Keep(s, 0, q)) = q
         /\ \A i \in 1 .. q : Keep(s, 0, q)[i] = s[i]
<1> DEFINE k == Keep(s, 0, q)
<1>1. k = SubSeq(s, 1, q)
  <2>1. 0 + 1 = 1
    OBVIOUS
  <2> QED BY <2>1 DEF Keep
<1>2. Len(s) \in Nat /\ \A i \in 1 .. q : s[i] \in Chars
  OBVIOUS
<1>3. /\ k \in Seq(Chars) /\ Len(k) = IF 1 <= q THEN q - 1 + 1 ELSE 0
      /\ \A i \in 1 .. q - 1 + 1 : k[i] = s[1 + i - 1]
  <2> DEFINE m == 1
  <2>1. m \in Int /\ q \in Int /\ \A i \in m .. q : s[i] \in Chars
    BY <1>2
  <2> HIDE DEF m
  <2>2. /\ SubSeq(s, m, q) \in Seq(Chars)
        /\ Len(SubSeq(s, m, q)) = IF m <= q THEN q - m + 1 ELSE 0
        /\ \A i \in 1 .. q - m + 1 : SubSeq(s, m, q)[i] = s[m + i - 1]
    BY <2>1, SubSeqProperties, SMTT(30)
  <2> HIDE DEF k
  <2> QED BY <1>1, <2>2 DEF m
<1> HIDE DEF k
<1>4. Len(k) = q
  BY <1>3
<1>5. ASSUME NEW i \in 1 .. q PROVE k[i] = s[i]
  <2>1. i \in 1 .. q - 1 + 1 /\ 1 + i - 1 = i
    OBVIOUS
  <2> QED BY <1>3, <2>1
<1> QED BY <1>3, <1>4, <1>5 DEF k

LEMMA Behind ==
  ASSUME NEW s \in Seq(Chars), NEW p \in Nat, p <= Len(s)
  PROVE  /\ Rest(s, p) \in Seq(Chars) /\ Len(Rest(s, p)) = Len(s) - p
         /\ \A i \in 1 .. Len(s) - p : Rest(s, p)[i] = s[p + i]
<1>1. Len(s) \in Nat /\ Len(s) <= Len(s)
  OBVIOUS
<1> QED BY <1>1, Part, Zenon DEF Rest

\* Two parts joined: the first is what is kept before the place where they
\* meet, the second what is kept behind it.
LEMMA Joined ==
  ASSUME NEW a \in Seq(Chars), NEW b \in Seq(Chars)
  PROVE  /\ a \o b \in Seq(Chars) /\ Len(a \o b) = Len(a) + Len(b)
         /\ Keep(a \o b, 0, Len(a)) = a /\ Rest(a \o b, Len(a)) = b
<1> DEFINE t == a \o b
<1>0. Len(a) \in Nat /\ Len(b) \in Nat
  OBVIOUS
<1>1. /\ t \in Seq(Chars) /\ Len(t) = Len(a) + Len(b)
      /\ \A i \in 1 .. Len(a) + Len(b) : t[i] = IF i <= Len(a) THEN a[i] ELSE b[i - Len(a)]
  BY ConcatProperties
<1> HIDE DEF t
<1>2. /\ Keep(t, 0, Len(a)) \in Seq(Chars) /\ Len(Keep(t, 0, Len(a))) = Len(a)
      /\ \A i \in 1 .. Len(a) : Keep(t, 0, Len(a))[i] = t[i]
  <2>1. Len(a) <= Len(t)
    BY <1>0, <1>1
  <2> QED BY <1>0, <1>1, <2>1, Before
<1>3. /\ Rest(t, Len(a)) \in Seq(Chars) /\ Len(Rest(t, Len(a))) = Len(b)
      /\ \A i \in 1 .. Len(b) : Rest(t, Len(a))[i] = t[Len(a) + i]
  <2>1. Len(a) <= Len(t) /\ Len(t) - Len(a) = Len(b)
    BY <1>0, <1>1
  <2>2. /\ Rest(t, Len(a)) \in Seq(Chars) /\ Len(Rest(t, Len(a))) = Len(t) - Len(a)
        /\ \A i \in 1 .. Len(t) - Len(a) : Rest(t, Len(a))[i] = t[Len(a) + i]
    BY <1>0, <1>1, <2>1, Behind, Zenon
  <2> QED BY <2>1, <2>2
<1>4. Keep(t, 0, Len(a)) = a
  <2>1. \A i \in 1 .. Len(a) : Keep(t, 0, Len(a))[i] = a[i]
    BY <1>0, <1>1, <1>2
  <2> QED BY <1>2, <2>1, SeqEqual
<1>5. Rest(t, Len(a)) = b
  <2>1. ASSUME NEW i \in 1 .. Len(b) PROVE Rest(t, Len(a))[i] = b[i]
    <3>1. Len(a) + i \in 1 .. Len(a) + Len(b) /\ ~(Len(a) + i <= Len(a)) /\ (Len(a) + i) - Len(a) = i
      BY <1>0
    <3> QED BY <1>1, <1>3, <3>1
  <2> QED BY <1>3, <2>1, SeqEqual
<1> QED BY <1>1, <1>4, <1>5 DEF t

\* A text with some characters cut out: what is before and behind them stays.
LEMMA Cut ==
  ASSUME NEW s \in Seq(Chars), NEW p \in Nat, NEW q \in Nat, p <= q, q <= Len(s)
  PROVE  LET t == Keep(s, 0, p) \o Keep(s, q, Len(s))
         IN  /\ t \in Seq(Chars) /\ Len(t) = Len(s) - (q - p)
             /\ Keep(t, 0, p) = Keep(s, 0, p) /\ Rest(t, p) = Rest(s, q)
<1>0. Len(s) \in Nat
  OBVIOUS
<1> DEFINE a == Keep(s, 0, p)
           b == Rest(s, q)
           t == Keep(s, 0, p) \o Keep(s, q, Len(s))
<1>1. a \in Seq(Chars) /\ Len(a) = p
  <2>1. p <= Len(s)
    BY <1>0
  <2> QED BY <2>1, Before
<1>2. b \in Seq(Chars) /\ Len(b) = Len(s) - q
  BY Behind
<1>3. t = a \o b
  BY DEF Rest
<1> HIDE DEF a, b, t
<1>4. /\ t \in Seq(Chars) /\ Len(t) = Len(a) + Len(b)
      /\ Keep(t, 0, Len(a)) = a /\ Rest(t, Len(a)) = b
  BY <1>1, <1>2, <1>3, Joined, Zenon
<1>5. Len(t) = Len(s) - (q - p)
  BY <1>0, <1>1, <1>2, <1>4
<1> QED BY <1>1, <1>4, <1>5 DEF a, b, t

\* A character put in at the cursor.
LEMMA InsertKeeps ==
  ASSUME NEW e, Edited(e), NEW char \in Chars
  PROVE  LET d == Insert(e, char)
         IN  /\ Edited(d) /\ Len(d.text) = Len(e.text) + 1 /\ d.cursor = e.cursor + 1
             /\ \A p \in 0 .. e.cursor : Keep(d.text, 0, p) = Keep(e.text, 0, p)
             /\ Rest(d.text, d.cursor) = Rest(e.text, e.cursor)
<1> DEFINE s == e.text
           c == e.cursor
           a == Keep(s, 0, c)
           b == Rest(s, c)
           one == <<char>>
           t == (a \o one) \o b
<1>0. s \in Seq(Chars) /\ Len(s) \in Nat /\ c \in Nat /\ c <= Len(s)
  BY DEF Edited
<1>1. Insert(e, char).text = t /\ Insert(e, char).cursor = c + 1
  BY DEF Insert, Rest
<1> HIDE DEF s, c
<1>2. a \in Seq(Chars) /\ Len(a) = c /\ \A i \in 1 .. c : a[i] = s[i]
  BY <1>0, Before
<1>3. b \in Seq(Chars) /\ Len(b) = Len(s) - c /\ b = Rest(s, c)
  BY <1>0, Behind
<1> HIDE DEF a, b
<1>4. one \in Seq(Chars) /\ Len(one) = 1
  OBVIOUS
<1> HIDE DEF one
<1>5. a \o one \in Seq(Chars) /\ Len(a \o one) = c + 1 /\ \A i \in 1 .. c : (a \o one)[i] = a[i]
  <2>1. /\ a \o one \in Seq(Chars) /\ Len(a \o one) = Len(a) + Len(one)
        /\ \A i \in 1 .. Len(a) + Len(one) : (a \o one)[i] = IF i <= Len(a) THEN a[i] ELSE one[i - Len(a)]
    BY <1>2, <1>4, ConcatProperties, Zenon
  <2> DEFINE u == a \o one
  <2>2. /\ u \in Seq(Chars) /\ Len(u) = c + 1
        /\ \A i \in 1 .. c + 1 : u[i] = IF i <= c THEN a[i] ELSE one[i - c]
    BY <1>2, <1>4, <2>1
  <2> HIDE DEF u
  <2>3. \A i \in 1 .. c : u[i] = a[i]
    BY <1>0, <2>2
  <2> QED BY <2>2, <2>3 DEF u
<1>6. t \in Seq(Chars) /\ Len(t) = Len(s) + 1 /\ Rest(t, c + 1) = b
  <2>1. /\ t \in Seq(Chars) /\ Len(t) = Len(a \o one) + Len(b)
        /\ Rest(t, Len(a \o one)) = b
    BY <1>3, <1>5, Joined, Zenon
  <2>2. Len(t) = Len(s) + 1
    <3>1. Len(t) = (c + 1) + (Len(s) - c)
      BY <1>3, <1>5, <2>1
    <3> QED BY <1>0, <3>1
  <2> QED BY <1>5, <2>1, <2>2
<1>7. \A i \in 1 .. c : t[i] = s[i]
  <2>1. \A i \in 1 .. Len(a \o one) + Len(b) : t[i] = IF i <= Len(a \o one) THEN (a \o one)[i] ELSE b[i - Len(a \o one)]
    BY <1>3, <1>5, ConcatProperties
  <2>2. TAKE i \in 1 .. c
  <2>3. i \in 1 .. Len(a \o one) + Len(b) /\ i <= Len(a \o one)
    BY <1>0, <1>3, <1>5
  <2>4. t[i] = (a \o one)[i]
    BY <2>1, <2>3
  <2> QED BY <1>2, <1>5, <2>4
<1> HIDE DEF t
<1>8. ASSUME NEW p \in 0 .. c PROVE Keep(t, 0, p) = Keep(s, 0, p)
  <2>1. p \in Nat /\ p <= Len(s) /\ p <= Len(t)
    BY <1>0, <1>6
  <2>2. /\ Keep(t, 0, p) \in Seq(Chars) /\ Len(Keep(t, 0, p)) = p
        /\ \A i \in 1 .. p : Keep(t, 0, p)[i] = t[i]
    BY <1>6, <2>1, Before
  <2>3. /\ Keep(s, 0, p) \in Seq(Chars) /\ Len(Keep(s, 0, p)) = p
        /\ \A i \in 1 .. p : Keep(s, 0, p)[i] = s[i]
    BY <1>0, <2>1, Before
  <2>4. \A i \in 1 .. p : Keep(t, 0, p)[i] = Keep(s, 0, p)[i]
    BY <1>0, <1>7, <2>2, <2>3
  <2> QED BY <2>2, <2>3, <2>4, SeqEqual
<1>9. c + 1 \in 0 .. Len(t)
  BY <1>0, <1>6
<1> QED BY <1>1, <1>3, <1>6, <1>8, <1>9 DEF Edited, s, c

\* The start of the word before an offset: the last start of a word before it.
LEMMA WordBack ==
  ASSUME NEW s \in Seq(Chars), NEW c \in 0 .. Len(s)
  PROVE  LET Starts == {i \in 0 .. Len(s) - 1 : Letter(s, i) /\ (i = 0 \/ ~Letter(s, i - 1))}
         IN  /\ DecWord(s, c) \in 0 .. c
             /\ DecWord(s, c) = Max({0} \union {i \in Starts : i < c})
<1> DEFINE Starts == {i \in 0 .. Len(s) - 1 : Letter(s, i) /\ (i = 0 \/ ~Letter(s, i - 1))}
           Befores == {0} \union {i \in Starts : i < c}
           Letters == {0} \union {i \in 0 .. c - 1 : Letter(s, i)}
           last == Max(Letters)
           Run == {j \in 0 .. last : \A i \in j .. last : Letter(s, i)}
           first == Min(Run)
<1>0. Len(s) \in Nat /\ c \in Nat /\ c <= Len(s)
  OBVIOUS
<1>1. Befores \subseteq 0 .. c /\ Befores # {} /\ Letters \subseteq 0 .. c /\ Letters # {}
  BY <1>0
<1>2. Max(Befores) \in Befores /\ \A x \in Befores : Max(Befores) >= x
  <2> HIDE DEF Befores
  <2> QED BY <1>0, <1>1, LeastAndMost
<1>3. last \in Letters /\ \A x \in Letters : last >= x
  <2> HIDE DEF Letters
  <2> QED BY <1>0, <1>1, LeastAndMost
<1>4. DecWord(s, c) = IF last = 0 THEN 0 ELSE first
  BY DEF DecWord
<1>5. last \in 0 .. c
  BY <1>1, <1>3
<1> HIDE DEF last
<1>6. CASE last = 0
  <2>1. ASSUME NEW i \in Starts, i < c PROVE i = 0
    <3>1. i \in Letters
      BY <1>0, <2>1
    <3>2. last >= i /\ i \in Nat
      BY <1>3, <2>1, <3>1
    <3> QED BY <1>6, <3>2
  <2>2. Befores = {0}
    BY <2>1
  <2>3. Max(Befores) = 0
    BY <1>2, <2>2
  <2> QED BY <1>0, <1>4, <1>6, <2>3
<1>7. CASE last # 0
  <2>1. last \in 0 .. c - 1 /\ Letter(s, last) /\ last \in Nat
    BY <1>3, <1>7
  <2>2. last \in Run /\ Run \subseteq 0 .. last
    <3>1. \A i \in last .. last : i = last
      BY <2>1
    <3> QED BY <2>1, <3>1
  <2>3. first \in Run /\ \A x \in Run : first <= x
    <3> HIDE DEF Run
    <3> QED BY <2>1, <2>2, LeastAndMost
  <2>4. first \in 0 .. last /\ \A i \in first .. last : Letter(s, i)
    BY <2>3
  <2> HIDE DEF first
  <2>5. first = 0 \/ ~Letter(s, first - 1)
    <3> SUFFICES ASSUME first # 0, Letter(s, first - 1) PROVE FALSE
      OBVIOUS
    <3>1. first - 1 \in 0 .. last
      BY <2>1, <2>4
    <3>2. ASSUME NEW i \in (first - 1) .. last PROVE Letter(s, i)
      <4>1. i = first - 1 \/ i \in first .. last
        BY <2>1, <2>4
      <4> QED BY <2>4, <4>1
    <3>3. first - 1 \in Run
      BY <3>1, <3>2
    <3>4. first <= first - 1
      BY <2>3, <3>3
    <3> QED BY <2>1, <2>4, <3>4
  <2>6. first \in Starts /\ first < c
    <3>1. first \in 0 .. Len(s) - 1 /\ first < c /\ first \in first .. last
      BY <1>0, <2>1, <2>4
    <3> QED BY <2>4, <2>5, <3>1
  <2>7. ASSUME NEW i \in Starts, i < c PROVE i <= first
    <3>1. i \in Nat /\ Letter(s, i) /\ (i = 0 \/ ~Letter(s, i - 1))
      OBVIOUS
    <3>2. i \in Letters
      BY <1>0, <2>7, <3>1
    <3>3. last >= i
      BY <1>3, <3>2
    <3>4. CASE i > first
      <4>1. i - 1 \in first .. last /\ i # 0
        BY <2>1, <2>4, <3>1, <3>3, <3>4
      <4> QED BY <2>4, <3>1, <4>1
    <3>5. CASE ~(i > first)
      BY <2>1, <2>4, <3>1, <3>5
    <3> QED BY <3>4, <3>5
  <2>8. first \in Befores /\ \A x \in Befores : x <= first
    <3>1. first \in Befores
      BY <2>6
    <3>2. 0 <= first
      BY <2>1, <2>4
    <3>3. ASSUME NEW x \in Befores PROVE x <= first
      <4>1. x = 0 \/ (x \in Starts /\ x < c)
        OBVIOUS
      <4> QED BY <2>7, <3>2, <4>1
    <3> QED BY <3>1, <3>3
  <2>9. Max(Befores) = first
    <3>1. Max(Befores) <= first /\ Max(Befores) >= first
      BY <1>2, <2>8
    <3>2. Max(Befores) \in Nat /\ first \in Nat
      BY <1>1, <1>2, <2>1, <2>4
    <3> HIDE DEF Befores
    <3> QED BY <3>1, <3>2
  <2>10. first \in 0 .. c
    BY <1>0, <2>1, <2>4
  <2> QED BY <1>4, <1>7, <2>9, <2>10
<1> QED BY <1>6, <1>7

\* The end of the word behind an offset, or of the text.
LEMMA WordOn ==
  ASSUME NEW s \in Seq(Chars), NEW c \in 0 .. Len(s)
  PROVE  LET Ends == {i \in 1 .. Len(s) : Letter(s, i - 1) /\ (i = Len(s) \/ ~Letter(s, i))}
         IN  IncWord(s, c) \in Ends \union {Len(s)} /\ IncWord(s, c) \in c .. Len(s)
<1> DEFINE Ends == {i \in 1 .. Len(s) : Letter(s, i - 1) /\ (i = Len(s) \/ ~Letter(s, i))}
           ahead == {i \in c + 1 .. Len(s) - 1 : Letter(s, i)}
           m == Min(ahead)
           ends == {i \in m + 1 .. Len(s) : i = Len(s) \/ ~Letter(s, i)}
           on == Min(ends)
<1>0. Len(s) \in Nat /\ c \in Nat /\ c <= Len(s)
  OBVIOUS
<1>1. IncWord(s, c) = IF ahead = {} THEN Len(s) ELSE on
  BY DEF IncWord
<1>2. CASE ahead = {}
  BY <1>0, <1>1, <1>2
<1>3. CASE ahead # {}
  <2>1. ahead \subseteq 0 .. Len(s)
    BY <1>0
  <2>2. m \in ahead
    <3> HIDE DEF ahead
    <3> QED BY <1>0, <1>3, <2>1, LeastAndMost
  <2>3. m \in Nat /\ m > c /\ m < Len(s) /\ Letter(s, m)
    BY <1>0, <2>2
  <2> HIDE DEF m
  <2>4. Len(s) \in ends /\ ends \subseteq 0 .. Len(s)
    BY <1>0, <2>3
  <2>5. on \in ends /\ \A x \in ends : on <= x
    <3> HIDE DEF ends
    <3> QED BY <1>0, <2>4, LeastAndMost
  <2>6. on \in m + 1 .. Len(s) /\ (on = Len(s) \/ ~Letter(s, on))
    BY <2>5
  <2> HIDE DEF on
  <2>7. Letter(s, on - 1)
    <3>1. CASE on = m + 1
      <4>1. on - 1 = m
        BY <2>3, <3>1
      <4> QED BY <2>3, <4>1
    <3>2. CASE on # m + 1
      <4>1. on - 1 \in m + 1 .. Len(s) /\ ~(on <= on - 1)
        BY <1>0, <2>3, <2>6, <3>2
      <4>2. on - 1 \notin ends
        BY <2>5, <4>1
      <4> QED BY <4>1, <4>2
    <3> QED BY <3>1, <3>2
  <2>8. on \in 1 .. Len(s) /\ on \in c .. Len(s)
    BY <1>0, <2>3, <2>6
  <2>9. on \in Ends
    BY <2>6, <2>7, <2>8
  <2> QED BY <1>1, <1>3, <2>8, <2>9
<1> QED BY <1>2, <1>3

-----------------------------------------------------------------------------
(* Text that is typed.                                                     *)

\* after[i] is what the first i characters of pad make of e.
Inserts(after, e, pad, n) ==
  after = [i \in 0 .. n |->
             IF i = 0 THEN e
             ELSE IF pad[i] = "control" THEN after[i - 1] ELSE Insert(after[i - 1], pad[i])]

\* The recursive function of Appended exists.
LEMMA InsertsExist ==
  ASSUME NEW e, NEW pad, NEW n \in Nat
  PROVE  \E after : Inserts(after, e, pad, n)
<1> DEFINE G == {k \in Nat : \E after : Inserts(after, e, pad, k)}
<1>1. 0 \in G
  <2> DEFINE f == [i \in 0 .. 0 |-> e]
  <2>1. f = [i \in 0 .. 0 |->
               IF i = 0 THEN e
               ELSE IF pad[i] = "control" THEN f[i - 1] ELSE Insert(f[i - 1], pad[i])]
    OBVIOUS
  <2>2. Inserts(f, e, pad, 0)
    BY <2>1 DEF Inserts
  <2> QED BY <2>2
<1>2. ASSUME NEW k \in Nat, k \in G PROVE k + 1 \in G
  <2>1. PICK f : Inserts(f, e, pad, k)
    BY <1>2
  <2> DEFINE last == IF pad[k + 1] = "control" THEN f[k] ELSE Insert(f[k], pad[k + 1])
             g == [i \in 0 .. k + 1 |-> IF i <= k THEN f[i] ELSE last]
             Rhs(i) == IF i = 0 THEN e
                       ELSE IF pad[i] = "control" THEN g[i - 1] ELSE Insert(g[i - 1], pad[i])
  <2>2. ASSUME NEW i \in 0 .. k + 1 PROVE g[i] = Rhs(i)
    <3>1. CASE i <= k
      <4>1. i \in 0 .. k /\ (i # 0 => i - 1 \in 0 .. k)
        BY <3>1
      <4>2. f[i] = IF i = 0 THEN e
                   ELSE IF pad[i] = "control" THEN f[i - 1] ELSE Insert(f[i - 1], pad[i])
        BY <2>1, <4>1 DEF Inserts
      <4>3. g[i] = f[i] /\ (i # 0 => g[i - 1] = f[i - 1])
        BY <4>1
      <4> HIDE DEF g
      <4> QED BY <4>2, <4>3
    <3>2. CASE i = k + 1
      <4>1. g[i] = last /\ g[i - 1] = f[k] /\ i # 0
        BY <3>2
      <4> HIDE DEF g
      <4> QED BY <3>2, <4>1
    <3> QED BY <3>1, <3>2
  <2>3. g = [i \in 0 .. k + 1 |-> Rhs(i)]
    <3>1. g = [i \in 0 .. k + 1 |-> g[i]]
      OBVIOUS
    <3> HIDE DEF g
    <3> QED BY <2>2, <3>1
  <2>4. Inserts(g, e, pad, k + 1)
    BY <2>3 DEF Inserts
  <2> QED BY <2>4
<1>3. Nat \subseteq G
  <2> HIDE DEF G
  <2> QED BY <1>1, <1>2, Induction
<1> QED BY <1>3

\* One more character.
LEMMA OneMore ==
  ASSUME NEW x \in Nat, NEW y \in Nat, NEW i \in Nat, x <= y + i
  PROVE  x <= y + (i + 1) /\ x + 1 <= y + (i + 1)
OBVIOUS

\* Typed text goes in at the cursor: what is before the cursor stays, the
\* cursor ends up before what was behind it.
LEMMA AppendKeeps ==
  ASSUME NEW e, Edited(e), NEW pad \in Seq({"letter", "space", "control"})
  PROVE  LET d == Appended(e, pad)
         IN  /\ Edited(d) /\ Len(d.text) <= Len(e.text) + Len(pad)
             /\ Keep(d.text, 0, e.cursor) = Keep(e.text, 0, e.cursor)
             /\ Rest(d.text, d.cursor) = Rest(e.text, e.cursor)
<1> DEFINE f == CHOOSE g : Inserts(g, e, pad, Len(pad))
           Good(d, i) == /\ Edited(d) /\ Len(d.text) <= Len(e.text) + i /\ d.cursor >= e.cursor
                         /\ Keep(d.text, 0, e.cursor) = Keep(e.text, 0, e.cursor)
                         /\ Rest(d.text, d.cursor) = Rest(e.text, e.cursor)
           G == {i \in Nat : i <= Len(pad) => Good(f[i], i)}
<1>0. /\ Len(pad) \in Nat /\ \A i \in 1 .. Len(pad) : pad[i] \in {"letter", "space", "control"}
      /\ Len(e.text) \in Nat /\ e.cursor \in Nat /\ e.cursor <= Len(e.text)
  BY DEF Edited
<1>1. Inserts(f, e, pad, Len(pad))
  BY <1>0, InsertsExist
<1>2. Appended(e, pad) = f[Len(pad)]
  BY DEF Appended, Inserts
<1> HIDE DEF f
<1>3. f[0] = e
  BY <1>0, <1>1 DEF Inserts
<1>4. ASSUME NEW i \in 0 .. Len(pad) - 1
      PROVE  f[i + 1] = IF pad[i + 1] = "control" THEN f[i] ELSE Insert(f[i], pad[i + 1])
  <2>1. i + 1 \in 0 .. Len(pad) /\ i + 1 # 0 /\ (i + 1) - 1 = i
    BY <1>0
  <2>2. \A k \in 0 .. Len(pad) :
          f[k] = IF k = 0 THEN e
                 ELSE IF pad[k] = "control" THEN f[k - 1] ELSE Insert(f[k - 1], pad[k])
    BY <1>1 DEF Inserts
  <2> QED BY <2>1, <2>2
<1>5. 0 \in G
  BY <1>0, <1>3
<1>6. ASSUME NEW i \in Nat, i \in G PROVE i + 1 \in G
  <2> SUFFICES ASSUME i + 1 <= Len(pad) PROVE Good(f[i + 1], i + 1)
    OBVIOUS
  <2>1. i \in 0 .. Len(pad) - 1 /\ i <= Len(pad) /\ i + 1 \in 1 .. Len(pad)
    BY <1>0
  <2>2. Good(f[i], i)
    BY <1>6, <2>1
  <2> DEFINE a == f[i]
             b == f[i + 1]
  <2>3. b = IF pad[i + 1] = "control" THEN a ELSE Insert(a, pad[i + 1])
    BY <1>4, <2>1
  <2>4. Good(a, i)
    BY <2>2
  <2>5. Len(a.text) \in Nat /\ a.cursor \in Nat
    BY <2>4 DEF Edited
  <2> HIDE DEF a, b
  <2>6. CASE pad[i + 1] = "control"
    <3>1. Len(a.text) <= Len(e.text) + (i + 1)
      <4>1. Len(a.text) <= Len(e.text) + i
        BY <2>4
      <4>2. Len(a.text) \in Nat /\ Len(e.text) \in Nat
        BY <1>0, <2>5
      <4> QED BY <4>1, <4>2, OneMore, Zenon
    <3>2. Good(a, i + 1)
      BY <2>4, <3>1
    <3> QED BY <2>3, <2>6, <3>2 DEF b
  <2>7. CASE pad[i + 1] # "control"
    <3>1. pad[i + 1] \in Chars
      BY <1>0, <2>1, <2>7 DEF Chars
    <3>2. /\ Edited(b) /\ Len(b.text) = Len(a.text) + 1 /\ b.cursor = a.cursor + 1
          /\ \A p \in 0 .. a.cursor : Keep(b.text, 0, p) = Keep(a.text, 0, p)
          /\ Rest(b.text, b.cursor) = Rest(a.text, a.cursor)
      BY <2>3, <2>4, <2>7, <3>1, InsertKeeps
    <3>3. e.cursor \in 0 .. a.cursor
      BY <1>0, <2>4, <2>5
    <3>4. Keep(b.text, 0, e.cursor) = Keep(e.text, 0, e.cursor)
      BY <2>4, <3>2, <3>3
    <3>5. Len(b.text) <= Len(e.text) + (i + 1) /\ b.cursor >= e.cursor
      <4>1. Len(a.text) <= Len(e.text) + i /\ a.cursor >= e.cursor
        BY <2>4
      <4>2. Len(a.text) \in Nat /\ Len(e.text) \in Nat
        BY <1>0, <2>5
      <4>3. Len(a.text) + 1 <= Len(e.text) + (i + 1)
        BY <4>1, <4>2, OneMore, Zenon
      <4>4. b.cursor >= e.cursor
        <5>1. a.cursor \in Nat /\ e.cursor \in Nat /\ b.cursor = a.cursor + 1
          BY <1>0, <2>5, <3>2
        <5> QED BY <4>1, <5>1
      <4>5. Len(b.text) = Len(a.text) + 1
        BY <3>2
      <4> QED BY <4>3, <4>4, <4>5
    <3>6. Good(b, i + 1)
      BY <2>4, <3>2, <3>4, <3>5
    <3> QED BY <3>6 DEF b
  <2> QED BY <2>6, <2>7
<1>7. Nat \subseteq G
  <2> HIDE DEF G
  <2> QED BY <1>5, <1>6, Induction
<1>8. Good(f[Len(pad)], Len(pad))
  BY <1>0, <1>7
<1> QED BY <1>2, <1>8

-----------------------------------------------------------------------------
(* The steps of the text box.                                              *)
TextInv == TextTypeOK /\ CursorInText

\* What the state is made of.
LEMMA TextFacts ==
  ASSUME TextInv
  PROVE  /\ text \in Seq(Chars) /\ Len(text) \in Nat /\ Len(text) <= MaxLen /\ MaxLen \in Nat
         /\ cursor \in Nat /\ cursor <= Len(text) /\ cursor \in 0 .. Len(text)
         /\ layout.len \in Nat
BY TextEditAssumption DEF TextInv, TextTypeOK, CursorInText, TextEditAssumption, Chars

\* What is laid out of a text.
LEMMA VisibleType ==
  ASSUME NEW s \in Seq(Chars)
  PROVE  Visible(s) \in [kind : {"placeholder", "mask", "text"}, len : Nat]
<1>1. Len(s) \in Nat
  OBVIOUS
<1> QED BY <1>1 DEF Visible

LEMMA ClampIn ==
  ASSUME NEW s \in Seq(Chars), NEW c \in Int
  PROVE  Clamp(s, c) \in 0 .. Len(s) /\ (c \in 0 .. Len(s) => Clamp(s, c) = c)
<1>1. Len(s) \in Nat
  OBVIOUS
<1> QED BY <1>1 DEF Clamp

\* A new text and cursor: the layout is marked, or of that text.
LEMMA StateKeeps ==
  ASSUME TextInv, text' \in Seq(Chars), Len(text') <= MaxLen, cursor' \in 0 .. Len(text'),
         blink' \in 0 .. 3, answer' \in 0 .. 2, changed' \in BOOLEAN, flags' = flags,
         \/ changed' /\ layout' = layout
         \/ layout' = Visible(text')
         \/ text' = text /\ layout' = layout /\ changed' = changed
  PROVE  TextInv'
<1>1. \A s : Visible(s)' = Visible(s)'
  OBVIOUS
<1>2. Visible(text)' = Visible(text')
  BY DEF Visible
<1>3. changed' \/ layout' = Visible(text')
  BY <1>2 DEF TextInv, CursorInText, Visible
<1>4. layout' \in [kind : {"placeholder", "mask", "text"}, len : Nat]
  BY VisibleType DEF TextInv, TextTypeOK
<1>5. cursor' \in Nat
  OBVIOUS
<1> QED BY <1>2, <1>3, <1>4, <1>5 DEF TextInv, TextTypeOK, CursorInText, Chars

\* n characters are removed at pos, with the cursor at either end of them:
\* what is on both sides stays, and the cursor is between the sides.
LEMMA DeleteKeeps ==
  ASSUME NEW e, e.text \in Seq(Chars), NEW pos \in Nat, NEW n \in Nat,
         pos + n <= Len(e.text), pos # Len(e.text), e.cursor = pos \/ e.cursor = pos + n
  PROVE  LET d == Delete(e, pos, n)
         IN  /\ d.text \in Seq(Chars) /\ Len(d.text) <= Len(e.text)
             /\ d.cursor = pos /\ pos \in 0 .. Len(d.text)
             /\ Keep(d.text, 0, pos) = Keep(e.text, 0, pos)
             /\ Rest(d.text, pos) = Rest(e.text, pos + n)
<1> DEFINE s == e.text
           c == e.cursor
           d == Delete(e, pos, n)
           u == Keep(s, 0, pos) \o Keep(s, pos + n, Len(s))
<1>0. s \in Seq(Chars) /\ Len(s) \in Nat /\ pos + n \in Nat /\ pos <= pos + n /\ pos + n <= Len(s)
  OBVIOUS
<1>1. ~(pos + n > Len(s)) /\ pos # Len(s)
  BY <1>0
<1>2. d.text = u
  BY <1>1 DEF Delete
<1>3. d.cursor = IF c \in pos .. pos + n - 1 THEN pos ELSE IF c >= pos + n THEN c - n ELSE c
  BY <1>1 DEF Delete
<1>4. c = pos \/ c = pos + n
  OBVIOUS
<1> HIDE DEF s, c, d, u
<1>5. d.cursor = pos
  <2>1. CASE c = pos + n
    <3>1. c \notin pos .. pos + n - 1 /\ c >= pos + n /\ c - n = pos
      BY <2>1
    <3> QED BY <1>3, <3>1
  <2>2. CASE c = pos /\ n # 0
    <3>1. c \in pos .. pos + n - 1
      BY <2>2
    <3> QED BY <1>3, <3>1
  <2>3. CASE c = pos /\ n = 0
    <3>1. c = pos + n
      BY <2>3
    <3> QED BY <2>1, <3>1
  <2> QED BY <1>4, <2>1, <2>2, <2>3
<1>6. /\ u \in Seq(Chars) /\ Len(u) = Len(s) - ((pos + n) - pos)
      /\ Keep(u, 0, pos) = Keep(s, 0, pos) /\ Rest(u, pos) = Rest(s, pos + n)
  <2> DEFINE q == pos + n
  <2>1. q \in Nat /\ pos <= q /\ q <= Len(s) /\ u = Keep(s, 0, pos) \o Keep(s, q, Len(s))
    BY <1>0 DEF u
  <2> HIDE DEF q
  <2>2. /\ u \in Seq(Chars) /\ Len(u) = Len(s) - (q - pos)
        /\ Keep(u, 0, pos) = Keep(s, 0, pos) /\ Rest(u, pos) = Rest(s, q)
    BY <1>0, <2>1, Cut, Zenon
  <2> QED BY <2>2 DEF q
<1>7. Len(u) <= Len(s) /\ pos \in 0 .. Len(u)
  <2>1. Len(u) = Len(s) - n
    BY <1>0, <1>6
  <2> QED BY <1>0, <2>1
<1> QED BY <1>2, <1>5, <1>6, <1>7 DEF d, s

\* A key that removes characters.
LEMMA RemovingKeeps ==
  ASSUME TextInv, NEW e, e.text = text, NEW pos \in Nat, NEW n \in Nat,
         pos + n <= Len(text), e.cursor = pos \/ e.cursor = pos + n, Removing(e, pos, n)
  PROVE  /\ TextInv' /\ answer' = 1
         /\ \/ pos = Len(text) /\ text' = text /\ cursor' = cursor
            \/ /\ cursor' = pos
               /\ Keep(text', 0, pos) = Keep(text, 0, pos)
               /\ Rest(text', pos) = Rest(text, pos + n)
<1>0. TextTypeOK
  BY DEF TextInv
<1>1. CASE pos = Len(text)
  <2>1. Nothing
    BY <1>1 DEF Removing
  <2>2. /\ text' = text /\ cursor' = cursor /\ blink' = blink /\ changed' = changed
        /\ flags' = flags /\ layout' = layout /\ answer' = 1
    BY <2>1 DEF Nothing
  <2>3. TextInv'
    BY <1>0, <2>2, StateKeeps, TextFacts DEF TextTypeOK
  <2> QED BY <1>1, <2>2, <2>3
<1>2. CASE pos # Len(text)
  <2> DEFINE d == Delete(e, pos, n)
  <2>1. Edit(d, TRUE)
    BY <1>2 DEF Removing
  <2>2. /\ d.text \in Seq(Chars) /\ Len(d.text) <= Len(text)
        /\ d.cursor = pos /\ pos \in 0 .. Len(d.text)
        /\ Keep(d.text, 0, pos) = Keep(text, 0, pos)
        /\ Rest(d.text, pos) = Rest(text, pos + n)
    BY <1>2, TextFacts, DeleteKeeps
  <2> HIDE DEF d
  <2>3. /\ text' = d.text /\ cursor' = d.cursor /\ answer' = 1 /\ changed' = TRUE
        /\ blink' = 2 /\ flags' = flags /\ layout' = layout
    BY <2>1 DEF Edit
  <2>4. Len(text') <= MaxLen
    <3>1. Len(d.text) \in Nat
      BY <2>2
    <3> QED BY <2>2, <2>3, <3>1, TextFacts
  <2>5. TextInv'
    BY <2>2, <2>3, <2>4, StateKeeps
  <2> QED BY <2>2, <2>3, <2>5
<1> QED BY <1>1, <1>2

\* The cursor moves.
LEMMA PutCursorKeeps ==
  ASSUME TextInv, NEW c \in 0 .. Len(text), NEW ret \in 0 .. 2, PutCursor(c, ret)
  PROVE  TextInv' /\ text' = text
<1>1. /\ text' = text /\ cursor' = c /\ answer' = ret /\ blink' = 3
      /\ changed' = changed /\ flags' = flags /\ layout' = layout
  BY DEF PutCursor
<1>2. changed \in BOOLEAN
  BY DEF TextInv, TextTypeOK
<1> QED BY <1>1, <1>2, TextFacts, StateKeeps

\* The text is set.
LEMMA SetTextKeeps ==
  ASSUME TextInv, NEW s \in Seq(Chars), Len(s) <= MaxLen, SetText(s), answer' \in 0 .. 2
  PROVE  TextInv'
<1>1. /\ text' = s /\ cursor' = Clamp(s, cursor) /\ layout' = Visible(s)
      /\ blink' = blink /\ changed' = changed /\ flags' = flags
  BY DEF SetText
<1>2. cursor' \in 0 .. Len(text')
  <2>1. cursor \in Int
    BY TextFacts
  <2> QED BY <1>1, <2>1, ClampIn
<1>3. changed \in BOOLEAN /\ blink \in 0 .. 3
  BY DEF TextInv, TextTypeOK
<1> QED BY <1>1, <1>2, <1>3, StateKeeps

\* The keys that remove: what they keep, and where the cursor goes.
LEMMA RemoveKeeps ==
  ASSUME TextInv
  PROVE  /\ RemoveCharBack \/ RemoveWordBack \/ RemoveToSol =>
              /\ TextInv' /\ answer' = 1
              /\ cursor' <= cursor /\ Rest(text', cursor') = Rest(text, cursor)
         /\ RemoveCharForward \/ RemoveWordForward \/ RemoveToEol =>
              /\ TextInv' /\ answer' = 1
              /\ cursor' = cursor /\ Keep(text', 0, cursor') = Keep(text, 0, cursor)
<1> DEFINE Backwards == /\ TextInv' /\ answer' = 1
                        /\ cursor' <= cursor /\ Rest(text', cursor') = Rest(text, cursor)
           Forwards == /\ TextInv' /\ answer' = 1
                       /\ cursor' = cursor /\ Keep(text', 0, cursor') = Keep(text, 0, cursor)
<1>0. /\ text \in Seq(Chars) /\ Len(text) \in Nat
      /\ cursor \in Nat /\ cursor <= Len(text) /\ cursor \in 0 .. Len(text)
  BY TextFacts
<1>1. /\ Now.text = text /\ Now.cursor = cursor
      /\ \A c : At(c).text = text /\ At(c).cursor = c
  BY DEF Now, At
<1>n. Nothing => Backwards
  <2> SUFFICES ASSUME Nothing PROVE Backwards
    OBVIOUS
  <2>1. /\ text' = text /\ cursor' = cursor /\ blink' = blink /\ changed' = changed
        /\ flags' = flags /\ layout' = layout /\ answer' = 1
    BY DEF Nothing
  <2>2. changed \in BOOLEAN /\ blink \in 0 .. 3
    BY DEF TextInv, TextTypeOK
  <2>3. TextInv'
    BY <2>1, <2>2, TextFacts, StateKeeps
  <2> QED BY <1>0, <2>1, <2>3
<1>b. ASSUME NEW e, NEW pos \in Nat, e.text = text, pos <= cursor,
             e.cursor = pos \/ e.cursor = cursor, Removing(e, pos, cursor - pos)
      PROVE  Backwards
  <2>1. cursor - pos \in Nat /\ pos + (cursor - pos) = cursor
    BY <1>0, <1>b
  <2>2. /\ TextInv' /\ answer' = 1
        /\ \/ pos = Len(text) /\ text' = text /\ cursor' = cursor
           \/ /\ cursor' = pos
              /\ Keep(text', 0, pos) = Keep(text, 0, pos)
              /\ Rest(text', pos) = Rest(text, cursor)
    BY <1>0, <1>b, <2>1, RemovingKeeps
  <2>3. cursor <= cursor
    BY <1>0
  <2> QED BY <1>b, <2>2, <2>3
<1>f. ASSUME NEW e, NEW n \in Nat, e.text = text, cursor + n <= Len(text),
             e.cursor = cursor \/ e.cursor = cursor + n, Removing(e, cursor, n)
      PROVE  Forwards
  <2>1. /\ TextInv' /\ answer' = 1
        /\ \/ cursor = Len(text) /\ text' = text /\ cursor' = cursor
           \/ /\ cursor' = cursor
              /\ Keep(text', 0, cursor) = Keep(text, 0, cursor)
              /\ Rest(text', cursor) = Rest(text, cursor + n)
    BY <1>0, <1>f, RemovingKeeps
  <2> QED BY <2>1
<1> HIDE DEF Backwards, Forwards
<1>2. ASSUME RemoveCharBack PROVE Backwards
  <2>1. CASE cursor > 0
    <3>1. cursor - 1 \in Nat /\ cursor - 1 <= cursor /\ cursor - (cursor - 1) = 1
      BY <1>0, <2>1
    <3>2. Removing(At(cursor - 1), cursor - 1, 1)
      BY <1>2, <2>1 DEF RemoveCharBack
    <3> QED BY <1>1, <1>b, <3>1, <3>2
  <2>2. CASE ~(cursor > 0)
    <3>1. Nothing
      BY <1>2, <2>2 DEF RemoveCharBack
    <3> QED BY <1>n, <3>1
  <2> QED BY <2>1, <2>2
<1>3. ASSUME RemoveWordBack PROVE Backwards
  <2> DEFINE w == DecWord(text, cursor)
  <2>0. w \in 0 .. cursor
    BY <1>0, WordBack
  <2>1. CASE cursor > 0
    <3>1. w \in Nat /\ w <= cursor
      BY <1>0, <2>0
    <3>2. Removing(At(w), w, cursor - w)
      BY <1>3, <2>1 DEF RemoveWordBack
    <3> HIDE DEF w
    <3> QED BY <1>1, <1>b, <3>1, <3>2
  <2>2. CASE ~(cursor > 0)
    <3>1. Nothing
      BY <1>3, <2>2 DEF RemoveWordBack
    <3> QED BY <1>n, <3>1
  <2> QED BY <2>1, <2>2
<1>4. ASSUME RemoveToSol PROVE Backwards
  <2>1. 0 \in Nat /\ 0 <= cursor /\ cursor - 0 = cursor
    BY <1>0
  <2>2. Removing(Now, 0, cursor - 0)
    BY <1>4, <2>1 DEF RemoveToSol
  <2> QED BY <1>1, <1>b, <2>1, <2>2
<1>5. ASSUME RemoveCharForward PROVE Forwards
  <2>1. CASE cursor = Len(text)
    <3>1. Removing(Now, cursor, 0)
      BY <1>5, <2>1 DEF RemoveCharForward, Removing
    <3>2. 0 \in Nat /\ cursor + 0 <= Len(text)
      BY <1>0
    <3> QED BY <1>1, <1>f, <3>1, <3>2
  <2>2. CASE cursor # Len(text)
    <3>1. 1 \in Nat /\ cursor + 1 <= Len(text)
      BY <1>0, <2>2
    <3> QED BY <1>1, <1>5, <1>f, <3>1 DEF RemoveCharForward
  <2> QED BY <2>1, <2>2
<1>6. ASSUME RemoveWordForward PROVE Forwards
  <2> DEFINE w == IncWord(text, cursor)
  <2>0. w \in cursor .. Len(text)
    BY <1>0, WordOn
  <2>1. CASE cursor < w
    <3>1. w - cursor \in Nat /\ cursor + (w - cursor) = w /\ w <= Len(text)
      BY <1>0, <2>0
    <3>2. Removing(At(w), cursor, w - cursor)
      BY <1>6, <2>1 DEF RemoveWordForward
    <3> HIDE DEF w
    <3> QED BY <1>1, <1>f, <3>1, <3>2
  <2>2. CASE ~(cursor < w)
    <3>1. w = cursor
      BY <1>0, <2>0, <2>2
    <3>2. Edit(At(w), FALSE)
      BY <1>6, <2>2 DEF RemoveWordForward
    <3>3. changed \in BOOLEAN
      BY DEF TextInv, TextTypeOK
    <3>4. /\ text' = text /\ cursor' = cursor /\ answer' = 1 /\ blink' = 3
          /\ changed' = changed /\ flags' = flags /\ layout' = layout
      BY <1>1, <3>1, <3>2, <3>3 DEF Edit
    <3>5. TextInv'
      BY <3>3, <3>4, TextFacts, StateKeeps
    <3> QED BY <3>4, <3>5 DEF Forwards
  <2> QED BY <2>1, <2>2
<1>7. ASSUME RemoveToEol PROVE Forwards
  <2>1. Len(text) - cursor \in Nat /\ cursor + (Len(text) - cursor) <= Len(text)
    BY <1>0
  <2>2. Removing(Now, cursor, Len(text) - cursor)
    BY <1>7 DEF RemoveToEol
  <2> QED BY <1>1, <1>f, <2>1, <2>2
<1> QED BY <1>2, <1>3, <1>4, <1>5, <1>6, <1>7 DEF Backwards, Forwards

\* Two characters change places.
LEMMA TransposeKeeps ==
  ASSUME TextInv, TransposeChars
  PROVE  TextInv' /\ answer' = 1
<1>0. TextTypeOK
  BY DEF TextInv
<1>1. CASE cursor < 2
  <2>1. /\ text' = text /\ cursor' = cursor /\ blink' = blink /\ changed' = changed
        /\ flags' = flags /\ layout' = layout /\ answer' = 1
    BY <1>1 DEF TransposeChars, Nothing
  <2> QED BY <1>0, <2>1, TextFacts, StateKeeps DEF TextTypeOK
<1>2. CASE ~(cursor < 2)
  <2> DEFINE t == [text EXCEPT ![cursor] = text[cursor - 1], ![cursor - 1] = text[cursor]]
  <2>1. cursor \in 1 .. Len(text) /\ cursor - 1 \in 1 .. Len(text)
    BY <1>2, TextFacts
  <2>2. text[cursor] \in Chars /\ text[cursor - 1] \in Chars
    BY <2>1, TextFacts
  <2>3. t \in Seq(Chars) /\ Len(t) = Len(text)
    BY <2>1, <2>2, TextFacts
  <2>4. /\ text' = t /\ cursor' = cursor /\ answer' = 1 /\ changed' = TRUE
        /\ blink' = 2 /\ flags' = flags /\ layout' = layout
    BY <1>2 DEF TransposeChars, Edit
  <2> HIDE DEF t
  <2> QED BY <2>3, <2>4, TextFacts, StateKeeps
<1> QED BY <1>1, <1>2

\* A key: the state stays sound, and what changes the text says so.
LEMMA KeyBindingKeeps ==
  ASSUME TextInv, KeyBinding
  PROVE  TextInv' /\ (text' # text => answer' = 1)
<1>0. /\ text \in Seq(Chars) /\ Len(text) \in Nat
      /\ cursor \in Nat /\ cursor <= Len(text) /\ cursor \in 0 .. Len(text)
  BY TextFacts
<1>1. CASE MoveCharBack
  <2>1. cursor - 1 \in Int
    BY <1>0
  <2>2. PutCursor(Clamp(text, cursor - 1), IF cursor > 0 THEN 2 ELSE 0)
    BY <1>1 DEF MoveCharBack
  <2> QED BY <1>0, <2>1, <2>2, ClampIn, PutCursorKeeps
<1>2. CASE MoveCharForward
  <2>1. cursor + 1 \in Int
    BY <1>0
  <2>2. PutCursor(Clamp(text, cursor + 1), IF cursor < Len(text) THEN 2 ELSE 0)
    BY <1>2 DEF MoveCharForward
  <2> QED BY <1>0, <2>1, <2>2, ClampIn, PutCursorKeeps
<1>3. CASE MoveFront
  <2>1. 0 \in 0 .. Len(text)
    BY <1>0
  <2> QED BY <1>3, <2>1, PutCursorKeeps DEF MoveFront
<1>4. CASE MoveEnd
  <2>1. /\ text' = text /\ cursor' = Len(text) /\ answer' = 2 /\ blink' = 2
        /\ changed' = changed /\ flags' = flags /\ layout' = layout
    BY <1>4 DEF MoveEnd
  <2>2. changed \in BOOLEAN /\ Len(text) \in 0 .. Len(text)
    BY <1>0 DEF TextInv, TextTypeOK
  <2> QED BY <2>1, <2>2, TextFacts, StateKeeps
<1>5. CASE MoveWordBack
  <2>1. DecWord(text, cursor) \in 0 .. Len(text)
    <3>1. DecWord(text, cursor) \in 0 .. cursor
      BY <1>0, WordBack
    <3> QED BY <1>0, <3>1
  <2> QED BY <1>5, <2>1, PutCursorKeeps DEF MoveWordBack
<1>6. CASE MoveWordForward
  <2>1. IncWord(text, cursor) \in 0 .. Len(text)
    <3>1. IncWord(text, cursor) \in cursor .. Len(text)
      BY <1>0, WordOn
    <3> QED BY <1>0, <3>1
  <2> QED BY <1>6, <2>1, PutCursorKeeps DEF MoveWordForward
<1>7. CASE \/ RemoveCharBack \/ RemoveWordBack \/ RemoveToSol
           \/ RemoveCharForward \/ RemoveWordForward \/ RemoveToEol
  BY <1>7, RemoveKeeps
<1>8. CASE TransposeChars
  BY <1>8, TransposeKeeps
<1>9. CASE ClearLine
  <2> DEFINE none == <<>>
  <2>1. none \in Seq(Chars) /\ Len(none) <= MaxLen
    BY TextFacts
  <2>2. SetText(none) /\ answer' = 1
    BY <1>9 DEF ClearLine
  <2> HIDE DEF none
  <2>3. TextInv'
    BY <2>1, <2>2, SetTextKeeps
  <2> QED BY <2>2, <2>3
<1> QED BY <1>1, <1>2, <1>3, <1>4, <1>5, <1>6, <1>7, <1>8, <1>9 DEF KeyBinding

\* Text is typed.
LEMMA AppendTextKeeps ==
  ASSUME TextInv, NEW pad \in Typed, AppendText(pad)
  PROVE  /\ TextInv' /\ Keep(text', 0, cursor) = Keep(text, 0, cursor)
         /\ Rest(text', cursor') = Rest(text, cursor)
<1> DEFINE e == Appended(Now, pad)
<1>0. pad \in Seq({"letter", "space", "control"}) /\ Len(pad) \in Nat
  BY TextEditAssumption DEF TextEditAssumption
<1>1. Now.text = text /\ Now.cursor = cursor /\ Edited(Now)
  BY TextFacts DEF Now, Edited
<1>2. /\ Edited(e) /\ Len(e.text) <= Len(text) + Len(pad)
      /\ Keep(e.text, 0, cursor) = Keep(text, 0, cursor)
      /\ Rest(e.text, e.cursor) = Rest(text, cursor)
  BY <1>0, <1>1, AppendKeeps
<1>3. /\ text' = e.text /\ cursor' = Clamp(e.text, e.cursor) /\ changed' = TRUE
      /\ blink' = 3 /\ answer' = 1 /\ flags' = flags /\ layout' = layout
      /\ Len(text) + Len(pad) <= MaxLen
  BY DEF AppendText
<1> HIDE DEF e
<1>4. e.text \in Seq(Chars) /\ e.cursor \in 0 .. Len(e.text) /\ Len(e.text) \in Nat
  BY <1>2 DEF Edited
<1>5. cursor' = e.cursor
  BY <1>3, <1>4, ClampIn
<1>6. Len(e.text) <= MaxLen
  BY <1>0, <1>2, <1>3, <1>4, TextFacts
<1> QED BY <1>2, <1>3, <1>4, <1>5, <1>6, StateKeeps

\* The program sets a text.
LEMMA ProgramKeeps ==
  ASSUME TextInv, NEW pad \in Typed, Program(Appended(Empty, pad).text)
  PROVE  TextInv'
<1>0. pad \in Seq({"letter", "space", "control"})
  BY TextEditAssumption DEF TextEditAssumption
<1>1. Edited(Empty)
  BY DEF Edited, Empty
<1>2. Appended(Empty, pad).text \in Seq(Chars)
  BY <1>0, <1>1, AppendKeeps DEF Edited
<1> QED BY <1>2, SetTextKeeps DEF Program

\* A step of the text box keeps its state sound.
LEMMA TextNextKeeps ==
  ASSUME TextInv, [TextNext]_tvars
  PROVE  TextInv'
<1>0. TextTypeOK
  BY DEF TextInv
<1>1. CASE KeyBinding
  BY <1>1, KeyBindingKeeps
<1>2. CASE Blink
  <2>1. /\ text' = text /\ cursor' = cursor /\ answer' = answer /\ changed' = changed
        /\ flags' = flags /\ layout' = layout
        /\ blink' = IF blink < 2 THEN 1 - blink ELSE blink - 1
    BY <1>2 DEF Blink
  <2>2. blink' \in 0 .. 3
    <3>1. blink \in 0 .. 3
      BY <1>0 DEF TextTypeOK
    <3> QED BY <2>1, <3>1
  <2> QED BY <1>0, <2>1, <2>2, TextFacts, StateKeeps DEF TextTypeOK
<1>3. CASE DrawText
  <2>1. /\ text' = text /\ cursor' = cursor /\ answer' = answer /\ changed' = changed
        /\ flags' = flags /\ blink' = blink
        /\ layout' = IF changed THEN Visible(text) ELSE layout
    BY <1>3 DEF DrawText
  <2> QED BY <1>0, <2>1, TextFacts, StateKeeps DEF TextTypeOK
<1>4. CASE \E pad \in Typed : AppendText(pad)
  BY <1>4, AppendTextKeeps
<1>5. CASE \E pad \in Typed : Program(Appended(Empty, pad).text)
  BY <1>5, ProgramKeeps
<1>6. CASE \E c \in 0 .. layout.len : ClickAt(c)
  <2>1. PICK c \in 0 .. layout.len : ClickAt(c)
    BY <1>6
  <2>2. /\ text' = text /\ cursor' = Clamp(text, c) /\ answer' = 0 /\ changed' = changed
        /\ flags' = flags /\ layout' = layout /\ blink' \in 0 .. 3
    BY <2>1 DEF ClickAt
  <2>3. cursor' \in 0 .. Len(text)
    BY <2>2, TextFacts, ClampIn
  <2> QED BY <1>0, <2>2, <2>3, TextFacts, StateKeeps DEF TextTypeOK
<1>7. CASE UNCHANGED tvars
  <2>1. /\ text' = text /\ cursor' = cursor /\ answer' = answer /\ changed' = changed
        /\ flags' = flags /\ layout' = layout /\ blink' = blink
    BY <1>7 DEF tvars
  <2> QED BY <1>0, <2>1, TextFacts, StateKeeps DEF TextTypeOK
<1> QED BY <1>1, <1>2, <1>3, <1>4, <1>5, <1>6, <1>7 DEF TextNext

\* Moving by words is right in every text.
LEMMA WordsRight ==
  ASSUME TextInv
  PROVE  WordMoves
<1>1. text \in Seq(Chars) /\ cursor \in 0 .. Len(text) /\ Len(text) \in Nat
  BY TextFacts
<1>2. IncWord(text, cursor) >= cursor
  <2>1. IncWord(text, cursor) \in cursor .. Len(text)
    BY <1>1, WordOn
  <2> QED BY <1>1, <2>1
<1> QED BY <1>1, <1>2, WordBack, WordOn DEF WordMoves

\* What an edit leaves alone.
LEMMA EditsRight ==
  ASSUME TextInv
  PROVE  EditStep
BY RemoveKeeps, AppendTextKeeps, KeyBindingKeeps DEF EditStep

\* The text box is sound after every step: its state has its types, the
\* cursor is in the text, and the layout is marked or that of the text.
THEOREM TextInvariant == TextSpec => []TextInv
<1>1. TextInit => TextInv
  <2> SUFFICES ASSUME TextInit PROVE TextInv
    OBVIOUS
  <2>1. text \in Seq({"letter", "space"}) /\ text \in Seq(Chars) /\ Len(text) = 0 /\ cursor = 0 /\ MaxLen \in Nat
    BY TextEditAssumption DEF TextInit, TextEditAssumption, Chars
  <2>2. layout = Visible(text) /\ layout \in [kind : {"placeholder", "mask", "text"}, len : Nat]
    BY <2>1, VisibleType DEF TextInit
  <2>3. CursorInText
    BY <2>1, <2>2 DEF CursorInText
  <2>4. TextTypeOK
    <3>1. /\ flags \in [editable : BOOLEAN, password : BOOLEAN, placeholder : BOOLEAN]
          /\ blink = 1 /\ changed = FALSE /\ answer = 0
      BY DEF TextInit
    <3>2. Len(text) <= MaxLen /\ cursor \in Nat /\ blink \in 0 .. 3 /\ answer \in 0 .. 2
      BY <2>1, <3>1
    <3> QED BY <2>1, <2>2, <3>1, <3>2, Zenon DEF TextTypeOK
  <2> QED BY <2>3, <2>4 DEF TextInv
<1>2. TextInv /\ [TextNext]_tvars => TextInv'
  BY TextNextKeeps
<1> QED BY <1>1, <1>2, PTL DEF TextSpec

\* After every step of the text box the cursor is in the text, moving by words
\* goes to the starts and ends of words, and an edit leaves the other side of
\* the cursor alone and is never taken without telling the view.
THEOREM EditsAreSound == TextSpec => EditsSound
<1>1. TextInv => WordMoves
  BY WordsRight
<1>2. TextInv => EditStep
  BY EditsRight
<1>3. TextInv => CursorInText
  BY DEF TextInv
<1> QED BY <1>1, <1>2, <1>3, TextInvariant, PTL DEF EditsSound
=============================================================================
