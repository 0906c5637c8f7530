-------------------------- MODULE DmenuReader_proofs --------------------------
(***************************************************************************)
(* Proofs about DmenuReader, for inputs, blocks and reads of any size.     *)
(***************************************************************************)
EXTENDS DmenuReader, SequenceLemmas

\* The text t is cut into the rows r; the line in the buffer begins at f, and
\* p characters were read.
Ends(r, i) == IF i = 0 THEN 0 ELSE r[i].to
Abuts(t, end, start) == start = end + 1 \/ (start = end + 2 /\ t[end + 1])
Cut(t, r, f, p) ==
  /\ \A i \in 1 .. Len(r) : Abuts(t, Ends(r, i - 1), r[i].from)
  /\ Abuts(t, Ends(r, Len(r)), f)
  /\ \A i \in 1 .. Len(r) : \A k \in r[i].from .. r[i].to : ~t[k]
  /\ \A i \in 1 .. Len(r) : r[i].from <= r[i].to + 1 /\ r[i].to <= p
  /\ f <= p + 1

\* A row has its two ends.
LEMMA RowType ==
  ASSUME NEW r \in Seq(Row)
  PROVE  \A i \in 1 .. Len(r) : r[i] \in Row /\ r[i].from \in Nat /\ r[i].to \in Nat
<1>1. \A i \in 1 .. Len(r) : r[i] \in Row
  BY ElementOfSeq
<1> QED BY <1>1 DEF Row

\* More text and more of it read change nothing about the rows.
LEMMA CutGrows ==
  ASSUME NEW t \in Seq(BOOLEAN), NEW u \in Seq(BOOLEAN), NEW r \in Seq(Row),
         NEW f \in Nat \ {0}, NEW p \in 0 .. Len(t), NEW q \in Nat, p <= q,
         Len(t) <= Len(u), \A k \in 1 .. Len(t) : u[k] = t[k],
         Cut(t, r, f, p)
  PROVE  Cut(u, r, f, q)
<1>0. /\ Len(r) \in Nat /\ Len(t) \in Nat
      /\ \A i \in 1 .. Len(r) : r[i].from \in Nat /\ r[i].to \in Nat
  BY RowType
<1>1. \A i \in 0 .. Len(r) : Ends(r, i) \in Nat
  BY <1>0 DEF Ends
<1>2. \A end, start \in Nat : start <= p + 1 /\ Abuts(t, end, start) => Abuts(u, end, start)
  BY <1>0 DEF Abuts
<1>3. \A i \in 1 .. Len(r) : r[i].from <= r[i].to + 1 /\ r[i].to <= p
  BY DEF Cut
<1>4. ASSUME NEW i \in 1 .. Len(r) PROVE Abuts(u, Ends(r, i - 1), r[i].from)
  <2>1. Abuts(t, Ends(r, i - 1), r[i].from)
    BY DEF Cut
  <2>2. i - 1 \in 0 .. Len(r) /\ r[i].from <= p + 1
    BY <1>0, <1>3
  <2> QED BY <1>0, <1>1, <1>2, <2>1, <2>2
<1>5. Abuts(u, Ends(r, Len(r)), f) /\ f <= q + 1
  <2>1. Abuts(t, Ends(r, Len(r)), f) /\ f <= p + 1
    BY DEF Cut
  <2>2. Ends(r, Len(r)) \in Nat
    BY <1>0, <1>1
  <2> QED BY <1>2, <2>1, <2>2
<1>6. ASSUME NEW i \in 1 .. Len(r), NEW k \in r[i].from .. r[i].to PROVE ~u[k]
  <2>1. ~t[k]
    BY DEF Cut
  <2>2. 0 < r[i].from
    <3>1. Abuts(t, Ends(r, i - 1), r[i].from) /\ Ends(r, i - 1) \in Nat
      BY <1>0, <1>1 DEF Cut
    <3> QED BY <3>1 DEF Abuts
  <2>3. k \in 1 .. Len(t)
    <3>1. r[i].from \in Nat /\ r[i].to \in Nat /\ r[i].to <= p /\ p <= Len(t)
      BY <1>0, <1>3
    <3> QED BY <1>0, <2>2, <3>1
  <2> QED BY <2>1, <2>3
<1>7. \A i \in 1 .. Len(r) : r[i].from <= r[i].to + 1 /\ r[i].to <= q
  BY <1>0, <1>3
<1> QED BY <1>4, <1>5, <1>6, <1>7 DEF Cut

\* The line in the buffer, up to e, becomes a row: the buffer goes on behind
\* it, or behind the separator that ends it.
LEMMA CutAdds ==
  ASSUME NEW t \in Seq(BOOLEAN), NEW r \in Seq(Row), NEW f \in Nat \ {0},
         NEW p \in 0 .. Len(t), Cut(t, r, f, p),
         NEW e \in 0 .. p, f <= e + 1, \A k \in f .. e : ~t[k],
         NEW g \in Nat, Abuts(t, e, g), g <= p + 1
  PROVE  Cut(t, Append(r, [from |-> f, to |-> e]), g, p)
<1> DEFINE x == [from |-> f, to |-> e]
           s == Append(r, x)
<1>0. Len(r) \in Nat /\ x \in Row /\ x.from = f /\ x.to = e
  BY DEF Row
<1>1. /\ Len(s) = Len(r) + 1
      /\ \A i \in 1 .. Len(r) : s[i] = r[i]
      /\ s[Len(r) + 1] = x
  BY <1>0, AppendProperties
<1> HIDE DEF s, x
<1>2. \A i \in 0 .. Len(r) : Ends(s, i) = Ends(r, i)
  BY <1>0, <1>1 DEF Ends
<1>3. Ends(s, Len(s)) = e
  BY <1>0, <1>1 DEF Ends
<1>4. ASSUME NEW i \in 1 .. Len(s)
      PROVE  /\ Abuts(t, Ends(s, i - 1), s[i].from)
             /\ \A k \in s[i].from .. s[i].to : ~t[k]
             /\ s[i].from <= s[i].to + 1 /\ s[i].to <= p
  <2>1. CASE i \in 1 .. Len(r)
    <3>1. i - 1 \in 0 .. Len(r)
      BY <1>0, <2>1
    <3>2. s[i] = r[i] /\ Ends(s, i - 1) = Ends(r, i - 1)
      BY <1>1, <1>2, <2>1, <3>1
    <3>3. /\ Abuts(t, Ends(r, i - 1), r[i].from)
          /\ \A k \in r[i].from .. r[i].to : ~t[k]
          /\ r[i].from <= r[i].to + 1 /\ r[i].to <= p
      BY <2>1 DEF Cut
    <3> QED BY <3>2, <3>3
  <2>2. CASE i = Len(r) + 1
    <3>1. i - 1 = Len(r) /\ Len(r) \in 0 .. Len(r)
      BY <1>0, <2>2
    <3>2. s[i] = x /\ Ends(s, i - 1) = Ends(r, Len(r))
      BY <1>1, <1>2, <2>2, <3>1
    <3>3. Abuts(t, Ends(r, Len(r)), f)
      BY DEF Cut
    <3>4. s[i].from = f /\ s[i].to = e
      BY <1>0, <3>2
    <3>5. Abuts(t, Ends(s, i - 1), s[i].from)
      BY <3>2, <3>3, <3>4
    <3>6. \A k \in s[i].from .. s[i].to : ~t[k]
      BY <3>4
    <3>7. s[i].from <= s[i].to + 1 /\ s[i].to <= p
      BY <3>4
    <3> QED BY <3>5, <3>6, <3>7
  <2> QED BY <1>0, <1>1, <2>1, <2>2
<1>5. Cut(t, s, g, p)
  BY <1>3, <1>4 DEF Cut
<1> QED BY <1>5 DEF s, x

\* When all of the text is read and cut, every character is in a row or is a
\* separator.
LEMMA CutCovers ==
  ASSUME NEW t \in Seq(BOOLEAN), NEW r \in Seq(Row), NEW p \in Nat,
         Cut(t, r, p + 1, p), NEW k \in 1 .. p, ~t[k]
  PROVE  \E i \in 1 .. Len(r) : k \in r[i].from .. r[i].to
<1>0. Len(r) \in Nat /\ \A i \in 1 .. Len(r) : r[i].from \in Nat /\ r[i].to \in Nat
  BY RowType
<1>1. Abuts(t, Ends(r, Len(r)), p + 1)
  BY DEF Cut
<1>2. \A i \in 0 .. Len(r) : Ends(r, i) \in Nat
  BY <1>0 DEF Ends
<1> DEFINE T == {i \in 1 .. Len(r) : k <= r[i].to}
<1>3. T # {}
  <2>1. Ends(r, Len(r)) \in Nat
    BY <1>0, <1>2
  <2>2. p + 1 = Ends(r, Len(r)) + 1 \/ (p + 1 = Ends(r, Len(r)) + 2 /\ t[Ends(r, Len(r)) + 1])
    BY <1>1 DEF Abuts
  <2>3. k <= Ends(r, Len(r))
    BY <2>1, <2>2
  <2>4. Len(r) # 0
    BY <2>3 DEF Ends
  <2> QED BY <1>0, <2>3, <2>4 DEF Ends
<1>4. PICK i \in T : \A j \in T : i <= j
  <2>1. T \subseteq Nat
    BY <1>0
  <2> HIDE DEF T
  <2> QED BY <1>3, <2>1, Least
<1>5. i \in 1 .. Len(r) /\ k <= r[i].to /\ i - 1 \in 0 .. Len(r)
  BY <1>0, <1>4
<1>6. Ends(r, i - 1) < k
  <2>1. CASE i = 1
    BY <2>1 DEF Ends
  <2>2. CASE i # 1
    <3>1. i - 1 \in 1 .. Len(r) /\ i - 1 \notin T
      BY <1>0, <1>4, <1>5, <2>2
    <3> QED BY <1>0, <3>1 DEF Ends
  <2> QED BY <2>1, <2>2
<1>7. Abuts(t, Ends(r, i - 1), r[i].from)
  BY <1>5 DEF Cut
<1>8. r[i].from <= k
  <2> DEFINE e == Ends(r, i - 1)
             f == r[i].from
  <2>1. e \in Nat /\ f \in Nat /\ e < k /\ k \in Nat
    BY <1>0, <1>2, <1>5, <1>6
  <2>2. f = e + 1 \/ (f = e + 2 /\ t[e + 1])
    BY <1>7 DEF Abuts
  <2> HIDE DEF e, f
  <2>3. ASSUME f = e + 2, t[e + 1] PROVE f <= k
    <3>1. e + 1 # k
      <4> SUFFICES ASSUME e + 1 = k PROVE FALSE
        OBVIOUS
      <4>1. t[k]
        BY <2>3, Zenon
      <4> QED BY <4>1, Zenon
    <3> QED BY <2>1, <2>3, <3>1
  <2>4. f <= k
    BY <2>1, <2>2, <2>3
  <2> QED BY <2>4 DEF f
<1> QED BY <1>0, <1>5, <1>8

-----------------------------------------------------------------------------
\* The variables keep their types: no step reads behind the end of the input,
\* and the view never knows of more rows than there are (dmenu.c:91-146).
LEMMA TypeStep == TypeOK /\ [Next]_vars => TypeOK'
<1> SUFFICES ASSUME TypeOK, [Next]_vars PROVE TypeOK'
  OBVIOUS
<1> USE DEF TypeOK, user, thread, ui
<1>0. /\ ChunkSize \in Nat /\ MinRoom \in Nat
      /\ Len(text) \in Nat /\ pos \in Nat /\ pos <= Len(text)
      /\ Len(list) \in Nat /\ shown \in Nat /\ shown <= Len(list)
  BY DmenuReaderAssumption
<1>1. CASE UNCHANGED vars
  BY <1>1 DEF vars
<1>2. CASE Write
  <2>1. PICK separator \in BOOLEAN : text' = Append(text, separator)
    BY <1>2 DEF Write
  <2>2. text' \in Seq(BOOLEAN) /\ Len(text') = Len(text) + 1
    BY <2>1
  <2>3. pos' \in 0 .. Len(text')
    BY <1>0, <1>2, <2>2 DEF Write
  <2> QED BY <1>2, <2>2, <2>3 DEF Write
<1>3. CASE Close
  BY <1>3 DEF Close
<1>4. CASE Abort
  BY <1>4 DEF Abort
<1>5. CASE Read
  <2>1. pos' \in 0 .. Len(text')
    BY <1>0, <1>5 DEF Read
  <2> QED BY <1>5, <2>1 DEF Read
<1>6. CASE Scan
  <2>1. PICK k \in Separators : block' = WithRow(block, k - 1) /\ from' = k + 1
    BY <1>6 DEF Scan
  <2>2. k - 1 \in Nat /\ k + 1 \in Nat \ {0}
    BY <1>0 DEF Separators
  <2>3. block' \in Seq(Row) /\ from' \in Nat \ {0}
    BY <2>1, <2>2 DEF WithRow, Row
  <2>4. pc' \in {"push", "scan"}
    BY <1>6 DEF Scan
  <2> QED BY <1>6, <2>3, <2>4 DEF Scan
<1>7. CASE ScanEnds
  BY <1>7 DEF ScanEnds
<1>8. CASE Timeout \/ EndOfInput
  <2>1. block' \in Seq(Row)
    <3>1. [from |-> from, to |-> pos] \in Row
      BY <1>0 DEF Row
    <3>2. WithRow(block, pos) \in Seq(Row)
      BY <3>1, AppendProperties DEF WithRow
    <3>3. block' = block \/ block' = WithRow(block, pos)
      BY <1>8 DEF Timeout, EndOfInput
    <3> QED BY <3>2, <3>3
  <2>2. from' \in Nat \ {0}
    BY <1>0, <1>8 DEF Timeout, EndOfInput
  <2>3. pc' \in {"push", "end"} /\ after' \in {"select", "end"}
    BY <1>8 DEF Timeout, EndOfInput
  <2> QED BY <1>8, <2>1, <2>2, <2>3 DEF Timeout, EndOfInput
<1>9. CASE Push
  BY <1>9 DEF Push
<1>10. CASE Signal \/ Quit
  <2>1. \A c \in {"r", "q"} : Append(wake, c) \in Seq({"r", "q"})
    BY AppendProperties
  <2>2. wake' \in Seq({"r", "q"})
    BY <1>10, <2>1 DEF Signal, Quit
  <2>3. pc' \in {"select", "scan", "end", "done"}
    BY <1>10 DEF Signal, Quit
  <2>4. CASE Signal
    BY <2>2, <2>3, <2>4 DEF Signal
  <2>5. CASE Quit
    BY <2>2, <2>3, <2>5 DEF Quit
  <2> QED BY <1>10, <2>4, <2>5
<1>11. CASE Woken
  <2>1. wake' \in Seq({"r", "q"})
    BY <1>11, HeadTailProperties DEF Woken
  <2>2. main' \in {"loop", "drain"} /\ changed' \in BOOLEAN /\ loading' \in BOOLEAN
    BY <1>11 DEF Woken
  <2> QED BY <1>11, <2>1, <2>2 DEF Woken
<1>12. CASE Drain
  <2>1. Head(queue) \in Seq(Row) /\ queue' \in Seq(Seq(Row))
    BY <1>12, HeadTailProperties DEF Drain
  <2>2. list' \in Seq(Row) /\ Len(list') = Len(list) + Len(Head(queue))
    BY <1>12, <2>1 DEF Drain
  <2>3. Len(Head(queue)) \in Nat
    BY <2>1
  <2>4. shown' \in 0 .. Len(list')
    BY <1>0, <1>12, <2>2, <2>3 DEF Drain
  <2>5. room' \in Nat
    BY <1>0, <1>12, <2>3 DEF Drain, Grown, Larger
  <2> QED BY <1>12, <2>1, <2>2, <2>4, <2>5 DEF Drain
<1>13. CASE Drained
  BY <1>13 DEF Drained
<1>14. CASE Reload
  <2>1. shown' \in 0 .. Len(list')
    BY <1>0, <1>14 DEF Reload
  <2> QED BY <1>14, <2>1 DEF Reload
<1>15. CASE Finish
  BY <1>15 DEF Finish
<1>16. CASE Join
  BY <1>16 DEF Join
<1> QED
  BY <1>1, <1>2, <1>3, <1>4, <1>5, <1>6, <1>7, <1>8, <1>9, <1>10, <1>11, <1>12,
     <1>13, <1>14, <1>15, <1>16 DEF Next, Program, Thread, Main

\* The variables have their types in the beginning.
LEMMA InitType == Init => TypeOK
<1> SUFFICES ASSUME Init PROVE TypeOK
  OBVIOUS
<1>1. pos \in 0 .. Len(text) /\ shown \in 0 .. Len(list)
  BY DEF Init
<1>2. /\ text \in Seq(BOOLEAN) /\ block \in Seq(Row) /\ queue \in Seq(Seq(Row))
    /\ list \in Seq(Row) /\ wake \in Seq({"r", "q"})
  BY EmptySeq DEF Init
<1>3. /\ from \in Nat \ {0} /\ room \in Nat
    /\ pc = "select" /\ after = "select" /\ main = "loop"
  BY DEF Init
<1>4. /\ eof \in BOOLEAN /\ stop \in BOOLEAN /\ changed \in BOOLEAN
    /\ reload \in BOOLEAN /\ loading \in BOOLEAN
  BY Zenon DEF Init
<1> QED BY <1>1, <1>2, <1>3, <1>4 DEF TypeOK

\* The variables have their types, whatever is written and read.
THEOREM TypeCorrect == Spec => []TypeOK
BY InitType, TypeStep, PTL DEF Spec

-----------------------------------------------------------------------------
\* A block has at most BlockSize rows, and the list always has room for what is
\* copied to it: growing it once is enough.
LEMMA BuffersStep ==
  TypeOK /\ BlocksInv /\ BuffersFit /\ [Next]_vars => BlocksInv' /\ BuffersFit'
<1> SUFFICES ASSUME TypeOK, BlocksInv, BuffersFit, [Next]_vars
             PROVE  BlocksInv' /\ BuffersFit'
  OBVIOUS
<1> USE DEF BlocksInv, BuffersFit, user, thread, ui
<1>0. /\ BlockSize \in Nat \ {0} /\ MinRoom \in Nat /\ MinRoom >= BlockSize
      /\ Len(block) \in Nat /\ block \in Seq(Row) /\ from \in Nat /\ pos \in Nat
      /\ queue \in Seq(Seq(Row)) /\ list \in Seq(Row) /\ room \in Nat
      /\ after \in {"select", "scan", "end"}
  BY DmenuReaderAssumption DEF TypeOK
<1>1. CASE UNCHANGED vars \/ Write \/ Close \/ Abort \/ Read \/ ScanEnds
  BY <1>1 DEF vars, Write, Close, Abort, Read, ScanEnds
<1>2. CASE Scan
  <2>1. Len(block') = Len(block) + 1 /\ Len(block) < BlockSize
    BY <1>0, <1>2 DEF Scan, WithRow, Separators, Row
  <2>2. Len(block') <= BlockSize /\ (pc' = "scan" => Len(block') # BlockSize)
    BY <1>0, <1>2, <2>1 DEF Scan
  <2>3. pc' \in {"scan", "push"}
    BY <1>2 DEF Scan
  <2>4. pc' = "scan" => Len(block') < BlockSize
    BY <1>0, <2>1, <2>2
  <2> QED BY <1>2, <2>2, <2>3, <2>4 DEF Scan
<1>3. CASE Timeout \/ EndOfInput
  <2>1. Len(block') <= Len(block) + 1 /\ Len(block) < BlockSize /\ Len(block') \in Nat
    <3>1. Len(WithRow(block, pos)) = Len(block) + 1
      BY <1>0 DEF WithRow
    <3>2. block' = block \/ block' = WithRow(block, pos)
      BY <1>3 DEF Timeout, EndOfInput
    <3>3. Len(block) < BlockSize
      BY <1>3 DEF Timeout, EndOfInput
    <3> QED BY <1>0, <3>1, <3>2, <3>3
  <2>2. Len(block') <= BlockSize
    BY <1>0, <2>1
  <2>3. pc' \in {"push", "end"}
    BY <1>3 DEF Timeout, EndOfInput
  <2> QED BY <1>3, <2>2, <2>3 DEF Timeout, EndOfInput
<1>4. CASE Push
  <2>1. /\ Len(queue') = Len(queue) + 1 /\ Len(queue) \in Nat
        /\ \A i \in 1 .. Len(queue) : queue'[i] = queue[i]
        /\ queue'[Len(queue) + 1] = block
    BY <1>0, <1>4, AppendProperties DEF Push
  <2>2. ASSUME NEW i \in 1 .. Len(queue') PROVE Len(queue'[i]) <= BlockSize
    <3>1. i \in 1 .. Len(queue) \/ i = Len(queue) + 1
      BY <2>1
    <3> QED BY <2>1, <3>1
  <2>3. block' = <<>> /\ Len(block') <= BlockSize /\ pc' = "signal"
    BY <1>0, <1>4 DEF Push
  <2> QED BY <1>4, <2>2, <2>3 DEF Push
<1>5. CASE Signal
  <2>1. Len(block) = 0 /\ pc' \in {"select", "scan", "end"}
    BY <1>0, <1>5 DEF Signal
  <2> QED BY <1>0, <1>5, <2>1 DEF Signal
<1>6. CASE Quit \/ Woken \/ Drained \/ Reload \/ Finish
  BY <1>6 DEF Quit, Woken, Drained, Reload, Finish
<1>7. CASE Drain
  <2>1. /\ Head(queue) \in Seq(Row) /\ Len(Head(queue)) \in Nat
        /\ Len(Head(queue)) <= BlockSize
    <3>1. Head(queue) = queue[1] /\ Len(queue) \in Nat \ {0}
      BY <1>0, <1>7, EmptySeq DEF Drain
    <3>2. Head(queue) \in Seq(Row)
      BY <1>0, <1>7, HeadTailProperties DEF Drain
    <3> QED BY <3>1, <3>2
  <2>2. ASSUME NEW i \in 1 .. Len(queue') PROVE Len(queue'[i]) <= BlockSize
    <3>1. /\ Len(queue') = Len(queue) - 1 /\ Len(queue) \in Nat
          /\ queue'[i] = queue[i + 1]
      BY <1>0, <1>7, HeadTailProperties DEF Drain
    <3>2. i + 1 \in 1 .. Len(queue)
      BY <3>1
    <3> QED BY <3>1, <3>2
  <2> DEFINE n == Len(list) + Len(Head(queue))
  <2>3. Len(list') = n /\ n \in Nat
    BY <1>0, <1>7, <2>1 DEF Drain
  <2>4. /\ n <= Grown(n)
        /\ Grown(n) = 0 \/ Grown(n) >= MinRoom
    <3>1. n <= room + BlockSize /\ Len(list) \in Nat
      BY <1>0, <2>1
    <3> HIDE DEF n
    <3> QED BY <1>0, <2>3, <3>1 DEF Grown, Larger
  <2>5. Len(list') <= room' /\ (room' = 0 \/ room' >= MinRoom)
    BY <1>7, <2>3, <2>4 DEF Drain
  <2> QED BY <1>7, <2>2, <2>5 DEF Drain
<1>8. CASE Join
  BY <1>8 DEF Join
<1> QED
  BY <1>1, <1>2, <1>3, <1>4, <1>5, <1>6, <1>7, <1>8 DEF Next, Program, Thread, Main

\* No block has more rows than BlockSize, and the list never needs more memory
\* than was allocated for it (dmenu.c:113-146).
THEOREM BuffersAlwaysFit == Spec => []BuffersFit
<1>1. Init => BlocksInv /\ BuffersFit
  BY DmenuReaderAssumption DEF Init, BlocksInv, BuffersFit
<1>2. Spec => [](BlocksInv /\ BuffersFit)
  BY <1>1, TypeCorrect, BuffersStep, PTL DEF Spec
<1> QED BY <1>2, PTL

-----------------------------------------------------------------------------
\* What the steps do to the rows that were cut.
LEMMA RowsType ==
  ASSUME TypeOK
  PROVE  /\ list \in Seq(Row) /\ block \in Seq(Row)
         /\ FlattenSeq(queue) \in Seq(Row)
         /\ Rows \in Seq(Row) /\ Len(Rows) \in Nat
<1>1. FlattenSeq(queue) \in Seq(Row)
  BY FlattenType DEF TypeOK
<1>2. list \in Seq(Row) /\ block \in Seq(Row)
  BY DEF TypeOK
<1>3. Rows \in Seq(Row)
  BY <1>1, <1>2, ConcatProperties DEF Rows
<1> QED BY <1>1, <1>2, <1>3

\* A row that is appended to the block is appended to the rows.
LEMMA RowsAppend ==
  ASSUME TypeOK, NEW x \in Row, block' = Append(block, x), UNCHANGED <<list, queue>>
  PROVE  Rows' = Append(Rows, x)
<1>1. \A a, b \in Seq(Row) : a \o Append(b, x) = Append(a \o b, x)
  OBVIOUS
<1>2. list \o FlattenSeq(queue) \in Seq(Row)
  BY RowsType, ConcatProperties
<1>3. Rows' = (list \o FlattenSeq(queue)) \o Append(block, x)
  BY DEF Rows
<1> QED BY <1>1, <1>2, <1>3, RowsType DEF Rows

\* Pushing a block leaves the rows as they are.
LEMMA RowsPushed ==
  ASSUME TypeOK, Push
  PROVE  Rows' = Rows
<1> DEFINE flat == FlattenSeq(queue)
<1>1. Rows' = (list \o FlattenSeq(Append(queue, block))) \o <<>>
  BY DEF Push, Rows, ui
<1>2. FlattenSeq(Append(queue, block)) = flat \o block
  BY FlattenAppend DEF TypeOK
<1>3. flat \in Seq(Row) /\ list \in Seq(Row) /\ block \in Seq(Row)
  BY RowsType
<1> HIDE DEF flat
<1>4. list \o (flat \o block) = (list \o flat) \o block
  BY <1>3, Associative, SMTT(30)
<1>5. (list \o flat) \o block \in Seq(Row)
  BY <1>3
<1>6. ((list \o flat) \o block) \o <<>> = (list \o flat) \o block
  BY <1>5, ConcatEmptySeq
<1> QED BY <1>1, <1>2, <1>4, <1>6 DEF Rows, flat

\* So does moving a block to the list.
LEMMA RowsDrained ==
  ASSUME TypeOK, Drain
  PROVE  Rows' = Rows
<1> DEFINE flat == FlattenSeq(Tail(queue))
           first == Head(queue)
<1>1. Rows' = ((list \o first) \o flat) \o block
  BY DEF Drain, Rows, thread
<1>2. queue \in Seq(Seq(Row)) /\ queue # <<>>
  BY DEF TypeOK, Drain
<1>3. FlattenSeq(queue) = first \o flat
  BY <1>2, FlattenHeadTail
<1>4. first \in Seq(Row) /\ Tail(queue) \in Seq(Seq(Row))
  BY <1>2, HeadTailProperties
<1>5. flat \in Seq(Row) /\ list \in Seq(Row)
  BY <1>4, FlattenType, RowsType
<1> HIDE DEF flat, first
<1>6. (list \o first) \o flat = list \o (first \o flat)
  BY <1>4, <1>5, Associative, SMTT(30)
<1> QED BY <1>1, <1>3, <1>6 DEF Rows

\* The first separator of the buffer ends the line.
LEMMA ScanCuts ==
  ASSUME TypeOK, Scan
  PROVE  \E k \in from .. pos :
           /\ text[k] /\ \A m \in from .. k - 1 : ~text[m]
           /\ Rows' = Append(Rows, [from |-> from, to |-> k - 1]) /\ from' = k + 1
<1>0. from \in Nat \ {0} /\ pos \in Nat
  BY DEF TypeOK
<1>1. PICK k \in Separators :
        /\ \A m \in Separators : k <= m
        /\ block' = WithRow(block, k - 1) /\ from' = k + 1
  BY DEF Scan
<1>2. k \in from .. pos /\ text[k] /\ k - 1 \in Nat
  BY <1>0 DEF Separators
<1>3. ASSUME NEW m \in from .. k - 1 PROVE ~text[m]
  <2>1. m \in from .. pos /\ m < k
    BY <1>0, <1>2
  <2> QED BY <1>1, <2>1, <1>2 DEF Separators
<1>4. [from |-> from, to |-> k - 1] \in Row
  BY <1>0, <1>2 DEF Row
<1>5. Rows' = Append(Rows, [from |-> from, to |-> k - 1])
  BY <1>1, <1>4, RowsAppend DEF Scan, WithRow, ui
<1> QED BY <1>1, <1>2, <1>3, <1>5

-----------------------------------------------------------------------------
\* The parts of the invariant about rows, told of the rows.
LEMMA CutOf ==
  ASSUME NothingLost, RowsInv, main # "over"
  PROVE  Cut(text, Rows, from, pos)
BY DEF NothingLost, RowsInv, Cut, Abuts, Ends, Behind, EndOf

\* And back, for the state after a step.
LEMMA OfCut ==
  ASSUME (main # "over" => Cut(text, Rows, from, pos))', from' <= pos' + 1
  PROVE  NothingLost' /\ RowsInv'
BY DEF NothingLost, RowsInv, Cut, Abuts, Ends, Behind, EndOf

\* A step that cuts nothing leaves the rows cut as they were, although more
\* text may be written or read.
LEMMA CutStays ==
  ASSUME TypeOK, TypeOK', NothingLost, RowsInv,
         Rows' = Rows, from' = from, main' # "over" => main # "over",
         pos <= pos', Len(text) <= Len(text'),
         \A k \in 1 .. Len(text) : text'[k] = text[k]
  PROVE  NothingLost' /\ RowsInv'
<1>1. /\ text \in Seq(BOOLEAN) /\ text' \in Seq(BOOLEAN) /\ Rows \in Seq(Row)
      /\ from \in Nat \ {0} /\ pos \in 0 .. Len(text) /\ pos' \in Nat
  BY RowsType DEF TypeOK
<1>2. main # "over" => Cut(text', Rows', from', pos')
  <2> SUFFICES ASSUME main # "over" PROVE Cut(text', Rows, from, pos')
    OBVIOUS
  <2>1. Cut(text, Rows, from, pos)
    BY CutOf
  <2>2. \E t \in Seq(BOOLEAN), q \in Nat : t = text' /\ q = pos'
    BY <1>1
  <2>3. PICK t \in Seq(BOOLEAN), q \in Nat : t = text' /\ q = pos'
    BY <2>2
  <2>4. Cut(t, Rows, from, q)
    BY <1>1, <2>1, <2>3, CutGrows
  <2> QED BY <2>3, <2>4
<1>3. from' <= pos' + 1
  <2>1. \A f, p, q \in Nat : f <= p + 1 /\ p <= q => f <= q + 1
    OBVIOUS
  <2>2. from \in Nat /\ pos \in Nat /\ pos' \in Nat /\ from <= pos + 1
    BY <1>1 DEF RowsInv
  <2>3. from <= pos' + 1
    BY <2>1, <2>2
  <2> QED BY <2>3
<1> QED BY <1>2, <1>3, OfCut

\* A step that makes a row of the line in the buffer leaves the rows cut.
LEMMA CutAdded ==
  ASSUME TypeOK, NothingLost, RowsInv, main # "over",
         NEW e \in 0 .. pos, from <= e + 1, \A k \in from .. e : ~text[k],
         Rows' = Append(Rows, [from |-> from, to |-> e]),
         from' \in Nat, Abuts(text, e, from'), from' <= pos + 1,
         UNCHANGED <<text, pos>>
  PROVE  NothingLost' /\ RowsInv'
<1>1. /\ text \in Seq(BOOLEAN) /\ Rows \in Seq(Row)
      /\ from \in Nat \ {0} /\ pos \in 0 .. Len(text)
  BY RowsType DEF TypeOK
<1>2. Cut(text, Rows, from, pos)
  BY CutOf
<1>3. Cut(text, Append(Rows, [from |-> from, to |-> e]), from', pos)
  BY <1>1, <1>2, CutAdds
<1> QED BY <1>3, OfCut

\* No character is lost by any step.
LEMMA CutStep ==
  /\ TypeOK /\ TypeOK' /\ BufferInv /\ EndInv /\ NothingLost /\ RowsInv
  /\ [Next]_vars
  => NothingLost' /\ RowsInv'
<1> SUFFICES ASSUME TypeOK, TypeOK', BufferInv, EndInv, NothingLost, RowsInv, [Next]_vars
             PROVE  NothingLost' /\ RowsInv'
  OBVIOUS
<1> USE DEF user, thread, ui
<1>0. Len(text) \in Nat /\ pos \in Nat /\ from \in Nat \ {0} /\ pos <= Len(text)
  BY DEF TypeOK
<1> DEFINE Stays == /\ Rows' = Rows /\ from' = from /\ (main' # "over" => main # "over")
                    /\ pos <= pos' /\ Len(text) <= Len(text')
                    /\ \A k \in 1 .. Len(text) : text'[k] = text[k]
<1>1. ASSUME Stays PROVE NothingLost' /\ RowsInv'
  BY <1>1, CutStays
<1>2. ASSUME UNCHANGED <<list, queue, block>> PROVE Rows' = Rows
  BY <1>2 DEF Rows
<1>3. CASE \/ UNCHANGED vars \/ Close \/ Abort \/ ScanEnds \/ Signal \/ Quit
           \/ Woken \/ Drained \/ Reload \/ Finish
  <2>1. UNCHANGED <<list, queue, block, from, pos, text>> /\ (main' # "over" => main # "over")
    BY <1>3 DEF vars, Close, Abort, ScanEnds, Signal, Quit, Woken, Drained, Reload, Finish
  <2>2. Stays
    BY <1>0, <1>2, <2>1
  <2> QED BY <1>1, <2>2
<1>4. CASE Write
  <2>1. PICK separator \in BOOLEAN : text' = Append(text, separator)
    BY <1>4 DEF Write
  <2>2. Len(text') = Len(text) + 1 /\ \A k \in 1 .. Len(text) : text'[k] = text[k]
    BY <2>1 DEF TypeOK
  <2>3. UNCHANGED <<list, queue, block, from, pos, main>>
    BY <1>4 DEF Write
  <2>4. Stays
    BY <1>0, <1>2, <2>2, <2>3
  <2> QED BY <1>1, <2>4
<1>5. CASE Read
  <2>1. UNCHANGED <<list, queue, block, from, text, main>>
    BY <1>5 DEF Read
  <2>2. pos <= pos'
    BY <1>0, <1>5, DmenuReaderAssumption DEF Read
  <2>3. Stays
    BY <1>0, <1>2, <2>1, <2>2
  <2> QED BY <1>1, <2>3
<1>6. CASE Push
  <2>1. UNCHANGED <<list, from, pos, text, main>>
    BY <1>6 DEF Push
  <2>2. Stays
    BY <1>0, <1>6, <2>1, RowsPushed
  <2> QED BY <1>1, <2>2
<1>7. CASE Drain
  <2>1. UNCHANGED <<from, pos, text, main>>
    BY <1>7 DEF Drain
  <2>2. Stays
    BY <1>0, <1>7, <2>1, RowsDrained
  <2> QED BY <1>1, <2>2
<1>8. CASE Scan
  <2>1. PICK k \in from .. pos :
           /\ text[k] /\ \A m \in from .. k - 1 : ~text[m]
           /\ Rows' = Append(Rows, [from |-> from, to |-> k - 1]) /\ from' = k + 1
    BY <1>8, ScanCuts
  <2>2. main # "over" /\ UNCHANGED <<text, pos>>
    BY <1>8 DEF Scan, EndInv
  <2>3. k - 1 \in 0 .. pos /\ from <= (k - 1) + 1 /\ k + 1 <= pos + 1 /\ k + 1 \in Nat
    BY <1>0
  <2>4. Abuts(text, k - 1, k + 1)
    BY <1>0, <2>1 DEF Abuts
  <2> QED BY <2>1, <2>2, <2>3, <2>4, CutAdded
<1>9. CASE Timeout \/ EndOfInput
  <2>1. from' = pos + 1 /\ UNCHANGED <<text, pos, list, queue, main>> /\ pc = "select"
    BY <1>9 DEF Timeout, EndOfInput
  <2>2. CASE from <= pos
    <3>1. block' = Append(block, [from |-> from, to |-> pos])
      BY <1>9, <2>2 DEF Timeout, EndOfInput, WithRow
    <3>2. Rows' = Append(Rows, [from |-> from, to |-> pos])
      BY <1>0, <2>1, <3>1, RowsAppend DEF Row
    <3>3. \A k \in from .. pos : ~text[k]
      BY <2>1 DEF BufferInv, Separators
    <3>4. main # "over"
      BY <2>1 DEF EndInv
    <3> QED BY <1>0, <2>1, <2>2, <3>2, <3>3, <3>4, CutAdded DEF Abuts
  <2>3. CASE ~(from <= pos)
    <3>1. block' = block
      BY <1>9, <2>3 DEF Timeout, EndOfInput
    <3>2. from = pos + 1
      BY <1>0, <2>3 DEF RowsInv
    <3>3. Stays
      BY <1>0, <1>2, <2>1, <3>1, <3>2
    <3> QED BY <1>1, <3>3
  <2> QED BY <2>2, <2>3
<1>10. CASE Join
  <2>1. main' = "over" /\ UNCHANGED <<from, pos>>
    BY <1>10 DEF Join
  <2> QED BY <2>1 DEF NothingLost, RowsInv
<1> QED
  BY <1>3, <1>4, <1>5, <1>6, <1>7, <1>8, <1>9, <1>10 DEF Next, Program, Thread, Main

-----------------------------------------------------------------------------
\* A step of the thread or of the main loop leaves the separators of the buffer
\* where they are, unless it reads or cuts.
LEMMA BufferStep ==
  TypeOK /\ TypeOK' /\ RowsInv /\ BufferInv /\ EndInv /\ [Next]_vars => BufferInv'
<1> SUFFICES ASSUME TypeOK, TypeOK', RowsInv, BufferInv, EndInv, [Next]_vars
             PROVE  BufferInv'
  OBVIOUS
<1> USE DEF BufferInv, user, thread, ui
<1>0. Len(text) \in Nat /\ pos \in Nat /\ from \in Nat \ {0} /\ pos <= Len(text)
  BY DEF TypeOK
<1>1. ASSUME UNCHANGED <<text, pos, from>> PROVE Separators' = Separators
  BY <1>1 DEF Separators
<1>2. CASE UNCHANGED vars \/ Close \/ Woken \/ Drain \/ Drained \/ Reload \/ Finish \/ Join
  <2>1. UNCHANGED <<text, pos, from, pc, after>>
    BY <1>2 DEF vars, Close, Woken, Drain, Drained, Reload, Finish, Join
  <2> QED BY <1>1, <2>1
<1>3. CASE Write
  <2>1. UNCHANGED <<pos, from, pc, after>>
    BY <1>3 DEF Write
  <2>2. \A k \in from .. pos : text'[k] = text[k]
    BY <1>0, <1>3 DEF Write, TypeOK
  <2>3. Separators' = Separators
    BY <2>1, <2>2 DEF Separators
  <2> QED BY <2>1, <2>3
<1>4. CASE Abort \/ ScanEnds \/ Push \/ Signal \/ Quit
  <2>1. Separators' = Separators
    BY <1>1, <1>4 DEF Abort, ScanEnds, Push, Signal, Quit
  <2> QED BY <1>4, <2>1 DEF Abort, ScanEnds, Push, Signal, Quit
<1>5. CASE Read
  BY <1>5 DEF Read
<1>6. CASE Scan
  BY <1>6 DEF Scan
<1>7. CASE Timeout \/ EndOfInput
  <2>1. from' = pos + 1 /\ pos' = pos
    BY <1>7 DEF Timeout, EndOfInput
  <2>2. Separators' = {}
    BY <1>0, <2>1 DEF Separators
  <2> QED BY <2>2
<1> QED
  BY <1>2, <1>3, <1>4, <1>5, <1>6, <1>7 DEF Next, Program, Thread, Main

\* The thread ends when it is told to, or with the input and nothing left.
LEMMA EndStep ==
  TypeOK /\ BlocksInv /\ EndInv /\ [Next]_vars => EndInv'
<1> SUFFICES ASSUME TypeOK, BlocksInv, EndInv, [Next]_vars
             PROVE  EndInv'
  OBVIOUS
<1> USE DEF EndInv, user, thread, ui
<1>1. CASE UNCHANGED vars
  BY <1>1 DEF vars
<1>2. CASE Write \/ Close
  BY <1>2 DEF Write, Close
<1>3. CASE Abort \/ Read \/ ScanEnds
  BY <1>3 DEF Abort, Read, ScanEnds
<1>4. CASE Scan
  <2>1. pc' \in {"scan", "push"} /\ after' = "scan" /\ UNCHANGED <<stop, main>>
    BY <1>4 DEF Scan
  <2> QED BY <1>4, <2>1 DEF Scan
<1>5. CASE Timeout
  BY <1>5 DEF Timeout
<1>6. CASE EndOfInput
  <2>1. /\ eof' /\ pos' = Len(text') /\ from' = pos' + 1
        /\ pc' = (IF block' = <<>> THEN "end" ELSE "push")
        /\ pc = "select" /\ UNCHANGED <<stop, main>>
    BY <1>6 DEF EndOfInput
  <2> QED BY <2>1
<1>7. CASE Push
  BY <1>7 DEF Push
<1>8. CASE Signal
  BY <1>8 DEF Signal, BlocksInv, TypeOK
<1>9. CASE Quit
  BY <1>9 DEF Quit
<1>10. CASE Woken
  BY <1>10 DEF Woken
<1>11. CASE Drain \/ Drained \/ Reload
  BY <1>11 DEF Drain, Drained, Reload
<1>12. CASE Finish \/ Join
  BY <1>12 DEF Finish, Join
<1> QED
  BY <1>1, <1>2, <1>3, <1>4, <1>5, <1>6, <1>7, <1>8, <1>9, <1>10, <1>11, <1>12
  DEF Next, Program, Thread, Main

\* "q" does not overtake the blocks.
LEMMA WakeStep ==
  TypeOK /\ WakeInv /\ EndInv /\ [Next]_vars => WakeInv'
<1> SUFFICES ASSUME TypeOK, WakeInv, EndInv, [Next]_vars
             PROVE  WakeInv'
  OBVIOUS
<1> USE DEF WakeInv, user, thread, ui
<1>0. wake \in Seq({"r", "q"}) /\ Len(wake) \in Nat
  BY DEF TypeOK
<1>1. CASE \/ UNCHANGED vars \/ Write \/ Close \/ Abort \/ Read \/ ScanEnds
           \/ Timeout \/ EndOfInput \/ Reload \/ Finish
  BY <1>1
  DEF vars, Write, Close, Abort, Read, ScanEnds, Timeout, EndOfInput, Reload, Finish
<1>2. CASE Scan
  BY <1>2 DEF Scan
<1>3. CASE Push
  BY <1>3 DEF Push
<1>4. CASE Signal \/ Quit
  <2> DEFINE c == IF pc = "signal" THEN "r" ELSE "q"
  <2>1. /\ wake' = Append(wake, c) /\ c \in {"r", "q"} /\ pc # "done"
        /\ c = "q" => pc' = "done"
        /\ pc = "signal" \/ pc = "end"
        /\ UNCHANGED <<queue, loading, main>>
    BY <1>4 DEF Signal, Quit
  <2> HIDE DEF c
  <2>2. /\ Len(wake') = Len(wake) + 1 /\ wake'[Len(wake) + 1] = c
        /\ \A i \in 1 .. Len(wake) : wake'[i] = wake[i]
    BY <1>0, <2>1, AppendProperties
  <2>3. ASSUME NEW i \in 1 .. Len(wake'), wake'[i] = "q"
        PROVE  i = Len(wake') /\ pc' = "done"
    <3>1. i \in 1 .. Len(wake) \/ i = Len(wake) + 1
      BY <1>0, <2>2
    <3> QED BY <2>1, <2>2, <2>3, <3>1
  <2>4. ASSUME main' = "loop", queue' # <<>>
        PROVE  \E i \in 1 .. Len(wake') : wake'[i] = "r"
    <3>1. pc = "signal" \/ \E i \in 1 .. Len(wake) : wake[i] = "r"
      BY <2>1, <2>4
    <3>2. CASE pc = "signal"
      <4>1. c = "r" /\ Len(wake) + 1 \in 1 .. Len(wake')
        BY <1>0, <2>2, <3>2 DEF c
      <4> QED BY <2>2, <4>1
    <3>3. CASE \E i \in 1 .. Len(wake) : wake[i] = "r"
      BY <1>0, <2>2, <3>3
    <3> QED BY <3>1, <3>2, <3>3
  <2>5. loading'
    BY <2>1 DEF TypeOK
  <2> QED BY <2>3, <2>4, <2>5
<1>5. CASE Woken
  <2>1. /\ Len(wake') = Len(wake) - 1 /\ Len(wake) # 0
        /\ \A i \in 1 .. Len(wake') : wake'[i] = wake[i + 1]
        /\ wake[1] = Head(wake)
    BY <1>0, <1>5, HeadTailProperties, EmptySeq DEF Woken
  <2>2. ASSUME NEW i \in 1 .. Len(wake'), wake'[i] = "q"
        PROVE  i = Len(wake') /\ pc' = "done"
    <3>1. i + 1 \in 1 .. Len(wake) /\ wake[i + 1] = "q"
      BY <1>0, <2>1, <2>2
    <3>2. i + 1 = Len(wake) /\ pc = "done" /\ i \in Int
      BY <1>0, <3>1
    <3>3. i = Len(wake) - 1 /\ pc' = pc
      BY <1>0, <1>5, <3>2 DEF Woken
    <3> QED BY <2>1, <3>2, <3>3
  <2>3. CASE Head(wake) = "r"
    <3>1. main' = "drain" /\ UNCHANGED loading /\ loading
      BY <1>5, <2>3 DEF Woken, TypeOK
    <3> QED BY <2>2, <3>1
  <2>4. CASE Head(wake) = "q"
    <3>1. Len(wake) = 1 /\ pc = "done"
      BY <1>0, <2>1, <2>4
    <3>2. wake' = <<>>
      BY <1>0, <1>5, <3>1 DEF Woken
    <3>3. queue = <<>> \/ \E i \in 1 .. Len(wake) : wake[i] = "r"
      BY <1>5, <3>1 DEF Woken
    <3>4. queue' = <<>> /\ pc' = "done"
      BY <1>0, <1>5, <2>1, <2>4, <3>1, <3>3 DEF Woken
    <3> QED BY <2>2, <3>2, <3>4
  <2> QED BY <1>5, <2>3, <2>4 DEF Woken
<1>6. CASE Drain \/ Drained
  BY <1>6 DEF Drain, Drained
<1>7. CASE Join
  BY <1>7 DEF Join
<1> QED
  BY <1>1, <1>2, <1>3, <1>4, <1>5, <1>6, <1>7 DEF Next, Program, Thread, Main

\* Once the input is loaded, nothing is written, read or queued any more.
LEMMA LoadedStep ==
  /\ TypeOK /\ NothingLost /\ RowsInv /\ EndInv /\ WakeInv /\ LoadedIsComplete
  /\ [Next]_vars
  => LoadedIsComplete'
<1> SUFFICES ASSUME TypeOK, NothingLost, RowsInv, EndInv, WakeInv, LoadedIsComplete,
                    [Next]_vars, ~loading'
             PROVE  LoadedIsComplete'
  BY DEF LoadedIsComplete
<1> USE DEF user, thread, ui
<1>1. CASE ~loading
  <2>1. /\ eof /\ pc = "done" /\ wake = <<>> /\ queue = <<>> /\ pos = Len(text)
    BY <1>1 DEF LoadedIsComplete, WakeInv
  <2>2. UNCHANGED <<text, eof, pos, block, list, queue>>
    BY <2>1
    DEF Next, Program, Thread, Main, vars, Write, Close, Abort, Read, Scan, ScanEnds,
        Timeout, EndOfInput, Push, Signal, Quit, Woken, Drain, Drained, Reload, Finish, Join
  <2> QED BY <1>1, <2>2 DEF LoadedIsComplete
<1>2. CASE loading
  <2>1. Woken /\ Head(wake) = "q"
    BY <1>2
    DEF Next, Program, Thread, Main, vars, Write, Close, Abort, Read, Scan, ScanEnds,
        Timeout, EndOfInput, Push, Signal, Quit, Woken, Drain, Drained, Reload, Finish, Join
  <2>2. wake \in Seq({"r", "q"}) /\ wake # <<>> /\ Len(wake) \in Nat \ {0} /\ wake[1] = "q"
    BY <2>1, EmptySeq DEF TypeOK, Woken
  <2>3. Len(wake) = 1 /\ pc = "done"
    <3>1. 1 \in 1 .. Len(wake)
      BY <2>2
    <3> QED BY <2>2, <3>1 DEF WakeInv
  <2>4. main = "loop" /\ UNCHANGED <<text, eof, pos, block, list, queue>>
    BY <2>1 DEF Woken
  <2>5. queue = <<>>
    BY <2>2, <2>3, <2>4 DEF WakeInv
  <2>6. eof /\ pos = Len(text) /\ from = pos + 1 /\ block = <<>>
    BY <2>3, <2>4 DEF EndInv
  <2>7. Rows = list
    <3>1. Rows = (list \o <<>>) \o <<>> /\ list \in Seq(Row)
      BY <2>5, <2>6, FlattenEmpty, RowsType DEF Rows
    <3> QED BY <3>1, ConcatEmptySeq
  <2>8. Cut(text, list, pos + 1, pos)
    BY <2>4, <2>6, <2>7, CutOf
  <2>9. \A k \in 1 .. pos : ~text[k] => \E i \in 1 .. Len(list) : k \in list[i].from .. list[i].to
    BY <2>8, CutCovers DEF TypeOK
  <2>10. \A k \in DOMAIN text :
           text[k] \/ \E i \in DOMAIN list : k \in list[i].from .. list[i].to
    <3>1. DOMAIN text = 1 .. pos /\ DOMAIN list = 1 .. Len(list)
      BY <2>6 DEF TypeOK
    <3> QED BY <2>9, <3>1
  <2> QED BY <2>4, <2>5, <2>6, <2>10 DEF LoadedIsComplete
<1> QED BY <1>1, <1>2 DEF TypeOK

-----------------------------------------------------------------------------
\* The invariant holds in the beginning ...
LEMMA InitIInv == Init => IInv
<1> SUFFICES ASSUME Init PROVE IInv
  OBVIOUS
<1>1. TypeOK
  BY InitType
<1>2. Rows = <<>> /\ Len(Rows) = 0
  <2>1. <<>> \o FlattenSeq(<<>>) \o <<>> = <<>>
    BY FlattenEmpty
  <2> QED BY <2>1 DEF Init, Rows
<1>3. from = 1 /\ pos = 0 /\ text = <<>>
  BY DEF Init
<1>4. NothingLost /\ RowsInv
  BY <1>2, <1>3 DEF NothingLost, RowsInv, Behind, EndOf
<1>5. BufferInv
  BY <1>3 DEF BufferInv, Separators
<1>6. BlocksInv /\ BuffersFit
  BY DmenuReaderAssumption DEF Init, BlocksInv, BuffersFit
<1>7. EndInv
  BY DEF Init, EndInv
<1>8. WakeInv /\ LoadedIsComplete
  BY DEF Init, WakeInv, LoadedIsComplete
<1> QED BY <1>1, <1>4, <1>5, <1>6, <1>7, <1>8 DEF IInv

\* ... and after every step.
LEMMA NextIInv == IInv /\ [Next]_vars => IInv'
<1> SUFFICES ASSUME IInv, [Next]_vars PROVE IInv'
  OBVIOUS
<1>1. TypeOK'
  BY TypeStep DEF IInv
<1>2. NothingLost' /\ RowsInv'
  BY <1>1, CutStep DEF IInv
<1>3. BufferInv'
  BY <1>1, BufferStep DEF IInv
<1>4. BlocksInv' /\ BuffersFit'
  BY BuffersStep DEF IInv
<1>5. EndInv' /\ WakeInv'
  BY EndStep, WakeStep DEF IInv
<1>6. LoadedIsComplete'
  BY LoadedStep DEF IInv
<1> QED BY <1>1, <1>2, <1>3, <1>4, <1>5, <1>6 DEF IInv

\* The inductive invariant holds in every reachable state.
LEMMA Invariance == Spec => []IInv
BY InitIInv, NextIInv, PTL DEF Spec

\* No character that the program writes is lost, doubled or reordered on its
\* way from the pipe to the list, however the reads cut the input, the pauses
\* cut the lines and the main loop drains the queue (dmenu.c:91-377).
THEOREM NoCharacterIsLost == Spec => []NothingLost
<1>1. IInv => NothingLost
  BY DEF IInv
<1> QED BY <1>1, Invariance, PTL

\* When "Loading.." disappears, every row of the input is in the list: the
\* command that ends the input never overtakes a block (dmenu.c:113-146).
THEOREM LoadedMeansComplete == Spec => []LoadedIsComplete
<1>1. IInv => LoadedIsComplete
  BY DEF IInv
<1> QED BY <1>1, Invariance, PTL
=============================================================================
