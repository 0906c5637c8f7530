----------------------------- MODULE DmenuReader -----------------------------
(***************************************************************************)
(* The asynchronous dmenu mode (source/modes/dmenu.c): a thread splits the *)
(* standard input into rows, collects them in blocks and hands the blocks  *)
(* to the main loop through a queue; a pipe wakes the main loop ("r") and  *)
(* tells it that the input has ended ("q"), a second pipe tells the thread *)
(* to stop.  The program at the other end of the input may write a line in *)
(* pieces and pause as long as it likes.                                   *)
(*                                                                         *)
(* The input is the sequence text of Booleans: is the character the        *)
(* separator?  A row is the slice from .. to of the input it was cut from. *)
(***************************************************************************)
EXTENDS Integers, Sequences, SequencesExt

CONSTANTS
  BlockSize,  \* BLOCK_LINES_SIZE (2048)
  ChunkSize,  \* characters per read (1023)
  MinRoom,    \* entries allocated at first (4096)
  MaxText     \* bound: characters the program writes

ASSUME DmenuReaderAssumption ==
  /\ BlockSize \in Nat \ {0} /\ ChunkSize \in Nat \ {0}
  /\ MinRoom \in Nat /\ MinRoom >= BlockSize
  /\ MaxText \in Nat

VARIABLES
  text, eof,  \* what the program wrote, and has it closed the pipe?
  pos,        \* characters the thread has read
  from,       \* first character of the line in its buffer
  block,      \* rows not pushed yet (NULL is the empty block)
  pc, after,  \* where the thread is, and goes to after it pushed a block
  queue,      \* async_queue
  wake,       \* pipefd2: commands for the main loop
  stop,       \* pipefd: the thread is asked to stop
  list,       \* cmd_list
  room,       \* cmd_list_real_length
  changed,    \* the drain has found a block
  reload,     \* rofi_view_reload was called, the view has not answered
  shown,      \* rows the view knows of
  loading,    \* the overlay says "Loading.."
  main        \* where the main loop is

thread == <<pos, from, block, pc, after>>
user == <<text, eof>>
ui == <<list, room, changed, reload, shown, loading, main, stop>>
vars == <<user, thread, queue, wake, ui>>

Row == [from : Nat, to : Nat]
Larger(m, n) == IF m >= n THEN m ELSE n

\* read_add_block: the slice of the buffer up to character k is a row.
WithRow(b, k) == Append(b, [from |-> from, to |-> k])

Init ==
  /\ text = <<>> /\ eof = FALSE
  /\ pos = 0 /\ from = 1 /\ block = <<>> /\ pc = "select" /\ after = "select"
  /\ queue = <<>> /\ wake = <<>> /\ stop = FALSE
  /\ list = <<>> /\ room = 0 /\ changed = FALSE /\ reload = FALSE
  /\ shown = 0 /\ loading = TRUE /\ main = "loop"

-----------------------------------------------------------------------------
\* The program.
Write ==
  /\ ~eof /\ Len(text) < MaxText
  /\ \E separator \in BOOLEAN : text' = Append(text, separator)
  /\ UNCHANGED <<eof, thread, queue, wake, ui>>

Close ==
  /\ ~eof /\ eof' = TRUE
  /\ UNCHANGED <<text, thread, queue, wake, ui>>

-----------------------------------------------------------------------------
\* The thread.  Mutant: it looks for the stop only when there is no input.
AbortWhenClosed ==
  /\ pc = "select" /\ stop /\ eof
  /\ pc' = "end"
  /\ UNCHANGED <<user, pos, from, block, after, queue, wake, ui>>

\* select finds the pipe of the main loop readable: what is collected is lost.
Abort ==
  /\ pc = "select" /\ stop
  /\ pc' = "end"
  /\ UNCHANGED <<user, pos, from, block, after, queue, wake, ui>>

\* Mutant: the size of the buffer is taken for what was read.
ReadWhole ==
  /\ pc = "select" /\ ~stop /\ pos < Len(text)
  /\ pos' = pos + ChunkSize
  /\ pc' = "scan"
  /\ UNCHANGED <<user, from, block, after, queue, wake, ui>>

\* There is input: one read.
Read ==
  /\ pc = "select" /\ ~stop /\ pos < Len(text)
  /\ pos' = IF pos + ChunkSize <= Len(text) THEN pos + ChunkSize ELSE Len(text)
  /\ pc' = "scan"
  /\ UNCHANGED <<user, from, block, after, queue, wake, ui>>

\* The separators in the buffer.
Separators == {k \in from .. pos : text[k]}

\* Mutant: a block is pushed when it is old enough, however many rows it has.
ScanAge ==
  /\ pc = "scan" /\ Separators # {}
  /\ \E k \in Separators :
       /\ \A m \in Separators : k <= m
       /\ block' = WithRow(block, k - 1) /\ from' = k + 1
  /\ pc' \in {"scan", "push"} /\ after' = "scan"
  /\ UNCHANGED <<user, pos, queue, wake, ui>>

\* The first line of the buffer becomes a row.  The block is pushed when it is
\* full, or 0.1 seconds old.
Scan ==
  /\ pc = "scan" /\ Separators # {}
  /\ \E k \in Separators :
       /\ \A m \in Separators : k <= m
       /\ block' = WithRow(block, k - 1) /\ from' = k + 1
  /\ pc' \in IF Len(block') = BlockSize THEN {"push"} ELSE {"scan", "push"}
  /\ after' = "scan"
  /\ UNCHANGED <<user, pos, queue, wake, ui>>

\* No separator is left: the rest stays in the buffer.
ScanEnds ==
  /\ pc = "scan" /\ Separators = {}
  /\ pc' = "select"
  /\ UNCHANGED <<user, pos, from, block, after, queue, wake, ui>>

\* Mutant: the timeout pushes whole lines only.
TimeoutWholeLines ==
  /\ pc = "select" /\ ~stop /\ pos = Len(text) /\ ~eof /\ block # <<>>
  /\ pc' = "push" /\ after' = "select"
  /\ UNCHANGED <<user, pos, from, block, queue, wake, ui>>

\* Mutant: the buffer is not emptied.
TimeoutKeeps ==
  /\ pc = "select" /\ ~stop /\ pos = Len(text) /\ ~eof
  /\ from <= pos \/ block # <<>>
  /\ block' = IF from <= pos THEN WithRow(block, pos) ELSE block
  /\ pc' = "push" /\ after' = "select"
  /\ UNCHANGED <<user, pos, from, queue, wake, ui>>

\* 0.25 seconds without input: what is in the buffer becomes a row.
Timeout ==
  /\ pc = "select" /\ ~stop /\ pos = Len(text) /\ ~eof
  /\ from <= pos \/ block # <<>>
  /\ block' = IF from <= pos THEN WithRow(block, pos) ELSE block
  /\ from' = pos + 1
  /\ pc' = "push" /\ after' = "select"
  /\ UNCHANGED <<user, pos, queue, wake, ui>>

\* The end of the input: the rest of the buffer is a row, too.
EndOfInput ==
  /\ pc = "select" /\ ~stop /\ pos = Len(text) /\ eof
  /\ block' = IF from <= pos THEN WithRow(block, pos) ELSE block
  /\ from' = pos + 1
  /\ pc' = IF block' = <<>> THEN "end" ELSE "push"
  /\ after' = "end"
  /\ UNCHANGED <<user, pos, queue, wake, ui>>

\* Mutant: the main loop is not told of the block.
PushQuietly ==
  /\ pc = "push"
  /\ queue' = Append(queue, block) /\ block' = <<>> /\ pc' = after
  /\ UNCHANGED <<user, pos, from, after, wake, ui>>

Push ==
  /\ pc = "push"
  /\ queue' = Append(queue, block) /\ block' = <<>> /\ pc' = "signal"
  /\ UNCHANGED <<user, pos, from, after, wake, ui>>

Signal ==
  /\ pc = "signal"
  /\ wake' = Append(wake, "r") /\ pc' = after
  /\ UNCHANGED <<user, pos, from, block, after, queue, ui>>

Quit ==
  /\ pc = "end"
  /\ wake' = Append(wake, "q") /\ pc' = "done"
  /\ UNCHANGED <<user, pos, from, block, after, queue, ui>>

-----------------------------------------------------------------------------
\* The main loop: dmenu_async_read_proc takes one command from the pipe.
Woken ==
  /\ main = "loop" /\ wake # <<>>
  /\ wake' = Tail(wake)
  /\ \/ /\ Head(wake) = "r"
        /\ main' = "drain" /\ changed' = FALSE /\ UNCHANGED loading
     \/ /\ Head(wake) = "q"
        /\ loading' = FALSE /\ UNCHANGED <<main, changed>>
  /\ UNCHANGED <<user, thread, queue, list, room, reload, shown, stop>>

\* The room for n entries: at least twice what there was.
Grown(n) == IF room < n THEN Larger(2 * room, MinRoom) ELSE room

\* It empties the queue, to which the thread may go on pushing.
Drain ==
  /\ main = "drain" /\ queue # <<>>
  /\ queue' = Tail(queue)
  /\ room' = Grown(Len(list) + Len(Head(queue)))
  /\ list' = list \o Head(queue)
  /\ changed' = TRUE
  /\ UNCHANGED <<user, thread, wake, reload, shown, loading, main, stop>>

Drained ==
  /\ main = "drain" /\ queue = <<>>
  /\ main' = "loop" /\ reload' = (reload \/ changed)
  /\ UNCHANGED <<user, thread, queue, wake, list, room, changed, shown, loading, stop>>

\* The view loads the rows again.
Reload ==
  /\ main = "loop" /\ reload
  /\ shown' = Len(list) /\ reload' = FALSE
  /\ UNCHANGED <<user, thread, queue, wake, list, room, changed, loading, main, stop>>

\* dmenu_finish: the thread is told to stop, and waited for.
Finish ==
  /\ main = "loop"
  /\ stop' = TRUE /\ main' = "join"
  /\ UNCHANGED <<user, thread, queue, wake, list, room, changed, reload, shown, loading>>

Join ==
  /\ main = "join" /\ pc = "done"
  /\ queue' = <<>> /\ main' = "over"
  /\ UNCHANGED <<user, thread, wake, list, room, changed, reload, shown, loading, stop>>

-----------------------------------------------------------------------------
Program == Write \/ Close

\* Not here: a select that fails, which a signal may cause (SIGINT, that ends
\* the main loop too).  The thread gives up then, as when it is asked to stop.
Thread ==
  \/ Abort \/ Read \/ Scan \/ ScanEnds \/ Timeout \/ EndOfInput
  \/ Push \/ Signal \/ Quit
Main == Woken \/ Drain \/ Drained \/ Reload \/ Finish \/ Join

Next == Program \/ Thread \/ Main

\* The thread and the sources of the main loop are scheduled.  The program
\* need not write, and the user need not accept a row.
Fairness ==
  /\ WF_vars(Thread)
  /\ WF_vars(Woken) /\ WF_vars(Drain \/ Drained) /\ WF_vars(Reload) /\ WF_vars(Join)

Spec == Init /\ [][Next]_vars /\ Fairness

-----------------------------------------------------------------------------
\* The variables have their types.
TypeOK ==
  /\ text \in Seq(BOOLEAN) /\ eof \in BOOLEAN
  /\ pos \in 0 .. Len(text) /\ from \in Nat \ {0}
  /\ block \in Seq(Row) /\ queue \in Seq(Seq(Row)) /\ list \in Seq(Row)
  /\ pc \in {"select", "scan", "push", "signal", "end", "done"}
  /\ after \in {"select", "scan", "end"}
  /\ wake \in Seq({"r", "q"}) /\ stop \in BOOLEAN
  /\ room \in Nat /\ changed \in BOOLEAN /\ reload \in BOOLEAN
  /\ shown \in 0 .. Len(list) /\ loading \in BOOLEAN
  /\ main \in {"loop", "drain", "join", "over"}

\* The rows that were cut, wherever they are on their way.
Rows == list \o FlattenSeq(queue) \o block

\* No character is lost, doubled or reordered on the way from the input to the
\* list: each row begins behind the one before it, but for one separator, no
\* row holds a separator, and the buffer goes on where the last row ends.
Behind(end, start) == start = end + 1 \/ (start = end + 2 /\ text[end + 1])
EndOf(i) == IF i = 0 THEN 0 ELSE Rows[i].to
NothingLost ==
  main # "over" =>
    /\ \A i \in 1 .. Len(Rows) : Behind(EndOf(i - 1), Rows[i].from)
    /\ Behind(EndOf(Len(Rows)), from)
    /\ \A i \in 1 .. Len(Rows) : \A k \in Rows[i].from .. Rows[i].to : ~text[k]

\* When the overlay says that the input is loaded, it is: the command that
\* ends it never overtakes a block.
LoadedIsComplete ==
  ~loading =>
    /\ eof /\ pos = Len(text) /\ queue = <<>> /\ block = <<>>
    /\ \A k \in DOMAIN text :
         text[k] \/ \E i \in DOMAIN list : k \in list[i].from .. list[i].to

\* No more than BlockSize rows are collected, the values of a block, and the list
\* is copied into memory that was allocated: growing it once is enough for any block.
BuffersFit == Len(block) <= BlockSize /\ Len(list) <= room

\* Why they hold.  A row lies in what was read, and what is left of the buffer
\* begins behind it.
RowsInv ==
  /\ from <= pos + 1
  /\ main # "over" =>
       \A i \in 1 .. Len(Rows) : Rows[i].from <= Rows[i].to + 1 /\ Rows[i].to <= pos

\* The buffer holds a separator only while it is being split.
BufferInv ==
  pc = "scan" \/ (pc \in {"push", "signal"} /\ after = "scan") \/ Separators = {}

\* A block is pushed as soon as it is full, and the list had room for a block
\* from the start.
BlocksInv ==
  /\ pc \in {"select", "scan"} => Len(block) < BlockSize
  /\ pc = "signal" => block = <<>>
  /\ \A i \in 1 .. Len(queue) : Len(queue[i]) <= BlockSize
  /\ room = 0 \/ room >= MinRoom

\* Unless it is told to stop, the thread ends with the input.
EndInv ==
  /\ stop <=> main \in {"join", "over"}
  /\ main = "over" => pc = "done"
  /\ pc \in {"push", "signal"} /\ after = "end" =>
       eof /\ pos = Len(text) /\ from = pos + 1
  /\ pc \in {"end", "done"} /\ ~stop =>
       eof /\ pos = Len(text) /\ from = pos + 1 /\ block = <<>>

\* "q" is the last command, and a block that is queued has its "r" before it.
WakeInv ==
  /\ \A i \in 1 .. Len(wake) : wake[i] = "q" => i = Len(wake) /\ pc = "done"
  /\ main = "loop" /\ queue # <<>> =>
       pc = "signal" \/ \E i \in 1 .. Len(wake) : wake[i] = "r"
  /\ ~loading => pc = "done" /\ wake = <<>>

IInv ==
  /\ TypeOK /\ NothingLost /\ RowsInv /\ BufferInv /\ BlocksInv /\ BuffersFit
  /\ EndInv /\ WakeInv /\ LoadedIsComplete

\* Every character is shown in the end, the last of an unfinished line too,
\* while the program does not write and does not close the pipe.
Shows(k) == text[k] \/ \E i \in 1 .. shown : k \in list[i].from .. list[i].to
AllShown == \A k \in 1 .. MaxText :
  k \in DOMAIN text ~> main \in {"join", "over"} \/ (k \in DOMAIN text /\ Shows(k))

\* The user interface is never stuck in g_thread_join: the thread stops,
\* although the program keeps the pipe open.
JoinReturns == main = "join" ~> main = "over"
=============================================================================
