------------------------------ MODULE History ------------------------------
(***************************************************************************)
(* Several rofi processes, the file that holds the pid of the one that     *)
(* runs (helper.c, create_pid_file) and the history they all write         *)
(* (history.c): read, truncated, written, with the process dead at any     *)
(* point when another one is told to replace it (SIGTERM is not caught).   *)
(***************************************************************************)
EXTENDS HistoryFile

CONSTANTS
  Rofi,         \* processes
  Replacing,    \* those started with -replace
  Launchable,   \* what is launched
  Ignored,      \* what begins with one of config.ignored_prefixes
  MaxCount      \* bound: the counts that are still raised

ASSUME HistoryAssumption ==
  /\ "none" \notin Rofi /\ "empty" \notin Rofi /\ Replacing \subseteq Rofi
  /\ Launchable # {} /\ MaxCount \in Nat /\ MaxHistory \in Nat

VARIABLES
  at,           \* where each process is
  holder,       \* the process that has the lock on the pid file
  pidIn,        \* the pid the file has, "empty" when it has none
  hist,         \* the history file
  list, entry,  \* what each process read and what it will write for
  due           \* what the file would have if every write were one step

hvars == <<at, holder, pidIn, hist, list, entry, due>>

Running == {"run", "use", "cutuse", "remove", "cutremove", "end"}

HistoryInit ==
  /\ at = [p \in Rofi |-> "off"] /\ holder = "none" /\ pidIn = "empty"
  /\ hist = <<>> /\ list = [p \in Rofi |-> <<>>]
  /\ entry \in [Rofi -> {CHOOSE e \in Launchable : TRUE}] /\ due = <<>>

(* A pid is not given to a new process while the file names it.            *)
Start(p) == /\ at[p] = "off" /\ pidIn # p
            /\ at' = [at EXCEPT ![p] = "open"]
            /\ UNCHANGED <<holder, pidIn, hist, list, entry, due>>

Go(p, to) == /\ at' = [at EXCEPT ![p] = to]
             /\ UNCHANGED <<hist, list, entry, due>>

(* create_pid_file: "open" may kill, "again" is the second call.           *)
TryLock(p) ==
  /\ at[p] \in {"open", "again"} /\ UNCHANGED pidIn
  /\ \/ holder = "none" /\ holder' = p /\ Go(p, "locked")
     \/ /\ holder # "none" /\ UNCHANGED holder
        /\ Go(p, IF at[p] = "open" /\ p \in Replacing THEN "busy" ELSE "off")

(* The pid that is read may be the one of a process that is long gone.     *)
KillRunning(p) ==
  /\ at[p] = "busy" /\ UNCHANGED <<pidIn, hist, list, entry>>
  /\ IF pidIn = "empty" THEN at' = [at EXCEPT ![p] = "again"] /\ UNCHANGED <<holder, due>>
     ELSE /\ at' = [at EXCEPT ![p] = "spin", ![pidIn] = "off"]
          /\ holder' = IF holder = pidIn THEN "none" ELSE holder
          /\ due' = IF at[pidIn] \in {"cutuse", "cutremove"} THEN <<>> ELSE due

Spin(p) == /\ at[p] = "spin" /\ holder = "none" /\ holder' = p
           /\ UNCHANGED pidIn /\ Go(p, "close")

(* Mutant: the lock that was waited for is believed to be kept. *)
CloseOnly(p) == /\ at[p] = "close" /\ holder' = "none"
                /\ UNCHANGED pidIn /\ Go(p, "locked")

(* remove_pid_file: closing gives the lock away.                           *)
Close(p) == /\ at[p] = "close" /\ holder' = "none"
            /\ UNCHANGED pidIn /\ Go(p, "again")

WritePid(p) ==
  /\ \/ at[p] = "locked" /\ pidIn' = "empty" /\ Go(p, "cleared")
     \/ at[p] = "cleared" /\ pidIn' = p /\ Go(p, "run")
  /\ UNCHANGED holder

(* The file is read and closed before it is opened again for writing.      *)
Read(p, e, next) ==
  /\ entry' = [entry EXCEPT ![p] = e] /\ list' = [list EXCEPT ![p] = hist]
  /\ at' = [at EXCEPT ![p] = next] /\ UNCHANGED <<holder, pidIn, hist, due>>

(* history_set: after it the program ends.  history_remove: it goes on.    *)
ReadSet(p, e) ==
  /\ at[p] = "run" /\ (\A i \in DOMAIN hist : hist[i].count < MaxCount)
  /\ Read(p, e, IF e \in Ignored THEN "end" ELSE "use")
ReadRemove(p, e) == at[p] = "run" /\ HasName(hist, e) /\ Read(p, e, "remove")
Truncate(p) ==
  /\ at[p] \in {"use", "remove"} /\ hist' = <<>>
  /\ at' = [at EXCEPT ![p] = IF @ = "use" THEN "cutuse" ELSE "cutremove"]
  /\ UNCHANGED <<holder, pidIn, list, entry, due>>
Write(p) ==
  /\ \/ /\ at[p] = "cutuse" /\ hist' = AfterUse(list[p], entry[p])
        /\ due' = AfterUse(due, entry[p]) /\ at' = [at EXCEPT ![p] = "end"]
     \/ /\ at[p] = "cutremove" /\ hist' = AfterRemoval(list[p], entry[p])
        /\ due' = AfterRemoval(due, entry[p]) /\ at' = [at EXCEPT ![p] = "run"]
  /\ UNCHANGED <<holder, pidIn, list, entry>>

(* teardown: the file is closed, its pid stays in it.                      *)
Quit(p) == /\ at[p] \in {"run", "end"} /\ holder' = "none" /\ UNCHANGED pidIn
           /\ Go(p, "off")

HistoryNext ==
  \E p \in Rofi :
    \/ Start(p) \/ TryLock(p) \/ KillRunning(p) \/ Spin(p) \/ Close(p) \/ WritePid(p)
    \/ (\E e \in Launchable : ReadSet(p, e) \/ ReadRemove(p, e))
    \/ Truncate(p) \/ Write(p) \/ Quit(p)

HistorySpec == HistoryInit /\ [][HistoryNext]_hvars

(* The variables have their types.                                         *)
LockTypeOK ==
  /\ at \in [Rofi -> Running \cup {"off", "open", "again", "busy", "spin", "close",
                                   "locked", "cleared"}]
  /\ holder \in Rofi \cup {"none"} /\ pidIn \in Rofi \cup {"empty"}
  /\ entry \in [Rofi -> Launchable] /\ DOMAIN list = Rofi
HistoryTypeOK ==
  /\ LockTypeOK
  /\ \A l \in {hist, due} \cup {list[p] : p \in Rofi} :
           /\ Len(l) <= MaxHistory
           /\ \A i \in DOMAIN l : l[i].name \in Launchable /\ l[i].count \in 0 .. MaxCount + 1

(* Whatever is killed and replaced, the rofi that shows its window is the  *)
(* only one, and its writes to the history are not lost: the file has what *)
(* the uses and removals make of it one after the other, and is emptied    *)
(* only when a process is killed while it writes.                          *)
OneRofiWrites ==
  /\ \A p \in Rofi : at[p] \in Running => holder = p
  /\ (\A p \in Rofi : at[p] \notin {"cutuse", "cutremove"}) => hist = due

(* What OneRofiWrites rests on: from the lock to the end a process has the *)
(* lock; what it read is what the file would have, to the moment it writes *)
(* or dies; and the file is empty while it is written.                     *)
Writing == {p \in Rofi : at[p] \in {"cutuse", "cutremove"}}
LockIsHeld ==
  \A p \in Rofi : at[p] \in Running \cup {"locked", "cleared", "close"} => holder = p
ReadIsDue ==
  /\ \A p \in Rofi : at[p] \in {"use", "remove", "cutuse", "cutremove"} => list[p] = due
  /\ hist = IF Writing = {} THEN due ELSE <<>>
LockInv == LockTypeOK /\ LockIsHeld /\ ReadIsDue

(* What the history keeps, and what was read of it, too: with the number   *)
(* of its lines, their order and their names, that the last of them was    *)
(* used once more than what fell out of the list, or less.                 *)
Line == [count : Nat, name : Launchable]
Kept(l) ==
  /\ l \in Seq(Line) /\ Len(l) <= MaxHistory
  /\ \A i, j \in 1 .. Len(l) : i < j => l[i].name # l[j].name /\ l[i].count >= l[j].count
  /\ l # <<>> => l[Len(l)].count <= 1
FilesInv == Kept(hist) /\ Kept(due) /\ \A p \in Rofi : Kept(list[p])

(* The history is ordered by use, without doubles and no longer than the   *)
(* size; and what is launched twice in a row is in it, though the first    *)
(* time the last place may be taken.                                       *)
HistoryKeepsUse ==
  /\ Len(hist) <= MaxHistory /\ Cardinality(ToSet(NamesOf(hist))) = Len(hist)
  /\ \A i \in 1 .. Len(hist) - 1 : hist[i].count >= hist[i + 1].count
  /\ MaxHistory > 0 => \A e \in Launchable : HasName(AfterUse(AfterUse(hist, e), e), e)
=============================================================================
