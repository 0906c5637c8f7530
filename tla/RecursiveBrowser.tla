-------------------------- MODULE RecursiveBrowser --------------------------
(***************************************************************************)
(* The recursive file browser (modes/recursivebrowser.c): a thread walks   *)
(* the directories breadth first and pushes what it finds into a queue; a  *)
(* byte in a pipe asks the main loop to empty the queue into the rows.     *)
(* Directories are named by their paths; a link names the directory its    *)
(* text is taken for, which is relative to where rofi runs, not to the     *)
(* directory of the link.                                                  *)
(***************************************************************************)
EXTENDS Integers, Sequences, SequencesExt, FiniteSets

CONSTANTS
  Contents,     \* path -> what readdir returns: records of kind, name and to
  RootDir,      \* pd->current_dir
  HashOf,       \* path -> its g_str_hash and first four bytes
  QueueMax,     \* 10000 in the code: from here on each file wakes the loop
  PipeSize      \* bytes the pipe takes

VARIABLES
  scan, visited,        \* dirs_to_scan, dirs_scanned
  dir, left,            \* the directory that is read, the entries left of it
  found,                \* async_queue
  wake,                 \* the bytes in the pipe
  reader,               \* "scan", "wake", "lastr", "lastq" or "done"
  endThread,            \* pd->end_thread
  loop,                 \* "idle", "busy", "join" or "gone": the main loop
  files                 \* pd->array

rvars == <<scan, visited, dir, left, found, wake, reader, endThread, loop, files>>

IsFile(e) == e.kind \in {"file", "filelink"}
IsDir(e) == e.kind \in {"dir", "dirlink"}
EntriesOf(d) == IF d \in DOMAIN Contents THEN ToSet(Contents[d]) ELSE {}
LeadsTo(ds) == {e.to : e \in {x \in UNION {EntriesOf(d) : d \in ds} : IsDir(x)}}
Dirs == {RootDir} \cup LeadsTo(DOMAIN Contents)

(* readdir names an entry of a directory once; no directory has the name   *)
(* that stands for none.                                                   *)
Entry == [kind : {"file", "filelink", "dir", "dirlink", "filtered", "device", "untold"},
          name : STRING, to : STRING]
RecursiveBrowserAssumption ==
  /\ Contents \in [DOMAIN Contents -> Seq(Entry)]
  /\ \A d \in DOMAIN Contents : \A i, j \in DOMAIN Contents[d] :
       i # j => Contents[d][i].name # Contents[d][j].name
  /\ DOMAIN Contents \subseteq STRING \ {"none"} /\ RootDir \in STRING
  /\ Dirs \subseteq DOMAIN HashOf /\ QueueMax \in Nat /\ PipeSize \in Nat \ {0}
ASSUME RecursiveBrowserAssumption

RecursiveInit ==
  /\ scan = <<RootDir>> /\ visited = {} /\ dir = "none" /\ left = <<>>
  /\ found = <<>> /\ wake = <<>> /\ reader = "scan" /\ endThread = FALSE
  /\ loop = "idle" /\ files = <<>>

(* dirs_scanned compares its strings by their hashes and, with g_int_equal,*)
(* as integers: two paths that agree in both are one to it.                *)
Seen(d) == \E v \in visited : HashOf[v] = HashOf[d]

(* Mutant: a directory that was read is read again. *)
OpenDirAgain ==
  /\ reader = "scan" /\ dir = "none" /\ scan # <<>>
  /\ scan' = Tail(scan) /\ visited' = visited \cup {Head(scan)} /\ dir' = Head(scan)
  /\ left' = IF Head(scan) \in DOMAIN Contents THEN Contents[Head(scan)] ELSE <<>>
  /\ UNCHANGED <<found, wake, reader, endThread, loop, files>>

(* A path that was seen is dropped; what cannot be opened has no entries.  *)
OpenDir ==
  /\ reader = "scan" /\ dir = "none" /\ scan # <<>>
  /\ scan' = Tail(scan)
  /\ IF Seen(Head(scan)) THEN UNCHANGED <<visited, dir, left>>
     ELSE /\ visited' = visited \cup {Head(scan)} /\ dir' = Head(scan)
          /\ left' = IF Head(scan) \in DOMAIN Contents THEN Contents[Head(scan)] ELSE <<>>
  /\ UNCHANGED <<found, wake, reader, endThread, loop, files>>

CloseDir ==
  /\ reader = "scan" /\ dir # "none" /\ (left = <<>> \/ endThread)
  /\ dir' = "none" /\ left' = <<>>
  /\ UNCHANGED <<scan, visited, found, wake, reader, endThread, loop, files>>

Reading == reader = "scan" /\ dir # "none" /\ left # <<>> /\ ~endThread
(* Of an entry of a type that readdir does not tell, a directory is taken  *)
(* for a link, has no text to follow, and is dropped.                      *)
Skip ==
  /\ Reading /\ Head(left).kind \in {"filtered", "device", "untold"} /\ left' = Tail(left)
  /\ UNCHANGED <<scan, visited, dir, found, wake, reader, endThread, loop, files>>
PushFile ==
  /\ Reading /\ IsFile(Head(left)) /\ left' = Tail(left)
  /\ found' = Append(found, <<dir, Head(left).name>>)
  /\ reader' = IF Len(found') > QueueMax THEN "wake" ELSE "scan"
  /\ UNCHANGED <<scan, visited, dir, wake, endThread, loop, files>>
PushDir ==
  /\ Reading /\ IsDir(Head(left)) /\ left' = Tail(left)
  /\ scan' = Append(scan, Head(left).to)
  /\ UNCHANGED <<visited, dir, found, wake, reader, endThread, loop, files>>

(* A write to a full pipe waits.                                           *)
Wake(at, byte, next) == /\ reader = at /\ Len(wake) < PipeSize
                        /\ wake' = Append(wake, byte) /\ reader' = next
WakeLoop == /\ Wake("wake", "r", "scan")
            /\ UNCHANGED <<scan, visited, dir, left, found, endThread, loop, files>>
ScanEnds == /\ reader = "scan" /\ dir = "none" /\ scan = <<>> /\ reader' = "lastr"
            /\ UNCHANGED <<scan, visited, dir, left, found, wake, endThread, loop, files>>
InputThread == /\ (Wake("lastr", "r", "lastq") \/ Wake("lastq", "q", "done"))
               /\ UNCHANGED <<scan, visited, dir, left, found, endThread, loop, files>>

(* recursive_browser_async_read_proc: one byte; "r" empties the queue.     *)
ReadProc ==
  /\ loop = "idle" /\ wake # <<>> /\ wake' = Tail(wake)
  /\ IF Head(wake) = "r" THEN files' = files \o found /\ found' = <<>>
     ELSE UNCHANGED <<files, found>>
  /\ UNCHANGED <<scan, visited, dir, left, reader, endThread, loop>>

(* The main loop does something else for a while, or leaves the mode.      *)
Handle == /\ loop' = IF loop = "idle" THEN "busy" ELSE "idle"
          /\ loop \in {"idle", "busy"}
          /\ UNCHANGED <<scan, visited, dir, left, found, wake, reader, endThread, files>>
DestroyMode == /\ loop = "busy" /\ endThread' = TRUE /\ loop' = "join"
               /\ UNCHANGED <<scan, visited, dir, left, found, wake, reader, files>>
Join == /\ loop = "join" /\ reader = "done" /\ loop' = "gone" /\ files' = <<>>
        /\ UNCHANGED <<scan, visited, dir, left, found, wake, reader, endThread>>

RecursiveNext == \/ OpenDir \/ CloseDir \/ Skip \/ PushFile \/ PushDir \/ WakeLoop \/ ScanEnds
                 \/ InputThread \/ ReadProc \/ Handle \/ DestroyMode \/ Join

RecursiveSpec == RecursiveInit /\ [][RecursiveNext]_rvars

RecursiveTypeOK ==
  /\ scan \in Seq(STRING) /\ visited \subseteq STRING /\ left \in Seq(Entry)
  /\ found \in Seq(STRING \X STRING) /\ files \in Seq(STRING \X STRING)
  /\ reader \in {"scan", "wake", "lastr", "lastq", "done"} /\ endThread \in BOOLEAN
  /\ loop \in {"idle", "busy", "join", "gone"} /\ Len(wake) <= PipeSize
  /\ wake \in Seq({"r", "q"}) /\ dir \in visited \cup {"none"}

(* What the walk should reach: the least set of directories that has the   *)
(* root and what its directories lead to.                                  *)
FilesOf(d) == {<<d, e.name>> : e \in {x \in EntriesOf(d) : IsFile(x)}}
Closed(ds) == RootDir \in ds /\ LeadsTo(ds) \subseteq ds
Reachable == {d \in Dirs : \A ds \in SUBSET Dirs : Closed(ds) => d \in ds}

(* No file is listed twice, whatever the links lead back to; and when the  *)
(* scan ended and its last bytes are read, the rows are the files of the   *)
(* directories that were visited, and each directory these lead to was     *)
(* visited or taken for one that was: no file stays in the queue without a *)
(* byte to come.                                                           *)
ScanIsRead == reader = "done" /\ wake = <<>> /\ ~endThread
EveryFileOnce ==
  /\ \A i, j \in DOMAIN (files \o found) : i # j => (files \o found)[i] # (files \o found)[j]
  /\ ScanIsRead => /\ ToSet(files) = UNION {FilesOf(d) : d \in visited}
                   /\ visited \subseteq Reachable
                   /\ \A d \in {RootDir} \cup LeadsTo(visited) : Seen(d)

(* Every file that can be reached is listed.  It is, if no two of the      *)
(* directories have the same hash; but the paths that end in "ab" and "bA" *)
(* do, and the second of them that is met is left out.                     *)
EveryFileReached ==
  ScanIsRead => ToSet(files) = UNION {FilesOf(d) : d \in Reachable}
HashesDiffer == \A c, d \in Reachable : HashOf[c] = HashOf[d] => c = d
=============================================================================
