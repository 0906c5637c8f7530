----------------------------- MODULE Launchers -----------------------------
(***************************************************************************)
(* The modes that start something and remember it: run (modes/run.c), ssh  *)
(* (modes/ssh.c) and drun (modes/drun.c).  Names are numbers, the order of *)
(* names is theirs.  A row is what the user sees (label), what is written  *)
(* to the history for it (key) and whether it counts as taken from there.  *)
(***************************************************************************)
EXTENDS HistoryFile

CONSTANTS
  Path,         \* run: the directories of PATH, each a sequence of names
  Hosts,        \* ssh: hosts of the configuration, known hosts, hosts file
  Desktop,      \* drun: the desktop files in the order they are walked
  CurrentDesktop, ShowCategories, ShowActions,  \* drun: what is configured
  CacheUsed,    \* the values of config.drun_use_desktop_cache
  Typed,        \* what the user types
  MaxCount      \* bound: the counts that are still raised

VARIABLES
  kind,         \* the mode
  past,         \* its history file
  cache,        \* drun's file of rows: "none", "torn" or "whole"
  useCache, reloadCache,  \* drun_use_desktop_cache, drun_reload_desktop_cache
  open,         \* "closed", "open", or "complete": a file is chosen for a row
  entries,      \* the rows
  fresh,        \* they were read, not taken from the cache
  chosen,       \* the row a file is chosen for
  last          \* what was done last, and to which row

avars == <<kind, past, cache, useCache, reloadCache, open, entries, fresh, chosen, last>>

NULL == 1000    \* a name that is gone sorts behind all others
FileLabel == 100  \* bound: from here on commands with a file, no file is added to them
Labels(rows) == [i \in DOMAIN rows |-> rows[i].label]
Shows(rows, n) == n \in ToSet(Labels(rows))
SortedBy(rows, Before(_, _)) ==
  LET Put(sorted, r) ==
        LET k == Cardinality({i \in DOMAIN sorted : ~Before(r, sorted[i])})
        IN  SubSeq(sorted, 1, k) \o <<r>> \o SubSeq(sorted, k + 1, Len(sorted))
  IN  FoldLeft(Put, <<>>, rows)
ByLabel(rows) == SortedBy(rows, LAMBDA r, s : r.label < s.label)

Favourites(h) ==
  [i \in DOMAIN h |-> [label |-> h[i].name[1], key |-> h[i].name, fav |-> TRUE]]

(* run.c, get_apps: the names that are no favourite, sorted; of equal      *)
(* neighbours the first is cleared, and the cleared ones are cut off.      *)
Scanned(favs) ==
  FoldLeft(LAMBDA rows, n : IF Shows(favs, n) THEN rows
             ELSE Append(rows, [label |-> n, key |-> <<n, "quoted">>, fav |-> FALSE]),
           <<>>, FlattenSeq(Path))
Uniq(rows) ==
  LET cleared == [i \in DOMAIN rows |->
                    IF i < Len(rows) /\ rows[i].label = rows[i + 1].label
                    THEN [rows[i] EXCEPT !.label = NULL] ELSE rows[i]]
      removed == Cardinality({i \in DOMAIN rows : cleared[i].label = NULL})
  IN  SubSeq(ByLabel(cleared), 1, Len(rows) - removed)
RunRows(h) == Favourites(h) \o Uniq(ByLabel(Scanned(Favourites(h))))

(* ssh.c, get_ssh: a host of the configuration is compared with the        *)
(* favourites, one of the other files with all the rows.                   *)
Host(n, port) == [label |-> n, key |-> <<n, port>>, fav |-> FALSE]
ConfigHosts(favs) ==
  FoldLeft(LAMBDA rows, n : IF Shows(favs, n) THEN rows ELSE Append(rows, Host(n, 0)),
           favs, Hosts.config)
KnownHosts(rows) ==
  FoldLeft(LAMBDA r, h : IF Shows(r, h[1]) THEN r ELSE Append(r, Host(h[1], h[2])), rows, Hosts.known)
EtcHosts(rows) ==
  FoldLeft(LAMBDA r, n : IF Shows(r, n) THEN r ELSE Append(r, Host(n, 0)), rows, Hosts.etc)
SshRows(h) == EtcHosts(KnownHosts(ConfigHosts(Favourites(h))))

(* drun.c, read_desktop_file: what a file does, in the order of the code.  *)
Masks(f) ==
  \/ f.hidden
  \/ CurrentDesktop # {} /\ f.onlyIn # {} /\ f.onlyIn \intersect CurrentDesktop = {}
  \/ f.notIn \intersect CurrentDesktop # {}
  \/ f.noDisplay
Lacks(f) == \/ ~f.exec \/ ~f.tryExec
            \/ ShowCategories # {} /\ f.categories \intersect ShowCategories = {}
DrunRow(f, n) == [label |-> n, key |-> f.id, from |-> f.dir, takesFile |-> f.takesFile, sort |-> 0]
ReadDesktopFile(st, f) ==
  CASE f.id \in st.disabled \/ ~f.valid -> st
    [] OTHER ->
       IF Masks(f) THEN [st EXCEPT !.disabled = @ \cup {f.id}]
       ELSE IF Lacks(f) THEN st
       ELSE [rows |-> Append(st.rows, DrunRow(f, f.name))
                        \o (IF ShowActions THEN [i \in DOMAIN f.actions |-> DrunRow(f, f.actions[i])]
                            ELSE <<>>),
             disabled |-> st.disabled \cup {f.id}]
Walked == FoldLeft(ReadDesktopFile, [rows |-> <<>>, disabled |-> {}], Desktop).rows

(* get_apps_history and drun_int_sort_list: the last used first, then the  *)
(* others by name.                                                         *)
Weighed(rows, h) ==
  [i \in DOMAIN rows |->
     [rows[i] EXCEPT !.sort = IF HasName(h, rows[i].key)
                              THEN Len(h) - FirstOf(h, rows[i].key) + 1 ELSE -i]]
DrunSorted(rows) ==
  SortedBy(rows, LAMBDA r, s : IF r.sort < 0 /\ s.sort < 0 THEN r.label < s.label
                               ELSE r.sort > s.sort)
DrunRows(h) == DrunSorted(Weighed(Walked, h))

(***************************************************************************)
(* write_cache writes no sort index: those read back are all zero.         *)
(***************************************************************************)
Cached(rows) == [state |-> "whole", rows |-> [i \in DOMAIN rows |-> [rows[i] EXCEPT !.sort = 0]]]
NoRows(state) == [state |-> state, rows |-> <<>>]
ReadsCache == useCache /\ ~reloadCache /\ cache.state # "none"

LaunchInit ==
  /\ kind \in {"run", "ssh", "drun"} /\ past = <<>> /\ cache = NoRows("none")
  /\ useCache \in CacheUsed /\ (kind # "drun" => ~useCache) /\ reloadCache \in {FALSE, useCache}
  /\ open = "closed" /\ entries = <<>> /\ fresh = TRUE /\ chosen = 0 /\ last = <<"none">>

Shown(rows, new) == /\ entries' = rows /\ fresh' = new /\ open' = "open"
                    /\ chosen' = 0 /\ last' = <<"open">>

OpenRun == /\ kind = "run" /\ open = "closed" /\ Shown(RunRows(past), TRUE)
           /\ UNCHANGED <<kind, past, cache, useCache, reloadCache>>
OpenSsh == /\ kind = "ssh" /\ open = "closed" /\ Shown(SshRows(past), TRUE)
           /\ UNCHANGED <<kind, past, cache, useCache, reloadCache>>

(* A cache that ends too early is given up, but the list that was read is  *)
(* freed and then grown again: the program ends there or goes on.          *)
OpenDrun ==
  /\ kind = "drun" /\ open = "closed" /\ UNCHANGED <<kind, past, useCache, reloadCache>>
  /\ IF ReadsCache /\ cache.state = "whole"
     THEN Shown(cache.rows, FALSE) /\ UNCHANGED cache
     ELSE /\ Shown(DrunRows(past), TRUE)
          /\ cache' = IF useCache THEN Cached(DrunRows(past)) ELSE cache
DrunDies ==
  /\ kind = "drun" /\ open = "closed" /\ useCache
  /\ cache' = IF ReadsCache THEN cache ELSE NoRows("torn")
  /\ ReadsCache => cache.state = "torn"
  /\ UNCHANGED <<kind, past, useCache, reloadCache, open, entries, fresh, chosen, last>>

Small == \A i \in DOMAIN past : past[i].count < MaxCount
Gone == /\ open' = "closed" /\ entries' = <<>> /\ fresh' = TRUE /\ chosen' = 0
        /\ UNCHANGED <<kind, cache, useCache, reloadCache>>
Launched(k) == Small /\ past' = AfterUse(past, k) /\ Gone
Stay == /\ open' = open
        /\ UNCHANGED <<kind, cache, useCache, reloadCache, entries, fresh, chosen>>
Leave == UNCHANGED past /\ Gone

(* exec_cmd forgets a command that does not start, and rofi stays; the     *)
(* others end.  drun asks over D-Bus first and starts the command when that *)
(* fails; a link or a program that is not started is not remembered.       *)
ExecRun(k) == kind = "run" /\ (Launched(k) \/ (past' = AfterRemoval(past, k) /\ Stay))
ExecSsh(k) == kind = "ssh" /\ (Launched(k) \/ Leave)
ExecDrun(k) == kind = "drun" /\ \E activated, started \in BOOLEAN :
                                 IF activated \/ started THEN Launched(k) ELSE Leave
Exec(k) == ExecRun(k) \/ ExecSsh(k) \/ ExecDrun(k)

Use(i) == /\ open = "open" /\ i \in DOMAIN entries
          /\ Exec(entries[i].key) /\ last' = <<"use", entries[i].key>>
Custom(n) == /\ open = "open" /\ last' = <<"custom">>
             /\ \/ ExecRun(<<n, "typed">>) \/ ExecSsh(<<n, 0>>)
                \/ kind = "drun" /\ (Leave \/ (Stay /\ UNCHANGED past))

(* MENU_ENTRY_DELETE.  ssh names the host alone, without its port.         *)
DeleteRun(i) ==
  /\ kind = "run" /\ past' = AfterRemoval(past, entries[i].key)
  /\ entries' = RunRows(past') /\ chosen' = 0
  /\ UNCHANGED <<kind, cache, useCache, reloadCache, open, fresh>>
DeleteSsh(i) ==
  /\ kind = "ssh" /\ past' = AfterRemoval(past, <<entries[i].label, 0>>)
  /\ entries' = SshRows(past') /\ UNCHANGED <<kind, cache, useCache, reloadCache, open, fresh, chosen>>
DeleteDrun(i) ==
  /\ kind = "drun"
  /\ IF entries[i].sort >= 0
     THEN past' = AfterRemoval(past, entries[i].key) /\ entries' = RemoveAt(entries, i)
     ELSE UNCHANGED <<past, entries>>
  /\ UNCHANGED <<kind, cache, useCache, reloadCache, open, fresh, chosen>>
Delete(i) == /\ open = "open" /\ i \in DOMAIN entries /\ last' = <<"delete", entries[i].key>>
             /\ (DeleteRun(i) \/ DeleteSsh(i) \/ DeleteDrun(i))

Complete(i) ==
  /\ open = "open" /\ i \in DOMAIN entries /\ kind \in {"run", "drun"}
  /\ IF kind = "drun" THEN entries[i].takesFile ELSE entries[i].label < FileLabel
  /\ open' = "complete" /\ chosen' = i /\ last' = <<"complete", entries[i].key>>
  /\ UNCHANGED <<kind, past, cache, useCache, reloadCache, entries, fresh>>
Back == /\ open = "complete" /\ open' = "open" /\ last' = <<"back">>
        /\ UNCHANGED <<kind, past, cache, useCache, reloadCache, entries, fresh, chosen>>
(* run writes the command with the file to its history, drun the program;  *)
(* whether the command starts or not, rofi ends.                           *)
Picked(n) == IF kind = "drun" \/ n = 0 THEN entries[chosen].key
             ELSE <<FileLabel + 10 * entries[chosen].label + n, "file">>
PickFile(n) ==
  /\ open = "complete" /\ last' = <<"use", Picked(n)>>
  /\ \/ ExecDrun(Picked(n))
     \/ kind = "run" /\ Launched(Picked(n))
     \/ kind = "run" /\ past' = AfterRemoval(past, Picked(n)) /\ Gone
Cancel == open # "closed" /\ Leave /\ last' = <<"cancel">>

LaunchNext ==
  \/ OpenRun \/ OpenSsh \/ OpenDrun \/ DrunDies
  \/ (\E i \in DOMAIN entries : Use(i) \/ Delete(i) \/ Complete(i))
  \/ (\E n \in Typed : Custom(n)) \/ (\E n \in Typed \cup {0} : PickFile(n)) \/ Back \/ Cancel

LaunchTypeOK ==
  /\ kind \in {"run", "ssh", "drun"} /\ open \in {"closed", "open", "complete"}
  /\ {useCache, reloadCache, fresh} \subseteq BOOLEAN /\ chosen \in Nat
  /\ Len(past) <= MaxHistory /\ (open = "complete" => chosen \in DOMAIN entries)
  /\ cache.state \in {"none", "torn", "whole"} /\ (cache.state # "none" => useCache)

Ascending(rows) == \A i \in 1 .. Len(rows) - 1 : rows[i].label < rows[i + 1].label

Times(x, rows) == Cardinality({i \in DOMAIN rows : rows[i] = x})

(* What is listed: run and ssh show what was used first, in its order, and *)
(* after it all that can be started and was not: run each name once and by *)
(* name, ssh a host as often as its configuration names it, and once if    *)
(* only the other files do.  drun shows one file of each id, the first one *)
(* that is not broken, unless that one hides the id, with a row for it and *)
(* one for each of its actions, whether the rows were read or come from    *)
(* the cache; those that were read are in the order of the history, then   *)
(* of the names.                                                           *)
UsedFirst ==
  LET Used(r) == HasName(past, r.key)
  IN  \A i, j \in DOMAIN entries : i < j =>
        /\ Used(entries[j]) => Used(entries[i])
                               /\ FirstOf(past, entries[i].key) <= FirstOf(past, entries[j].key)
        /\ ~Used(entries[i]) => entries[i].label <= entries[j].label
FilesListed ==
  LET Decisive(f) == f.valid /\ (Masks(f) \/ ~Lacks(f))
      first == {i \in DOMAIN Desktop : Decisive(Desktop[i])
                  /\ \A j \in 1 .. i - 1 : Desktop[j].id = Desktop[i].id => ~Decisive(Desktop[j])}
      shown == {Desktop[i] : i \in {i \in first : ~Masks(Desktop[i])}}
      Rows(f) == 1 + IF ShowActions THEN Len(f.actions) ELSE 0
  IN  /\ {<<r.key, r.from>> : r \in ToSet(entries)} = {<<f.id, f.dir>> : f \in shown}
      /\ \A f \in shown : Times(f.id, [i \in DOMAIN entries |-> entries[i].key]) = Rows(f)
NamesListed ==
  LET others == SubSeq(entries, Len(past) + 1, Len(entries))
      known == ToSet(Hosts.etc) \cup {h[1] : h \in ToSet(Hosts.known)}
      all == IF kind = "run" THEN ToSet(FlattenSeq(Path)) ELSE ToSet(Hosts.config) \cup known
      Rows(n) == IF kind = "ssh" /\ n \in ToSet(Hosts.config) THEN Times(n, Hosts.config) ELSE 1
  IN  /\ \A i \in DOMAIN past : entries[i].key = past[i].name
      /\ ToSet(Labels(others)) = all \ {past[i].name[1] : i \in DOMAIN past}
      /\ \A n \in ToSet(Labels(others)) : Times(n, Labels(others)) = Rows(n)
      /\ kind = "run" => Ascending(others)
RowsListed ==
  (last[1] = "open" \/ (last[1] = "delete" /\ kind # "drun")) /\ open = "open" =>
    IF kind = "drun" THEN FilesListed /\ (fresh => UsedFirst) ELSE NamesListed

(* A row that the user removed is no longer in the history, unless it is   *)
(* an ssh host with a port of its own.                                     *)
RemovedIsForgotten ==
  last[1] = "delete" => ~HasName(past, last[2]) \/ (kind = "ssh" /\ last[2][2] > 0)
=============================================================================
