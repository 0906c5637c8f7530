------------------------------ MODULE MCModes ------------------------------
(***************************************************************************)
(* The list, the input, the matching and the modes side by side for TLC:   *)
(* in each behaviour one of them runs and the others stand still: those    *)
(* that are extended in an initial state of theirs, the rest at 0.         *)
(***************************************************************************)
EXTENDS DmenuSelect, History, Combi, Script, ListView, TextEdit, RecursiveBrowser, WindowMode

VARIABLES
  part,                                                            \* the part that runs
  query, enabled, current, caseSensitive, smart,                   \* Matching
  kind, past, cache, useCache, reloadCache, open, entries, fresh, chosen, last   \* Launchers

(* ListView: a paged list of two columns, two that scroll, a bar and one   *)
(* that fills a fixed number of columns row by row.                        *)
Paged == [bar |-> FALSE, scroll |-> "page", across |-> FALSE, reverse |-> FALSE, cycle |-> FALSE,
          fixedCols |-> FALSE, columns |-> 2, lines |-> 2, fixedLines |-> FALSE, dynamic |-> TRUE,
          needInput |-> FALSE]
ListLooks ==
  {Paged, [Paged EXCEPT !.scroll = "continuous", !.cycle = TRUE],
   [Paged EXCEPT !.scroll = "continuous", !.across = TRUE, !.reverse = TRUE, !.needInput = TRUE],
   [Paged EXCEPT !.bar = TRUE, !.lines = 3],
   [Paged EXCEPT !.across = TRUE, !.fixedCols = TRUE, !.dynamic = FALSE, !.columns = 1, !.reverse = TRUE]}

(* TextEdit: letters, a space, and a string with a control character.      *)
Strings == {<<"letter">>, <<"space">>, <<"letter", "letter">>, <<"control", "letter", "space">>}

(* Matching: letters of both cases and what the methods treat specially.   *)
Chars == {"a", "b", "A", " ", "-", "*"}
Texts ==
  {<<>>, <<"a", "b">>, <<"a", "b", "A", "b">>, <<"b", "a", " ", "A">>, <<"1", "A", "-", "b", "a">>}
Configured == {<<"fuzzy", "bogus", "glob", "prefix">>, <<"bogus">>}
MaxQuery == 3
M == INSTANCE Matching WITH Rows <- Texts

(* Launchers: two directories of PATH, hosts from three places, desktop    *)
(* files of two directories that hide each other, fail, or have an action. *)
Path == <<<<3, 1>>, <<1, 2>>>>
Hosts == [config |-> <<1, 2, 1>>, known |-> <<<<2, 0>>, <<3, 22>>>>, etc |-> <<3, 4>>]
File == [dir |-> "user", id |-> "x", valid |-> TRUE, hidden |-> FALSE, onlyIn |-> {}, notIn |-> {},
  noDisplay |-> FALSE, exec |-> TRUE, tryExec |-> TRUE, categories |-> {"c"}, name |-> 1,
  actions |-> <<>>, takesFile |-> FALSE]
Desktop ==
  <<[File EXCEPT !.tryExec = FALSE], [File EXCEPT !.id = "y", !.hidden = TRUE],
    [File EXCEPT !.id = "z", !.name = 3, !.actions = <<4>>],
    [File EXCEPT !.dir = "system", !.takesFile = TRUE], [File EXCEPT !.id = "y", !.dir = "system"],
    [File EXCEPT !.id = "z", !.dir = "system"], [File EXCEPT !.id = "w", !.dir = "system", !.name = 2],
    [File EXCEPT !.id = "v", !.dir = "system", !.notIn = {"GNOME"}]>>
CurrentDesktop == {"GNOME"}
ShowCategories == {}
ShowActions == TRUE
CacheUsed == BOOLEAN
A == INSTANCE Launchers WITH Typed <- {1, 3}

(* RecursiveBrowser: a link back to the root, a directory that cannot be   *)
(* read, a filtered file, a directory not known as one, and two            *)
(* directories of the same hash.                                           *)
InDir(k, n, to) == [kind |-> k, name |-> n, to |-> to]
BrowserContents ==
  [home |-> <<InDir("file", "a", "none"), InDir("dir", "sub", "sub"),
              InDir("dirlink", "other", "other"), InDir("file", "b", "none")>>,
   sub |-> <<InDir("dirlink", "home", "home"), InDir("file", "c", "none"),
             InDir("filtered", ".h", "none"), InDir("untold", "ab", "ab")>>,
   other |-> <<InDir("dir", "closed", "closed"), InDir("dir", "ab", "ab"), InDir("dir", "bA", "bA")>>,
   ab |-> <<InDir("file", "d", "none")>>, bA |-> <<InDir("file", "e", "none")>>]
BrowserHash ==
  [home |-> 1, sub |-> 2, other |-> 3, closed |-> 4, ab |-> 5, bA |-> 5]

(* Combi: three modes, two of them with names that begin alike.            *)
CombiNames == [r |-> {1, 3}, d |-> {2}, x |-> {}]

(* Script: what its calls print.                                           *)
Printed(e) == [entry |-> e, nonselectable |-> FALSE]
Output(rs, os) == [rows |-> rs, options |-> os]
ScriptOutputs ==
  {Output(<<Printed("a"), Printed("b")>>, [noCustom |-> TRUE, keepSelection |-> TRUE]),
   Output(<<Printed("c"), [Printed("d") EXCEPT !.nonselectable = TRUE], Printed("e")>>,
          [data |-> "x", hotKeys |-> TRUE, newSelection |-> 1]),
   Output(<<Printed("a")>>,
          [noCustom |-> FALSE, keepSelection |-> TRUE, keepFilter |-> TRUE, urgent |-> {0}]),
   Output(<<Printed("b")>>, [switchMode |-> TRUE]), Output(<<>>, [n \in {} |-> 0])}

-----------------------------------------------------------------------------
(* The variables of the parts that do not run.                             *)
DmenuOff == Init /\ mode = "any" /\ len = 1 /\ barred = {}
CombiOff == CombiInit /\ rowsOf = [i \in Switchers |-> 0]
ListOff == ListInit /\ look = Paged
TextOff == TextInit /\ flags = [editable |-> FALSE, password |-> FALSE, placeholder |-> FALSE]
MatchOff == query = 0 /\ enabled = 0 /\ current = 0 /\ caseSensitive = 0 /\ smart = 0
LaunchOff ==
  /\ kind = 0 /\ past = 0 /\ cache = 0 /\ useCache = 0 /\ reloadCache = 0 /\ open = 0
  /\ entries = 0 /\ fresh = 0 /\ chosen = 0 /\ last = 0
ScriptOff ==
  /\ rowsShown = 0 /\ noCustom = 0 /\ hotKeys = 0 /\ scriptData = 0 /\ keep = 0
  /\ urgent = 0 /\ chosenLine = 0 /\ filter = 0 /\ calls = <<>> /\ stage = 0
WindowOff == WindowInit /\ server = "x11" /\ exist = {}

ModesInit ==
  /\ part \in {"dmenu", "list", "text", "matching", "history", "launchers",
               "browser", "combi", "script", "windows"}
  /\ IF part = "dmenu" THEN Init ELSE DmenuOff
  /\ IF part = "list" THEN ListInit ELSE ListOff
  /\ IF part = "text" THEN TextInit ELSE TextOff
  /\ IF part = "matching" THEN M!MatchInit ELSE MatchOff
  /\ HistoryInit
  /\ IF part = "launchers" THEN A!LaunchInit ELSE LaunchOff
  /\ RecursiveInit
  /\ IF part = "combi" THEN CombiInit ELSE CombiOff
  /\ IF part = "script" THEN ScriptInit ELSE ScriptOff
  /\ IF part = "windows" THEN WindowInit ELSE WindowOff

mvars == <<query, enabled, current, caseSensitive, smart>>
avars == <<kind, past, cache, useCache, reloadCache, open, entries, fresh, chosen, last>>
uservars == <<lvars, tvars, mvars>>
filevars == <<hvars, avars, rvars>>
rowvars == <<cvars, svars, wmvars>>
allvars == <<part, vars, uservars, filevars, rowvars>>

ModesNext ==
  \/ part = "dmenu" /\ Next /\ UNCHANGED <<part, uservars, filevars, rowvars>>
  \/ part = "list" /\ ListNext
     /\ UNCHANGED <<part, vars, tvars, mvars, filevars, rowvars>>
  \/ part = "text" /\ TextNext
     /\ UNCHANGED <<part, vars, lvars, mvars, filevars, rowvars>>
  \/ part = "matching" /\ M!MatchNext
     /\ UNCHANGED <<part, vars, lvars, tvars, filevars, rowvars>>
  \/ part = "history" /\ HistoryNext
     /\ UNCHANGED <<part, vars, uservars, avars, rvars, rowvars>>
  \/ part = "launchers" /\ A!LaunchNext
     /\ UNCHANGED <<part, vars, uservars, hvars, rvars, rowvars>>
  \/ part = "browser" /\ RecursiveNext
     /\ UNCHANGED <<part, vars, uservars, hvars, avars, rowvars>>
  \/ part = "combi" /\ CombiNext
     /\ UNCHANGED <<part, vars, uservars, filevars, svars, wmvars>>
  \/ part = "script" /\ ScriptNext
     /\ UNCHANGED <<part, vars, uservars, filevars, cvars, wmvars>>
  \/ part = "windows" /\ WindowNext
     /\ UNCHANGED <<part, vars, uservars, filevars, cvars, svars>>

ModesSpec == ModesInit /\ [][ModesNext]_allvars

-----------------------------------------------------------------------------
(* The variables of the part that runs have their types.                   *)
ModesTypeOK ==
  CASE part = "dmenu" -> TypeOK
    [] part = "list" -> ListTypeOK
    [] part = "text" -> TextTypeOK
    [] part = "matching" -> M!MatchTypeOK
    [] part = "history" -> HistoryTypeOK
    [] part = "launchers" -> A!LaunchTypeOK
    [] part = "browser" -> RecursiveTypeOK
    [] part = "combi" -> CombiTypeOK
    [] part = "script" -> ScriptTypeOK
    [] part = "windows" -> WindowTypeOK

(* What the input finds and what the launchers offer: the distance of two  *)
(* texts is the number of edits between them; a row is scored by the best  *)
(* way to find the input in it, or better where the table carries a value  *)
(* over; no method finds less than a stricter one; the launchers list all  *)
(* that can be started and what they list, and nothing that was removed.   *)
RowsAreFound ==
  /\ part = "matching" => M!LevenshteinIsDistance /\ M!FuzzyFindsBest /\ M!MethodsWiden
  /\ part = "launchers" => A!RowsListed /\ A!RemovedIsForgotten
=============================================================================
