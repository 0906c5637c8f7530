------------------------------- MODULE Filter -------------------------------
(***************************************************************************)
(* What filtering the list of a view promises: the rows shown are the rows *)
(* of the mode that match the input, each once, in the order of the mode   *)
(* or, when sorting is on, by distance to the input with ties in the order *)
(* of the mode.  ParallelFilter shows how rofi computes it.                *)
(***************************************************************************)
EXTENDS Integers

CONSTANTS
  MaxLines,   \* bound on the number of rows of a mode
  Distances   \* what the scorers may return

VARIABLES
  lines,      \* number of rows of the mode
  match,      \* the rows that match the input
  dist,       \* distance of each row to the input
  sort,       \* is sorting on?
  busy,       \* a filter pass is running
  shown       \* row shown at each position of the list

vars == <<lines, match, dist, sort, busy, shown>>

RowsOf(n) == 0 .. n - 1

\* A request: which rows match, how far they are, and whether to sort.
Requests(n) ==
  [match : SUBSET RowsOf(n), dist : [RowsOf(n) -> Distances], sort : BOOLEAN]

\* Row a comes before row b in the list.
Precedes(a, b, d, s) ==
  IF s THEN d[a] < d[b] \/ (d[a] = d[b] /\ a < b) ELSE a < b

\* map, restricted to its first n positions, lists m in the order asked for.
IsListing(map, n, m, d, s) ==
  /\ {map[k] : k \in 0 .. n - 1} = m
  /\ \A a, b \in 0 .. n - 1 : a < b => Precedes(map[a], map[b], d, s)

Nothing == [k \in {} |-> 0]

Init ==
  /\ lines \in 0 .. MaxLines
  /\ match = {} /\ dist = [r \in RowsOf(lines) |-> 0] /\ sort = FALSE
  /\ busy = FALSE
  /\ shown = Nothing

\* A pass starts; until it ends there is no list to look at.
Start(n, rq) ==
  /\ ~busy
  /\ rq \in Requests(n)
  /\ lines' = n
  /\ match' = rq.match /\ dist' = rq.dist /\ sort' = rq.sort
  /\ busy' = TRUE
  /\ shown' = Nothing

\* The pass ends with the list the request asked for.
Finish ==
  /\ busy
  /\ busy' = FALSE
  /\ \E n \in 0 .. lines :
       /\ shown' \in [0 .. n - 1 -> RowsOf(lines)]
       /\ IsListing(shown', n, match, dist, sort)
  /\ UNCHANGED <<lines, match, dist, sort>>

\* Without input every row is shown.
ShowAll(n) ==
  /\ ~busy
  /\ lines' = n
  /\ match' = RowsOf(n) /\ dist' = [r \in RowsOf(n) |-> 0] /\ sort' = FALSE
  /\ shown' = [k \in RowsOf(n) |-> k]
  /\ UNCHANGED busy

Next ==
  \/ \E n \in 0 .. MaxLines : \E rq \in Requests(n) : Start(n, rq)
  \/ \E n \in 0 .. MaxLines : ShowAll(n)
  \/ Finish

Spec == Init /\ [][Next]_vars /\ WF_vars(Finish)
=============================================================================
