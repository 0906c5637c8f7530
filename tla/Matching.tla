------------------------------ MODULE Matching ------------------------------
(***************************************************************************)
(* What makes a row match the input and how good a match it is             *)
(* (helper.c): the input is cut into tokens, each becomes a regular        *)
(* expression of the matching method in use; the rows that match may be    *)
(* sorted by the Levenshtein distance or by the fuzzy score.  The user     *)
(* types, changes the method and the case sensitivity.  Characters are     *)
(* one-letter strings; a regular expression is modelled by what it         *)
(* accepts, and the regex method is not used: the others are asked for.    *)
(***************************************************************************)
EXTENDS Integers, Sequences, SequencesExt, FiniteSetsExt

CONSTANTS
  Chars,       \* the characters that are typed
  Rows,        \* the rows
  Configured,  \* the lists of names -matching is given
  MaxQuery     \* bound: characters of the input

VARIABLES
  query,                   \* the input
  enabled, current,        \* MatchingMethodEnabled, CurrentMatchingMethod
  caseSensitive, smart     \* config.case_sensitive, config.case_smart

mvars == <<query, enabled, current, caseSensitive, smart>>

Methods == <<"normal", "regex", "glob", "fuzzy", "prefix">>
MinScore == -1000000
LowerOf == [A |-> "a", B |-> "b"]
ToLower(c) == IF c \in DOMAIN LowerOf THEN LowerOf[c] ELSE c
CharClass(c) ==
  CASE c \in {"a", "b"} -> "lower" [] c \in {"A", "B"} -> "upper" [] c = "1" -> "digit"
    [] OTHER -> "nonword"
Larger(m, n) == IF m >= n THEN m ELSE n

(* config_sanity_check: unknown names are left out, at most as many as     *)
(* there are methods are taken; normal when there is none.                 *)
EnabledMethods(names) ==
  LET known == SelectSeq(names, LAMBDA n : n \in ToSet(Methods))
  IN  IF known = <<>> THEN <<"normal">>
      ELSE SubSeq(known, 1, IF Len(known) < Len(Methods) THEN Len(known) ELSE Len(Methods))

MatchInit ==
  /\ query = <<>> /\ current = 0
  /\ \E names \in Configured : enabled = EnabledMethods(names)
  /\ caseSensitive = FALSE /\ smart \in BOOLEAN

method == enabled[current + 1]

(* parse_case_sensitivity *)
Sensitive(q) ==
  IF smart THEN \E i \in 1 .. Len(q) : CharClass(q[i]) = "upper" ELSE caseSensitive

(* helper_tokenize: the tokens between spaces, none of them empty. *)
Tokens(q) ==
  LET Cut(a, c) == IF c = " " THEN [a EXCEPT !.done = Append(@, a.token), !.token = <<>>]
                   ELSE [a EXCEPT !.token = Append(@, c)]
      end == FoldLeft(Cut, [done |-> <<>>, token |-> <<>>], q)
  IN  SelectSeq(Append(end.done, end.token), LAMBDA t : t # <<>>)

Equal(c, d, sens) == IF sens THEN c = d ELSE ToLower(c) = ToLower(d)
IsWord(c) == CharClass(c) # "nonword"

(* The pattern at offset i of the row, character by character; "*" and "?" *)
(* are special in a glob.                                                  *)
Literal(p, s, i, sens) ==
  i + Len(p) <= Len(s) /\ \A k \in 1 .. Len(p) : Equal(p[k], s[i + k], sens)
Somewhere(p, s, sens) == \E i \in 0 .. Len(s) : Literal(p, s, i, sens)

(* prefix_regex *)
Boundary(s, i) == (i > 0 /\ IsWord(s[i])) # (i < Len(s) /\ IsWord(s[i + 1]))
Prefix(p, s, sens) == \E i \in 0 .. Len(s) : Boundary(s, i) /\ Literal(p, s, i, sens)

(* fuzzy_to_regex: the characters in their order with anything between.    *)
Reach(ends, c, s, sens) ==
  {i \in 1 .. Len(s) : Equal(c, s[i], sens) /\ \E e \in ends : e < i}
Fuzzy(p, s, sens) == FoldLeft(LAMBDA ends, c : Reach(ends, c, s, sens), {0}, p) # {}

(* glob_to_regex: "?" is any character that is no space.                   *)
GlobStep(ends, c, s, sens) ==
  IF c = "*" THEN {i \in 0 .. Len(s) : \E e \in ends : e <= i}
  ELSE {i \in 1 .. Len(s) : i - 1 \in ends
                             /\ (IF c = "?" THEN s[i] # " " ELSE Equal(c, s[i], sens))}
Glob(p, s, sens) ==
  FoldLeft(LAMBDA ends, c : GlobStep(ends, c, s, sens), 0 .. Len(s), p) # {}

(* create_regex and helper_token_match *)
Accepts(m, p, s, sens) ==
  CASE m = "glob" -> Glob(p, s, sens) [] m = "fuzzy" -> Fuzzy(p, s, sens)
    [] m = "prefix" -> Prefix(p, s, sens) [] OTHER -> Somewhere(p, s, sens)
TokenMatch(m, t, s, sens) ==
  IF Head(t) = "-" THEN ~Accepts(m, Tail(t), s, sens) ELSE Accepts(m, t, s, sens)
Matches(m, q, s) ==
  \A i \in 1 .. Len(Tokens(q)) : TokenMatch(m, Tokens(q)[i], s, Sensitive(q))

(***************************************************************************)
(* levenshtein, one column of the table at a time.                         *)
(***************************************************************************)
Least3(a, b, c) == Min({a, b, c})
Levenshtein(p, s, sens) ==
  LET Column(col, x) ==
        LET Cell(a, y) ==
              LET cost == IF Equal(p[y], s[x], sens) THEN 0 ELSE 1
              IN  [col |-> Append(a.col, Least3(col[y + 1] + 1, a.col[y] + 1, a.diag + cost)),
                   diag |-> col[y + 1]]
        IN  FoldLeft(Cell, [col |-> <<x>>, diag |-> x - 1], [y \in 1 .. Len(p) |-> y]).col
      last == FoldLeft(Column, [y \in 1 .. Len(p) + 1 |-> y - 1], [x \in 1 .. Len(s) |-> x])
  IN  last[Len(p) + 1]

(***************************************************************************)
(* rofi_scorer_fuzzy_evaluate.  The cell at the upper left of the first    *)
(* cell of a row is what the row before left in uleft and ulefts.          *)
(***************************************************************************)
ScoreFor(prev, cur) ==
  CASE prev = "nonword" /\ cur # "nonword" -> 50
    [] (prev = "lower" /\ cur = "upper") \/ (prev # "digit" /\ cur = "digit") -> 44
    [] cur = "nonword" -> 40
    [] OTHER -> 0
Score(s, i) == ScoreFor(IF i = 1 THEN "nonword" ELSE CharClass(s[i - 1]), CharClass(s[i]))
GapScore == -5
LeadingGap == -4
Consecutive == 45

(* Mutant: only a character right behind the last one counts. *)
ScoreRowGreedy(st, c, s, sens) ==
  LET Cell(a, i) ==
        LET t == Score(s, i) * (IF st.start THEN 2 ELSE 1)
            new == IF ~Equal(c, s[i], sens) THEN MinScore
                   ELSE IF st.first THEN LeadingGap * (i - 1) + t ELSE a.uleft + Consecutive
        IN  [dp |-> [a.dp EXCEPT ![i] = new], uleft |-> a.dp[i]]
      row == FoldLeft(Cell, [dp |-> st.dp, uleft |-> st.uleft], [i \in 1 .. Len(s) |-> i])
  IN  IF c = " " THEN [st EXCEPT !.start = TRUE]
      ELSE [dp |-> row.dp, uleft |-> row.uleft, ulefts |-> MinScore, first |-> FALSE, start |-> FALSE]

ScoreRow(st, c, s, sens) ==
  LET Cell(a, i) ==
        LET left == a.dp[i]
            lefts == Larger(a.lefts + GapScore, left)
            t == Score(s, i) * (IF st.start THEN 2 ELSE 1)
            new == IF ~Equal(c, s[i], sens) THEN MinScore
                   ELSE IF st.first THEN LeadingGap * (i - 1) + t
                   ELSE Larger(a.uleft + Consecutive, a.ulefts + t)
        IN  [dp |-> [a.dp EXCEPT ![i] = new], lefts |-> lefts, uleft |-> left, ulefts |-> lefts]
      row == FoldLeft(Cell, [dp |-> st.dp, lefts |-> MinScore, uleft |-> st.uleft,
                             ulefts |-> st.ulefts], [i \in 1 .. Len(s) |-> i])
  IN  IF c = " " THEN [st EXCEPT !.start = TRUE]
      ELSE [dp |-> row.dp, uleft |-> row.uleft, ulefts |-> row.ulefts,
            first |-> FALSE, start |-> FALSE]

FuzzyScore(p, s, sens) ==
  LET end == FoldLeft(LAMBDA st, c : ScoreRow(st, c, s, sens),
                      [dp |-> [i \in 1 .. Len(s) |-> MinScore], uleft |-> 0, ulefts |-> 0,
                       first |-> TRUE, start |-> TRUE], p)
  IN  -FoldLeft(LAMBDA best, v : Larger(best + GapScore, v), MinScore, end.dp)

(***************************************************************************)
(* The user.                                                               *)
(***************************************************************************)
Type(c) == /\ Len(query) < MaxQuery /\ query' = Append(query, c)
           /\ UNCHANGED <<enabled, current, caseSensitive, smart>>
NextMethod == /\ current' = (current + 1) % Len(enabled)
              /\ UNCHANGED <<query, enabled, caseSensitive, smart>>
PreviousMethod ==
  /\ current' = IF current = 0 THEN Len(enabled) - 1 ELSE current - 1
  /\ UNCHANGED <<query, enabled, caseSensitive, smart>>
ToggleCase == /\ ~smart /\ caseSensitive' = ~caseSensitive
              /\ UNCHANGED <<query, enabled, current, smart>>

MatchNext == (\E c \in Chars : Type(c)) \/ NextMethod \/ PreviousMethod \/ ToggleCase

MatchTypeOK ==
  /\ Len(query) <= MaxQuery /\ ToSet(query) \subseteq Chars
  /\ ToSet(enabled) \subseteq ToSet(Methods) /\ current \in 0 .. Len(enabled) - 1
  /\ {caseSensitive, smart} \subseteq BOOLEAN

(***************************************************************************)
(* Reference definitions.                                                  *)
(***************************************************************************)
RECURSIVE EditDistance(_, _, _)
EditDistance(p, s, sens) ==
  IF p = <<>> THEN Len(s) ELSE IF s = <<>> THEN Len(p)
  ELSE Least3(EditDistance(Tail(p), s, sens) + 1, EditDistance(p, Tail(s), sens) + 1,
              EditDistance(Tail(p), Tail(s), sens) + IF Equal(p[1], s[1], sens) THEN 0 ELSE 1)

(* The alignments of the pattern's characters with the row, in order, and  *)
(* their best value: what the comment on dp says.                          *)
RECURSIVE Best(_, _, _, _, _)
Best(p, s, k, from, sens) ==
  LET letters == {j \in 1 .. Len(p) : p[j] # " "}
      later == {j \in letters : j > k}
      j == Min(later)
      Value(i) ==
        LET t == Score(s, i) * (IF k = 0 \/ \E h \in k .. j : p[h] = " " THEN 2 ELSE 1)
            here == IF k = 0 THEN LeadingGap * (i - 1) + t
                    ELSE Larger(GapScore * (i - from - 1) + t,
                                IF i = from + 1 THEN Consecutive ELSE MinScore)
        IN  here + Best(p, s, j, i, sens)
      at == {i \in from + 1 .. Len(s) : Equal(p[j], s[i], sens)}
  IN  IF later = {} THEN GapScore * (Len(s) - from)
      ELSE IF at = {} THEN MinScore ELSE Max({Value(i) : i \in at})

HasLetters(q) == \E i \in 1 .. Len(q) : q[i] # " "

(* The distance is the least number of insertions, removals and changes    *)
(* that turn the input into the row.                                       *)
LevenshteinIsDistance ==
  \A s \in Rows : Levenshtein(query, s, Sensitive(query)) = EditDistance(query, s, Sensitive(query))

(* A row that the input fits is never scored worse than its best           *)
(* alignment.  It is scored neither better, and one that the input does    *)
(* not fit stays far below, unless a letter of the input behind its first  *)
(* is the first character of the row: that cell alone is counted from      *)
(* values that another row of the table left behind (helper.c:1008).       *)
LeftBehind(p, s, sens) ==
  \E j \in 2 .. Len(p) : /\ s # <<>> /\ p[j] # " " /\ Equal(p[j], s[1], sens)
                         /\ HasLetters(SubSeq(p, 1, j - 1))
FuzzyFindsBest ==
  HasLetters(query) =>
    \A s \in Rows :
      LET best == Best(query, s, 0, 0, Sensitive(query))
          score == -FuzzyScore(query, s, Sensitive(query))
          fits == best > MinScore \div 2
      IN  /\ fits => score >= best
          /\ LeftBehind(query, s, Sensitive(query))
               \/ IF fits THEN score = best ELSE score <= MinScore \div 2

(* "dp[i]: maximum value by aligning pattern[0..pi] to str[0..si]": a row  *)
(* that the input fits, with its characters in their order, is not scored  *)
(* better than its best alignment (the comment at helper.c:978).           *)
FuzzyIsAlignment ==
  HasLetters(query) =>
    \A s \in Rows : LET best == Best(query, s, 0, 0, Sensitive(query))
                    IN  best > MinScore \div 2 => -FuzzyScore(query, s, Sensitive(query)) <= best

(* For an input without a negation every row that the prefix method shows, *)
(* the normal method shows as well, and every row of that the fuzzy one;   *)
(* the method that is used is one of those that were asked for.            *)
MethodsWiden ==
  /\ method \in ToSet(enabled)
  /\ "-" \notin ToSet(query) =>
       \A s \in Rows : /\ Matches("prefix", query, s) => Matches("normal", query, s)
                       /\ Matches("normal", query, s) => Matches("fuzzy", query, s)
                       /\ {"*", "?"} \intersect ToSet(query) = {} =>
                            (Matches("normal", query, s) <=> Matches("glob", query, s))
=============================================================================
