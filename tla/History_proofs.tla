---------------------------- MODULE History_proofs ----------------------------
(***************************************************************************)
(* Proofs about several rofi processes: one at a time holds the lock on    *)
(* the pid file and writes the history, whatever is killed and replaced,   *)
(* for any set of processes.  What the writes do with a list is opaque     *)
(* here.                                                                   *)
(***************************************************************************)
EXTENDS History, SequenceLemmas, FiniteSetTheorems

USE HistoryAssumption

-----------------------------------------------------------------------------
(* Sorting by rank.                                                        *)

\* A line of a list.
LEMMA LineType ==
  ASSUME NEW l \in Seq(Line), NEW i \in 1 .. Len(l)
  PROVE  l[i].count \in Nat /\ l[i].name \in Launchable
<1>1. l[i] \in Line
  BY ElementOfSeq
<1> QED BY <1>1 DEF Line

\* The order of the lines is total and transitive.
LEMMA OrderOfLines ==
  ASSUME NEW l \in Seq(Line)
  PROVE  /\ \A i \in 1 .. Len(l) : NotBehind(l, i, i)
         /\ \A i, j \in 1 .. Len(l) : NotBehind(l, i, j) \/ NotBehind(l, j, i)
         /\ \A i, j \in 1 .. Len(l) : NotBehind(l, i, j) /\ NotBehind(l, j, i) => i = j
         /\ \A i, j, k \in 1 .. Len(l) :
              NotBehind(l, i, j) /\ NotBehind(l, j, k) => NotBehind(l, i, k)
         /\ \A i, j \in 1 .. Len(l) : NotBehind(l, i, j) => l[i].count >= l[j].count
<1>1. \A i \in 1 .. Len(l) : l[i].count \in Nat /\ i \in Nat
  BY LineType
<1>2. /\ \A i \in 1 .. Len(l) : NotBehind(l, i, i)
      /\ \A i, j \in 1 .. Len(l) : NotBehind(l, i, j) \/ NotBehind(l, j, i)
      /\ \A i, j \in 1 .. Len(l) : NotBehind(l, i, j) /\ NotBehind(l, j, i) => i = j
      /\ \A i, j \in 1 .. Len(l) : NotBehind(l, i, j) => l[i].count >= l[j].count
  BY <1>1 DEF NotBehind
<1>3. \A i, j, k \in 1 .. Len(l) :
        NotBehind(l, i, j) /\ NotBehind(l, j, k) => NotBehind(l, i, k)
  <2> TAKE i, j, k \in 1 .. Len(l)
  <2> DEFINE a == l[i].count
             b == l[j].count
             c == l[k].count
  <2>1. a \in Nat /\ b \in Nat /\ c \in Nat /\ i \in Nat /\ j \in Nat /\ k \in Nat
    BY <1>1
  <2>2. /\ NotBehind(l, i, j) <=> a > b \/ (a = b /\ i <= j)
        /\ NotBehind(l, j, k) <=> b > c \/ (b = c /\ j <= k)
        /\ NotBehind(l, i, k) <=> a > c \/ (a = c /\ i <= k)
    BY DEF NotBehind
  <2> HIDE DEF a, b, c
  <2> QED BY <2>1, <2>2
<1> QED BY <1>2, <1>3

\* Ranks are places in the list, and follow the order.
LEMMA RankOrder ==
  ASSUME NEW l \in Seq(Line)
  PROVE  /\ \A i \in 1 .. Len(l) : Rank(l, i) \in 1 .. Len(l)
         /\ \A i, j \in 1 .. Len(l) : NotBehind(l, i, j) /\ i # j => Rank(l, i) < Rank(l, j)
<1> DEFINE n == Len(l)
           Before(j) == {i \in 1 .. n : NotBehind(l, i, j)}
<1>1. n \in Nat /\ DOMAIN l = 1 .. n
  OBVIOUS
<1>2. \A j : Rank(l, j) = Cardinality(Before(j))
  BY <1>1 DEF Rank
<1>3. IsFiniteSet(1 .. n) /\ Cardinality(1 .. n) = n
  <2>1. 1 \in Int /\ n \in Int
    BY <1>1
  <2>2. IsFiniteSet(1 .. n) /\ Cardinality(1 .. n) = IF 1 > n THEN 0 ELSE n - 1 + 1
    <3> HIDE DEF n
    <3> QED BY <2>1, FS_Interval
  <2> QED BY <1>1, <2>2
<1>4. \A j \in 1 .. n : /\ IsFiniteSet(Before(j)) /\ Cardinality(Before(j)) <= n
                        /\ Cardinality(Before(j)) \in Nat
  <2> TAKE j \in 1 .. n
  <2>1. Before(j) \in SUBSET (1 .. n)
    OBVIOUS
  <2> HIDE DEF Before, n
  <2>2. IsFiniteSet(Before(j)) /\ Cardinality(Before(j)) <= n
    BY <1>3, <2>1, FS_Subset
  <2> QED BY <2>2, FS_CardinalityType
<1>5. ASSUME NEW j \in 1 .. n PROVE Cardinality(Before(j)) # 0
  <2>1. j \in Before(j)
    BY OrderOfLines
  <2> HIDE DEF Before, n
  <2> QED BY <1>4, <2>1, FS_EmptySet
<1>6. ASSUME NEW i \in 1 .. n, NEW j \in 1 .. n, NotBehind(l, i, j), i # j
      PROVE  Cardinality(Before(i)) < Cardinality(Before(j))
  <2>1. Before(i) \in SUBSET Before(j)
    BY <1>6, OrderOfLines
  <2>2. j \in Before(j) /\ j \notin Before(i)
    BY <1>6, OrderOfLines
  <2>3. IsFiniteSet(Before(j))
    BY <1>4
  <2>4. /\ Cardinality(Before(i)) <= Cardinality(Before(j))
        /\ Cardinality(Before(j)) = Cardinality(Before(i)) => Before(j) = Before(i)
    <3> HIDE DEF Before
    <3> QED BY <2>1, <2>3, FS_Subset
  <2>5. Cardinality(Before(i)) \in Nat /\ Cardinality(Before(j)) \in Nat
    BY <1>4
  <2>6. Cardinality(Before(j)) # Cardinality(Before(i))
    BY <2>2, <2>4
  <2> HIDE DEF Before
  <2> QED BY <2>4, <2>5, <2>6
<1>7. \A i \in 1 .. n : Cardinality(Before(i)) \in 1 .. n
  <2> HIDE DEF Before, n
  <2> QED BY <1>1, <1>4, <1>5
<1> QED BY <1>2, <1>6, <1>7

\* The sorted list is the list with its lines in another order, f, in which no
\* line is behind one that follows it.
Sorts(f, l) ==
  /\ f \in Bijection(1 .. Len(l), 1 .. Len(l))
  /\ ByCount(l) = [k \in 1 .. Len(l) |-> l[f[k]]]
  /\ \A k, m \in 1 .. Len(l) : k < m => NotBehind(l, f[k], f[m])

\* There is such an order: sorting by counts is a permutation of the lines.
LEMMA Sorted ==
  ASSUME NEW l \in Seq(Line)
  PROVE  \E f : Sorts(f, l)
<1> DEFINE n == Len(l)
           rank == [i \in 1 .. n |-> Rank(l, i)]
           f == [k \in 1 .. n |-> CHOOSE i \in 1 .. n : Rank(l, i) = k]
<1>1. n \in Nat /\ DOMAIN l = 1 .. n
  OBVIOUS
<1>2. rank \in [1 .. n -> 1 .. n]
  BY RankOrder
<1>3. \A i, j \in 1 .. n : Rank(l, i) = Rank(l, j) => i = j
  <2> SUFFICES ASSUME NEW i \in 1 .. n, NEW j \in 1 .. n, i # j PROVE Rank(l, i) # Rank(l, j)
    OBVIOUS
  <2>1. Rank(l, i) \in 1 .. n /\ Rank(l, j) \in 1 .. n
    BY RankOrder
  <2>2. Rank(l, i) < Rank(l, j) \/ Rank(l, j) < Rank(l, i)
    BY RankOrder, OrderOfLines
  <2> HIDE DEF n
  <2> QED BY <2>1, <2>2
<1>4. rank \in Injection(1 .. n, 1 .. n)
  BY <1>2, <1>3 DEF Injection, IsInjective
<1>5. IsFiniteSet(1 .. n)
  <2>1. 1 \in Int /\ n \in Int
    BY <1>1
  <2> HIDE DEF n
  <2> QED BY <2>1, FS_Interval
<1>6. rank \in Surjection(1 .. n, 1 .. n)
  <2> HIDE DEF n, rank
  <2> QED BY <1>4, <1>5, FS_Injection
<1>7. \A k \in 1 .. n : \E i \in 1 .. n : Rank(l, i) = k
  BY <1>6 DEF Surjection
<1>8. \A k \in 1 .. n : f[k] \in 1 .. n /\ Rank(l, f[k]) = k
  <2> HIDE DEF n
  <2> QED BY <1>7
<1>9. f \in Injection(1 .. n, 1 .. n)
  <2> HIDE DEF n
  <2> QED BY <1>8 DEF Injection, IsInjective
<1>10. \A i \in 1 .. n : \E k \in 1 .. n : f[k] = i
  <2> TAKE i \in 1 .. n
  <2>1. Rank(l, i) \in 1 .. n
    BY RankOrder
  <2>2. f[Rank(l, i)] = i
    <3> HIDE DEF n, f
    <3> QED BY <1>3, <1>8, <2>1
  <2> QED BY <2>1, <2>2
<1>11. f \in Bijection(1 .. n, 1 .. n)
  <2> HIDE DEF n
  <2> QED BY <1>8, <1>9, <1>10 DEF Bijection, Surjection
<1>12. ByCount(l) = [k \in 1 .. n |-> l[f[k]]]
  BY <1>1 DEF ByCount
<1>13. ASSUME NEW k \in 1 .. n, NEW m \in 1 .. n, k < m PROVE NotBehind(l, f[k], f[m])
  <2>1. f[k] \in 1 .. n /\ f[m] \in 1 .. n /\ Rank(l, f[k]) = k /\ Rank(l, f[m]) = m
    BY <1>8
  <2> DEFINE a == f[k]
             b == f[m]
  <2>2. NotBehind(l, a, b) \/ NotBehind(l, b, a)
    <3> HIDE DEF f
    <3> QED BY <2>1, OrderOfLines
  <2>3. NotBehind(l, b, a) /\ a # b => m < k
    <3> HIDE DEF f
    <3> QED BY <2>1, RankOrder
  <2>4. a # b
    <3> HIDE DEF f
    <3> QED BY <1>13, <2>1
  <2>5. ~ (m < k)
    BY <1>1, <1>13
  <2> HIDE DEF a, b, f, n
  <2> QED BY <2>2, <2>3, <2>4, <2>5 DEF a, b
<1>14. Sorts(f, l)
  <2> HIDE DEF f
  <2> QED BY <1>11, <1>12, <1>13 DEF Sorts
<1> QED BY <1>14

-----------------------------------------------------------------------------
(* What is written.                                                        *)

\* How much of a list is written.
SizeOf(l) == IF Len(l) > MaxHistory THEN MaxHistory ELSE Len(l)
Distinct(l) == \A i, j \in 1 .. Len(l) : i # j => l[i].name # l[j].name

\* Written takes the first lines of the sorted list, with the count of the last
\* one, which is the least, taken from each.
LEMMA WrittenFacts ==
  ASSUME NEW l \in Seq(Line), NEW f, Sorts(f, l)
  PROVE  /\ SizeOf(l) \in 0 .. Len(l) /\ SizeOf(l) <= MaxHistory
         /\ \A k \in 1 .. Len(l) : f[k] \in 1 .. Len(l)
         /\ \A k, m \in 1 .. Len(l) : f[k] = f[m] => k = m
         /\ \A i \in 1 .. Len(l) : \E k \in 1 .. Len(l) : f[k] = i
         /\ \A k, m \in 1 .. Len(l) : k < m => l[f[k]].count >= l[f[m]].count
         /\ \A k \in 1 .. Len(l) : l[f[k]].count >= l[f[Len(l)]].count
         /\ Written(l) \in Seq(Line) /\ Len(Written(l)) = SizeOf(l)
         /\ \A k \in 1 .. SizeOf(l) :
              /\ Written(l)[k].count = l[f[k]].count - l[f[Len(l)]].count
              /\ Written(l)[k].name = l[f[k]].name
<1> DEFINE n == Len(l)
           size == SizeOf(l)
           least == l[f[n]].count
           w == Written(l)
<1>1. n \in Nat /\ size \in 0 .. n /\ size <= MaxHistory
  BY DEF SizeOf
<1>2. /\ \A k \in 1 .. n : f[k] \in 1 .. n
      /\ \A k, m \in 1 .. n : f[k] = f[m] => k = m
      /\ \A i \in 1 .. n : \E k \in 1 .. n : f[k] = i
  <2> HIDE DEF n
  <2> QED BY DEF Sorts, Bijection, Injection, IsInjective, Surjection, n
<1>3. \A k, m \in 1 .. n : k < m => NotBehind(l, f[k], f[m])
  BY DEF Sorts
<1>4. \A k, m \in 1 .. n : k < m => l[f[k]].count >= l[f[m]].count
  <2> SUFFICES ASSUME NEW k \in 1 .. n, NEW m \in 1 .. n, k < m
               PROVE  l[f[k]].count >= l[f[m]].count
    OBVIOUS
  <2>1. NotBehind(l, f[k], f[m]) /\ f[k] \in 1 .. n /\ f[m] \in 1 .. n
    BY <1>2, <1>3
  <2> QED BY <2>1, OrderOfLines
<1>5. \A k \in 1 .. n : l[f[k]] \in Line /\ l[f[k]].count \in Nat /\ l[f[k]].name \in Launchable
  <2> TAKE k \in 1 .. n
  <2>1. f[k] \in 1 .. n
    BY <1>2
  <2> QED BY <2>1, LineType, ElementOfSeq
<1>6. \A k \in 1 .. n : l[f[k]].count >= least
  <2> TAKE k \in 1 .. n
  <2>1. n \in 1 .. n /\ (k < n \/ k = n)
    <3> HIDE DEF n
    <3> QED BY <1>1
  <2>2. CASE k = n
    BY <1>5, <2>1, <2>2
  <2>3. CASE k < n
    BY <1>4, <2>1, <2>3
  <2> QED BY <2>1, <2>2, <2>3
<1>7. w = [k \in 1 .. size |-> [l[f[k]] EXCEPT !.count = @ - least]]
  <2> DEFINE sorted == [k \in 1 .. n |-> l[f[k]]]
  <2>1. ByCount(l) = sorted
    BY DEF Sorts
  <2>2. Len(sorted) = n
    BY <1>1
  <2>3. w = [k \in 1 .. size |-> [sorted[k] EXCEPT !.count = @ - sorted[n].count]]
    <3> HIDE DEF sorted
    <3> QED BY <2>1, <2>2 DEF Written, SizeOf
  <2>4. ASSUME NEW k \in 1 .. size PROVE sorted[k] = l[f[k]] /\ sorted[n] = l[f[n]]
    <3>1. k \in 1 .. n /\ n \in 1 .. n
      <4> HIDE DEF n, size
      <4> QED BY <1>1, <2>4
    <3> HIDE DEF n, size
    <3> QED BY <3>1
  <2> HIDE DEF sorted, n, size
  <2> QED BY <2>3, <2>4
<1>8. \A k \in 1 .. size : w[k] = [count |-> l[f[k]].count - least, name |-> l[f[k]].name]
  <2> TAKE k \in 1 .. size
  <2>1. k \in 1 .. n
    <3> HIDE DEF n, size
    <3> QED BY <1>1
  <2>2. l[f[k]] \in Line
    BY <1>5, <2>1
  <2>3. w[k] = [l[f[k]] EXCEPT !.count = @ - least]
    <3> HIDE DEF w, n, size, least
    <3> QED BY <1>7
  <2> HIDE DEF w, n, size, least
  <2> QED BY <2>2, <2>3 DEF Line
<1>9. \A k \in 1 .. size : w[k] \in Line
  <2> TAKE k \in 1 .. size
  <2>1. k \in 1 .. n /\ n \in 1 .. n
    <3> HIDE DEF n, size
    <3> QED BY <1>1
  <2>2. l[f[k]].count \in Nat /\ l[f[k]].name \in Launchable /\ least \in Nat
        /\ l[f[k]].count >= least
    BY <1>5, <1>6, <2>1
  <2>3. l[f[k]].count - least \in Nat
    <3> HIDE DEF least
    <3> QED BY <2>2
  <2>4. w[k] = [count |-> l[f[k]].count - least, name |-> l[f[k]].name]
    BY <1>8
  <2> HIDE DEF w, n, size, least
  <2> QED BY <2>2, <2>3, <2>4 DEF Line
<1>10. w \in Seq(Line) /\ Len(w) = size
  <2>1. w = [k \in 1 .. size |-> w[k]]
    <3> HIDE DEF size, n, least
    <3> QED BY <1>7
  <2> HIDE DEF w, n, size
  <2> QED BY <1>1, <1>9, <2>1
<1>11. \A k \in 1 .. size : w[k].count = l[f[k]].count - least /\ w[k].name = l[f[k]].name
  <2> TAKE k \in 1 .. size
  <2>1. w[k] = [count |-> l[f[k]].count - least, name |-> l[f[k]].name]
    BY <1>8
  <2> HIDE DEF w, n, size, least
  <2> QED BY <2>1
<1> QED BY <1>1, <1>2, <1>4, <1>6, <1>10, <1>11

\* Written keeps the order and does not make doubles.
LEMMA WrittenOrder ==
  ASSUME NEW l \in Seq(Line), Distinct(l)
  PROVE  /\ Written(l) \in Seq(Line) /\ Len(Written(l)) <= MaxHistory
         /\ \A k, m \in 1 .. Len(Written(l)) : k < m =>
              /\ Written(l)[k].name # Written(l)[m].name
              /\ Written(l)[k].count >= Written(l)[m].count
<1>1. PICK f : Sorts(f, l)
  BY Sorted
<1> DEFINE n == Len(l)
           w == Written(l)
           c(k) == l[f[k]].count
<1>2. n \in Nat /\ SizeOf(l) \in 0 .. n
  BY <1>1, WrittenFacts
<1>3. ASSUME NEW k \in 1 .. SizeOf(l), NEW m \in 1 .. SizeOf(l), k < m
      PROVE  w[k].name # w[m].name /\ w[k].count >= w[m].count
  <2>1. k \in 1 .. n /\ m \in 1 .. n /\ n \in 1 .. n /\ k # m
    <3> HIDE DEF n
    <3> QED BY <1>2, <1>3
  <2>2. f[k] \in 1 .. n /\ f[m] \in 1 .. n /\ f[n] \in 1 .. n /\ f[k] # f[m] /\ c(k) >= c(m)
    <3>1. f[k] \in 1 .. n /\ f[m] \in 1 .. n /\ f[n] \in 1 .. n
      BY <1>1, <2>1, WrittenFacts
    <3>2. f[k] # f[m]
      BY <1>1, <2>1, WrittenFacts
    <3>3. c(k) >= c(m)
      BY <1>1, <1>3, <2>1, WrittenFacts
    <3> HIDE DEF c
    <3> QED BY <3>1, <3>2, <3>3
  <2>3. l[f[k]].name # l[f[m]].name
    BY <2>2 DEF Distinct
  <2>4. c(k) \in Nat /\ c(m) \in Nat /\ c(n) \in Nat
    BY <2>2, LineType
  <2>5. /\ w[k].count = c(k) - c(n) /\ w[m].count = c(m) - c(n)
        /\ w[k].name = l[f[k]].name /\ w[m].name = l[f[m]].name
    BY <1>1, <1>3, WrittenFacts
  <2>6. w[k].count >= w[m].count
    <3> HIDE DEF c, w
    <3> QED BY <2>2, <2>4, <2>5
  <2> QED BY <2>3, <2>5, <2>6
<1> QED BY <1>1, <1>3, WrittenFacts

\* A list that is not too long is written with all of its names, and the last
\* line has no count left.
LEMMA WrittenWhole ==
  ASSUME NEW l \in Seq(Line), Len(l) <= MaxHistory
  PROVE  /\ Len(Written(l)) = Len(l)
         /\ \A i \in 1 .. Len(l) : \E k \in 1 .. Len(l) : Written(l)[k].name = l[i].name
         /\ Len(l) > 0 => Written(l)[Len(l)].count = 0
<1>1. PICK f : Sorts(f, l)
  BY Sorted
<1>2. SizeOf(l) = Len(l) /\ Len(l) \in Nat
  BY DEF SizeOf
<1>3. \A i \in 1 .. Len(l) : \E k \in 1 .. Len(l) : Written(l)[k].name = l[i].name
  <2> TAKE i \in 1 .. Len(l)
  <2>1. PICK k \in 1 .. Len(l) : f[k] = i
    BY <1>1, WrittenFacts
  <2>2. k \in 1 .. SizeOf(l)
    BY <1>2
  <2>3. Written(l)[k].name = l[f[k]].name
    BY <1>1, <2>2, WrittenFacts
  <2> QED BY <2>1, <2>3
<1>4. ASSUME Len(l) > 0 PROVE Written(l)[Len(l)].count = 0
  <2> DEFINE n == Len(l)
             c == l[f[n]].count
  <2>1. n \in 1 .. n
    BY <1>2, <1>4
  <2>2. Written(l)[n].count = c - c
    BY <1>1, <1>2, <2>1, WrittenFacts
  <2>3. f[n] \in 1 .. n
    BY <1>1, <2>1, WrittenFacts
  <2>4. c \in Nat
    BY <2>3, LineType
  <2> HIDE DEF c, n
  <2> QED BY <2>2, <2>4 DEF n
<1> QED BY <1>1, <1>2, <1>3, <1>4, WrittenFacts

-----------------------------------------------------------------------------
(* Uses and removals.                                                      *)

\* A list has a name when one of its lines has it, and the first such line is
\* one of the list.
LEMMA NameFacts ==
  ASSUME NEW l \in Seq(Line), NEW e
  PROVE  /\ HasName(l, e) <=> \E i \in 1 .. Len(l) : l[i].name = e
         /\ HasName(l, e) => FirstOf(l, e) \in 1 .. Len(l) /\ l[FirstOf(l, e)].name = e
<1>1. DOMAIN l = 1 .. Len(l) /\ Len(l) \in Nat
  OBVIOUS
<1>2. HasName(l, e) <=> \E i \in 1 .. Len(l) : l[i].name = e
  <2>1. DOMAIN NamesOf(l) = 1 .. Len(l) /\ \A i \in 1 .. Len(l) : NamesOf(l)[i] = l[i].name
    BY <1>1 DEF NamesOf
  <2> QED BY <2>1 DEF HasName, ToSet
<1>3. ASSUME HasName(l, e) PROVE FirstOf(l, e) \in 1 .. Len(l) /\ l[FirstOf(l, e)].name = e
  <2> DEFINE T == {i \in 1 .. Len(l) : l[i].name = e}
  <2>1. T \subseteq Nat /\ T # {}
    BY <1>1, <1>2, <1>3
  <2>2. PICK i \in T : \A j \in T : i <= j
    <3> HIDE DEF T
    <3> QED BY <2>1, Least
  <2>3. \A j \in 1 .. i - 1 : l[j].name # e
    <3> TAKE j \in 1 .. i - 1
    <3>1. j \in 1 .. Len(l) /\ ~ (i <= j)
      BY <1>1, <2>2
    <3> QED BY <2>2, <3>1
  <2>4. \E x \in DOMAIN l : l[x].name = e /\ \A j \in 1 .. x - 1 : l[j].name # e
    BY <1>1, <2>2, <2>3
  <2>5. FirstOf(l, e) \in DOMAIN l /\ l[FirstOf(l, e)].name = e
    BY <2>4 DEF FirstOf
  <2> QED BY <1>1, <2>5
<1> QED BY <1>2, <1>3

\* A list that is kept has no doubles.
LEMMA KeptFacts ==
  ASSUME NEW l, Kept(l)
  PROVE  l \in Seq(Line) /\ Distinct(l) /\ Len(l) \in Nat /\ Len(l) <= MaxHistory
<1>1. l \in Seq(Line) /\ Len(l) \in Nat /\ Len(l) <= MaxHistory
  BY DEF Kept
<1>2. ASSUME NEW i \in 1 .. Len(l), NEW j \in 1 .. Len(l), i # j PROVE l[i].name # l[j].name
  <2>1. i < j \/ j < i
    BY <1>1, <1>2
  <2> QED BY <2>1 DEF Kept
<1> QED BY <1>1, <1>2 DEF Distinct

\* The list that history_set sorts: with one count more, or one line more.
LEMMA RecordedFacts ==
  ASSUME NEW l, Kept(l), NEW e \in Launchable
  PROVE  /\ Recorded(l, e) \in Seq(Line) /\ Distinct(Recorded(l, e))
         /\ \E i \in 1 .. Len(Recorded(l, e)) : Recorded(l, e)[i].name = e
         /\ HasName(l, e) => Len(Recorded(l, e)) = Len(l)
         /\ ~ HasName(l, e) =>
              /\ Len(Recorded(l, e)) = Len(l) + 1
              /\ \A i \in 1 .. Len(l) : Recorded(l, e)[i] = l[i]
              /\ Recorded(l, e)[Len(l) + 1].count = 1 /\ Recorded(l, e)[Len(l) + 1].name = e
<1> DEFINE r == Recorded(l, e)
           n == Len(l)
<1>1. l \in Seq(Line) /\ Distinct(l) /\ n \in Nat
  BY KeptFacts
<1>2. CASE HasName(l, e)
  <2> DEFINE x == FirstOf(l, e)
  <2>1. x \in 1 .. n /\ l[x].name = e
    BY <1>1, <1>2, NameFacts
  <2>2. l[x] \in Line /\ l[x].count + 1 \in Nat /\ l[x].name \in Launchable
    <3>1. l[x].count \in Nat
      BY <1>1, <2>1, LineType
    <3> DEFINE c == l[x].count
    <3>2. c + 1 \in Nat
      <4> HIDE DEF c
      <4> QED BY <3>1 DEF c
    <3> QED BY <1>1, <2>1, <3>2, LineType, ElementOfSeq
  <2> DEFINE line == [l[x] EXCEPT !.count = @ + 1]
  <2>3. line \in Line /\ line.name = e
    BY <2>1, <2>2 DEF Line
  <2>4. r = [l EXCEPT ![x] = line]
    BY <1>2 DEF Recorded
  <2> HIDE DEF line, x
  <2>5. r \in Seq(Line) /\ Len(r) = n
    BY <1>1, <2>1, <2>3, <2>4
  <2>6. \A i \in 1 .. n : r[i].name = l[i].name
    BY <1>1, <2>1, <2>3, <2>4
  <2>7. Distinct(r)
    BY <1>1, <2>5, <2>6 DEF Distinct
  <2> HIDE DEF r
  <2> QED BY <1>2, <2>1, <2>5, <2>6, <2>7 DEF r
<1>3. CASE ~ HasName(l, e)
  <2> DEFINE line == [count |-> 1, name |-> e]
  <2>1. line \in Line /\ line.count = 1 /\ line.name = e
    BY DEF Line
  <2>2. r = Append(l, line)
    BY <1>3 DEF Recorded
  <2> HIDE DEF line
  <2>3. r \in Seq(Line) /\ Len(r) = n + 1 /\ r[n + 1] = line /\ \A i \in 1 .. n : r[i] = l[i]
    BY <1>1, <2>1, <2>2, AppendProperties
  <2>4. \A i \in 1 .. n : l[i].name # e
    BY <1>1, <1>3, NameFacts
  <2>5. Distinct(r)
    <3> SUFFICES ASSUME NEW i \in 1 .. Len(r), NEW j \in 1 .. Len(r), i # j
                 PROVE  r[i].name # r[j].name
      BY DEF Distinct
    <3>1. (i \in 1 .. n \/ i = n + 1) /\ (j \in 1 .. n \/ j = n + 1)
      BY <1>1, <2>3
    <3>2. CASE i \in 1 .. n /\ j \in 1 .. n
      BY <1>1, <2>3, <3>2 DEF Distinct
    <3>3. CASE i \in 1 .. n /\ j = n + 1
      BY <2>1, <2>3, <2>4, <3>3
    <3>4. CASE i = n + 1 /\ j \in 1 .. n
      BY <2>1, <2>3, <2>4, <3>4
    <3> QED BY <3>1, <3>2, <3>3, <3>4
  <2>6. n + 1 \in 1 .. Len(r)
    BY <1>1, <2>3
  <2> HIDE DEF r
  <2> QED BY <1>3, <2>1, <2>3, <2>5, <2>6 DEF r
<1> QED BY <1>2, <1>3

\* A list that became too long: its last written line was used at most once more
\* than the line that falls out, and what was launched falls out only when all
\* the others have a count; the last one then has none left.
LEMMA TooLong ==
  ASSUME NEW l, Kept(l), NEW e \in Launchable, Len(Recorded(l, e)) > MaxHistory, MaxHistory > 0
  PROVE  /\ ~ HasName(l, e) /\ Len(l) = MaxHistory /\ Len(AfterUse(l, e)) = MaxHistory
         /\ AfterUse(l, e)[MaxHistory].count <= 1
         /\ ~ HasName(AfterUse(l, e), e) =>
              /\ \A i \in 1 .. MaxHistory : l[i].count >= 1
              /\ AfterUse(l, e)[MaxHistory].count = 0
<1> DEFINE r == Recorded(l, e)
           M == MaxHistory
           w == AfterUse(l, e)
<1>1. l \in Seq(Line) /\ Len(l) \in Nat /\ Len(l) <= M /\ M \in Nat
  BY KeptFacts
<1>2. r \in Seq(Line) /\ ~ HasName(l, e) /\ Len(l) = M /\ Len(r) = M + 1
  <2>1. r \in Seq(Line) /\ (HasName(l, e) => Len(r) = Len(l))
        /\ (~ HasName(l, e) => Len(r) = Len(l) + 1)
    BY RecordedFacts
  <2> HIDE DEF r
  <2> QED BY <1>1, <2>1 DEF r
<1>3. (\A i \in 1 .. M : r[i] = l[i]) /\ r[M + 1].count = 1 /\ r[M + 1].name = e
  BY <1>2, RecordedFacts
<1>4. PICK f : Sorts(f, r)
  BY <1>2, Sorted
<1>4a. /\ \A k \in 1 .. Len(r) : f[k] \in 1 .. Len(r)
       /\ \A i \in 1 .. Len(r) : \E k \in 1 .. Len(r) : f[k] = i
       /\ \A k, m \in 1 .. Len(r) : k < m => r[f[k]].count >= r[f[m]].count
       /\ Written(r) \in Seq(Line) /\ Len(Written(r)) = SizeOf(r)
       /\ \A i \in 1 .. SizeOf(r) :
            /\ Written(r)[i].count = r[f[i]].count - r[f[Len(r)]].count
            /\ Written(r)[i].name = r[f[i]].name
  <2>1. r \in Seq(Line)
    BY <1>2
  <2> HIDE DEF r, w, M
  <2> QED BY <1>4, <2>1, WrittenFacts
<1> DEFINE c == [k \in 1 .. M + 1 |-> r[f[k]].count]
<1>5. SizeOf(r) = M /\ w = Written(r)
  BY <1>1, <1>2 DEF SizeOf, AfterUse
<1>6. /\ \A k \in 1 .. M + 1 : f[k] \in 1 .. M + 1
      /\ \A i \in 1 .. M + 1 : \E k \in 1 .. M + 1 : f[k] = i
  <2>1. /\ \A k \in 1 .. Len(r) : f[k] \in 1 .. Len(r)
        /\ \A i \in 1 .. Len(r) : \E k \in 1 .. Len(r) : f[k] = i
    BY <1>4a
  <2> HIDE DEF r
  <2> QED BY <1>2, <2>1
<1>7. \A k \in 1 .. M + 1 : c[k] \in Nat /\ c[k] = r[f[k]].count
  BY <1>2, <1>6, LineType
<1>8. \A k, m \in 1 .. M + 1 : k < m => c[k] >= c[m]
  <2>1. \A k, m \in 1 .. Len(r) : k < m => r[f[k]].count >= r[f[m]].count
    BY <1>4a
  <2> HIDE DEF r
  <2> QED BY <1>2, <2>1
<1>9. w \in Seq(Line) /\ Len(w) = M
  BY <1>4a, <1>5
<1>10. \A k \in 1 .. M : w[k].count = c[k] - c[M + 1] /\ w[k].name = r[f[k]].name
  <2> TAKE k \in 1 .. M
  <2>1. k \in 1 .. SizeOf(r) /\ k \in 1 .. M + 1 /\ M + 1 \in 1 .. M + 1
    BY <1>1, <1>5
  <2>2. w[k].count = r[f[k]].count - r[f[M + 1]].count /\ w[k].name = r[f[k]].name
    <3>1. /\ Written(r)[k].count = r[f[k]].count - r[f[Len(r)]].count
          /\ Written(r)[k].name = r[f[k]].name
      <4> HIDE DEF r, w, c, M
      <4>1. \A i \in 1 .. SizeOf(r) :
              /\ Written(r)[i].count = r[f[i]].count - r[f[Len(r)]].count
              /\ Written(r)[i].name = r[f[i]].name
        BY <1>4a
      <4> QED BY <2>1, <4>1
    <3> HIDE DEF r, w
    <3> QED BY <1>2, <1>5, <3>1
  <2> QED BY <1>7, <2>1, <2>2
<1>11. M \in 1 .. M /\ M \in 1 .. M + 1 /\ M + 1 \in 1 .. M + 1
  BY <1>1
<1> HIDE DEF c, w, r, M
<1>12. PICK last \in 1 .. M + 1 : f[last] = M + 1
  BY <1>6, <1>11
<1>13. c[last] = 1
  BY <1>3, <1>7, <1>12
<1>14. l[M].count <= 1 /\ l[M].count \in Nat
  <2>1. l # <<>>
    BY <1>1, <1>2 DEF M
  <2> QED BY <1>1, <1>2, <1>11, <2>1, LineType DEF Kept
<1>15. c[M] <= 1
  <2>1. CASE last \in 1 .. M
    BY <1>1, <1>7, <1>8, <1>11, <1>13, <2>1
  <2>2. CASE last = M + 1
    <3>1. PICK k \in 1 .. M + 1 : f[k] = M
      BY <1>6, <1>11
    <3>2. k # M + 1
      BY <1>1, <1>12, <2>2, <3>1
    <3>3. k \in 1 .. M
      BY <1>1, <3>1, <3>2
    <3>4. c[k] <= 1
      BY <1>3, <1>7, <1>11, <1>14, <3>1
    <3> QED BY <1>1, <1>7, <1>8, <1>11, <3>3, <3>4
  <2> QED BY <1>1, <1>12, <2>1, <2>2
<1>16. w[M].count <= 1
  BY <1>7, <1>10, <1>11, <1>15
<1>17. ASSUME ~ HasName(w, e)
       PROVE  /\ \A i \in 1 .. M : l[i].count >= 1
              /\ w[M].count = 0
  <2>1. last = M + 1
    <3> SUFFICES ASSUME last \in 1 .. M PROVE FALSE
      BY <1>1, <1>12
    <3>1. w[last].name = e
      BY <1>3, <1>10, <1>12
    <3> QED BY <1>9, <1>17, <3>1, NameFacts
  <2>2. c[M + 1] = 1
    BY <1>13, <2>1
  <2>3. \A i \in 1 .. M : l[i].count >= 1
    <3> TAKE i \in 1 .. M
    <3>1. i \in 1 .. M + 1 /\ i # M + 1
      BY <1>1
    <3>2. PICK k \in 1 .. M + 1 : f[k] = i
      BY <1>6, <3>1
    <3>3. k \in 1 .. M /\ k < M + 1
      BY <1>1, <1>12, <2>1, <3>1, <3>2
    <3>4. c[k] >= c[M + 1]
      BY <1>8, <1>11, <3>2, <3>3
    <3> QED BY <1>3, <1>7, <2>2, <3>2, <3>4
  <2>4. c[M] >= c[M + 1]
    BY <1>1, <1>8, <1>11
  <2>5. w[M].count = 0
    BY <1>7, <1>10, <1>11, <1>15, <2>2, <2>4
  <2> QED BY <2>3, <2>5
<1> QED BY <1>2, <1>9, <1>16, <1>17 DEF M, w

\* What history_set writes is kept.
LEMMA UseKept ==
  ASSUME NEW l, Kept(l), NEW e \in Launchable
  PROVE  Kept(AfterUse(l, e))
<1> DEFINE r == Recorded(l, e)
           w == AfterUse(l, e)
<1>1. r \in Seq(Line) /\ Distinct(r) /\ Len(r) \in Nat /\ w = Written(r)
  BY RecordedFacts DEF AfterUse
<1>2. /\ w \in Seq(Line) /\ Len(w) <= MaxHistory
      /\ \A k, m \in 1 .. Len(w) : k < m => w[k].name # w[m].name /\ w[k].count >= w[m].count
  BY <1>1, WrittenOrder
<1>3. ASSUME w # <<>> PROVE w[Len(w)].count <= 1
  <2>1. CASE Len(r) <= MaxHistory
    <3>1. Len(w) = Len(r)
      BY <1>1, <2>1, WrittenWhole
    <3>2. Len(r) > 0
      BY <1>1, <1>2, <1>3, <3>1, EmptySeq
    <3>3. w[Len(w)].count = 0
      BY <1>1, <2>1, <3>1, <3>2, WrittenWhole
    <3> QED BY <3>3
  <2>2. CASE Len(r) > MaxHistory
    <3>1. CASE MaxHistory > 0
      BY <2>2, <3>1, TooLong
    <3>2. CASE MaxHistory = 0
      <4>1. Len(w) = 0
        BY <1>2, <3>2
      <4> QED BY <1>2, <1>3, <4>1, EmptySeq
    <3> QED BY <3>1, <3>2
  <2> QED BY <1>1, <2>1, <2>2
<1> QED BY <1>2, <1>3 DEF Kept

\* What is launched twice in a row is in the history.
LEMMA UsedTwice ==
  ASSUME NEW l, Kept(l), NEW e \in Launchable, MaxHistory > 0
  PROVE  HasName(AfterUse(AfterUse(l, e), e), e)
<1> DEFINE a == AfterUse(l, e)
           b == AfterUse(a, e)
<1>1. Kept(a) /\ Kept(b)
  BY UseKept
<1> HIDE DEF a, b
<1>2. ASSUME Len(Recorded(a, e)) <= MaxHistory PROVE HasName(b, e)
  <2> DEFINE r == Recorded(a, e)
  <2>1. r \in Seq(Line) /\ b = Written(r)
    BY <1>1, RecordedFacts DEF AfterUse, b
  <2>2. PICK i \in 1 .. Len(r) : r[i].name = e
    BY <1>1, RecordedFacts
  <2>3. Len(b) = Len(r) /\ \E k \in 1 .. Len(r) : b[k].name = r[i].name
    BY <1>2, <2>1, <2>2, WrittenWhole
  <2>4. b \in Seq(Line)
    BY <1>1, KeptFacts
  <2> HIDE DEF r
  <2> QED BY <2>2, <2>3, <2>4, NameFacts
<1>3. ASSUME Len(Recorded(a, e)) > MaxHistory, ~ HasName(b, e) PROVE FALSE
  <2>1. ~ HasName(a, e) /\ \A i \in 1 .. MaxHistory : a[i].count >= 1
    BY <1>1, <1>3, TooLong DEF b
  <2>2. Len(Recorded(l, e)) > MaxHistory
    <3> SUFFICES ASSUME ~ (Len(Recorded(l, e)) > MaxHistory) PROVE FALSE
      OBVIOUS
    <3> DEFINE r == Recorded(l, e)
    <3>1. r \in Seq(Line) /\ a = Written(r) /\ Len(r) \in Nat
      BY RecordedFacts DEF AfterUse, a
    <3>2. PICK i \in 1 .. Len(r) : r[i].name = e
      BY RecordedFacts
    <3>3. Len(r) <= MaxHistory
      BY <3>1
    <3>4. Len(a) = Len(r) /\ \E k \in 1 .. Len(r) : a[k].name = r[i].name
      BY <3>1, <3>2, <3>3, WrittenWhole
    <3>5. a \in Seq(Line)
      BY <1>1, KeptFacts
    <3> HIDE DEF r
    <3> QED BY <2>1, <3>2, <3>4, <3>5, NameFacts
  <2>3. a[MaxHistory].count = 0
    BY <2>1, <2>2, TooLong DEF a
  <2>4. MaxHistory \in 1 .. MaxHistory
    OBVIOUS
  <2> QED BY <2>1, <2>3, <2>4
<1>4. Len(Recorded(a, e)) \in Nat
  BY <1>1, RecordedFacts
<1> QED BY <1>2, <1>3, <1>4 DEF a, b

\* What history_remove writes is kept.
LEMMA RemovalKept ==
  ASSUME NEW l, Kept(l), NEW e
  PROVE  Kept(AfterRemoval(l, e))
<1>1. CASE ~ HasName(l, e)
  BY <1>1 DEF AfterRemoval
<1>2. CASE HasName(l, e)
  <2> DEFINE x == FirstOf(l, e)
             n == Len(l)
             q == [l EXCEPT ![x] = l[n]]
             r == Forgotten(l, e)
             w == Written(r)
  <2>1. l \in Seq(Line) /\ Distinct(l) /\ n \in Nat /\ n <= MaxHistory
    BY KeptFacts
  <2>2. x \in 1 .. n
    BY <1>2, <2>1, NameFacts
  <2>3. n \in 1 .. n /\ n - 1 \in Nat /\ n - 1 \in 0 .. n
    <3> HIDE DEF n, x
    <3> QED BY <2>1, <2>2
  <2>4. l[n] \in Line
    BY <2>1, <2>3, ElementOfSeq
  <2>5. q \in Seq(Line) /\ Len(q) = n
    BY <2>1, <2>2, <2>4
  <2>6. \A i \in 1 .. n : q[i] = IF i = x THEN l[n] ELSE l[i]
    BY <2>1, <2>2
  <2>7. r = SubSeq(q, 1, n - 1)
    BY DEF Forgotten
  <2>8. r \in Seq(Line) /\ Len(r) = n - 1 /\ \A i \in 1 .. n - 1 : r[i] = q[i]
    <3> HIDE DEF q, r, n
    <3> QED BY <2>1, <2>3, <2>5, <2>7
  <2>9. Distinct(r)
    <3> SUFFICES ASSUME NEW i \in 1 .. Len(r), NEW j \in 1 .. Len(r), i # j
                 PROVE  r[i].name # r[j].name
      BY DEF Distinct
    <3>1. i \in 1 .. n - 1 /\ j \in 1 .. n - 1 /\ i \in 1 .. n /\ j \in 1 .. n
          /\ i # n /\ j # n
      <4> HIDE DEF n, r
      <4> QED BY <2>1, <2>8
    <3>2. r[i] = (IF i = x THEN l[n] ELSE l[i]) /\ r[j] = (IF j = x THEN l[n] ELSE l[j])
      BY <2>6, <2>8, <3>1
    <3> HIDE DEF n, r, x, q
    <3> QED BY <2>1, <2>3, <3>1, <3>2 DEF Distinct, n
  <2>10. /\ w \in Seq(Line) /\ Len(w) <= MaxHistory
         /\ \A k, m \in 1 .. Len(w) : k < m => w[k].name # w[m].name /\ w[k].count >= w[m].count
    BY <2>8, <2>9, WrittenOrder
  <2>11. Len(r) <= MaxHistory /\ Len(r) \in Nat
    BY <2>1, <2>3, <2>8
  <2>12. Len(w) = Len(r) /\ (Len(r) > 0 => w[Len(r)].count = 0)
    BY <2>8, <2>11, WrittenWhole
  <2>13. w # <<>> => w[Len(w)].count <= 1
    <3> HIDE DEF w, r
    <3> QED BY <2>10, <2>11, <2>12, EmptySeq
  <2>14. Kept(w)
    <3> HIDE DEF w
    <3> QED BY <2>10, <2>13 DEF Kept
  <2> QED BY <1>2, <2>14 DEF AfterRemoval
<1> QED BY <1>1, <1>2

-----------------------------------------------------------------------------
(* The lock.                                                               *)

\* Where a process can be.
Places == Running \cup {"off", "open", "again", "busy", "spin", "close", "locked", "cleared"}

\* The first state: nobody runs.
LEMMA InitInv == HistoryInit => LockInv
<1> SUFFICES ASSUME HistoryInit PROVE LockInv
  OBVIOUS
<1>1. LockTypeOK
  <2>1. (CHOOSE e \in Launchable : TRUE) \in Launchable
    OBVIOUS
  <2> QED BY <2>1 DEF LockTypeOK, HistoryInit
<1>2. LockIsHeld
  BY DEF LockIsHeld, HistoryInit, Running
<1>3. Writing = {}
  BY DEF Writing, HistoryInit
<1>4. ReadIsDue
  BY <1>3 DEF ReadIsDue, HistoryInit
<1> QED BY <1>1, <1>2, <1>4 DEF LockInv

\* Only one process is past its lock.
LEMMA Alone ==
  ASSUME LockInv, NEW p \in Rofi, NEW q \in Rofi,
         at[p] \in Running \cup {"locked", "cleared", "close"},
         at[q] \in Running \cup {"locked", "cleared", "close"}
  PROVE  p = q
BY DEF LockInv, LockIsHeld

\* A step of p that moves p alone, does not touch the files and does not take
\* the lock from anyone, keeps the invariant, if where it goes is covered by it.
LEMMA MoveKeeps ==
  ASSUME LockInv, NEW p \in Rofi, NEW to \in Places, at' = [at EXCEPT ![p] = to],
         at[p] \notin {"cutuse", "cutremove"}, to \notin {"use", "remove", "cutuse", "cutremove"},
         UNCHANGED <<hist, list, entry, due>>,
         holder' \in {holder, "none", p}, pidIn' \in Rofi \cup {"empty"},
         holder' = p \/ to \notin Running \cup {"locked", "cleared", "close"},
         holder' # holder => holder \in {p, "none"}
  PROVE  LockInv'
<1>1. LockTypeOK'
  BY DEF LockInv, LockTypeOK, Places
<1>2. LockIsHeld'
  BY DEF LockInv, LockTypeOK, LockIsHeld
<1>3. Writing' = Writing
  BY DEF LockInv, LockTypeOK, Writing
<1>4. ReadIsDue'
  BY <1>3 DEF LockInv, LockTypeOK, ReadIsDue
<1> QED BY <1>1, <1>2, <1>4 DEF LockInv

\* A process starts, tries the lock, gives it up, or writes its pid.
LEMMA StartInv == ASSUME LockInv, NEW p \in Rofi, Start(p) PROVE LockInv'
<1>1. "open" \in Places
  BY DEF Places
<1> QED BY <1>1, MoveKeeps DEF Start, Running, LockInv, LockTypeOK

\* The lock is taken, or somebody else has it.
LEMMA TryLockInv == ASSUME LockInv, NEW p \in Rofi, TryLock(p) PROVE LockInv'
<1>1. "locked" \in Places /\ "busy" \in Places /\ "off" \in Places
  BY DEF Places
<1> QED BY <1>1, MoveKeeps DEF TryLock, Go, Running, LockInv, LockTypeOK

\* A process that waits takes the lock when it is free.
LEMMA SpinInv == ASSUME LockInv, NEW p \in Rofi, Spin(p) PROVE LockInv'
<1>1. "close" \in Places
  BY DEF Places
<1> QED BY <1>1, MoveKeeps DEF Spin, Go, Running, LockInv, LockTypeOK

\* The lock that was waited for is given away again.
LEMMA CloseInv == ASSUME LockInv, NEW p \in Rofi, Close(p) PROVE LockInv'
<1>1. "again" \in Places /\ holder = p
  BY DEF Places, Close, LockInv, LockIsHeld
<1> QED BY <1>1, MoveKeeps DEF Close, Go, Running, LockInv, LockTypeOK

\* The holder clears the pid file, then writes its pid into it.
LEMMA WritePidInv == ASSUME LockInv, NEW p \in Rofi, WritePid(p) PROVE LockInv'
<1>1. "cleared" \in Places /\ "run" \in Places /\ holder = p
  BY DEF Places, Running, WritePid, LockInv, LockIsHeld
<1> QED BY <1>1, MoveKeeps DEF WritePid, Go, Running, LockInv, LockTypeOK

\* The holder ends and gives the lock away.
LEMMA QuitInv == ASSUME LockInv, NEW p \in Rofi, Quit(p) PROVE LockInv'
<1>1. "off" \in Places /\ holder = p
  BY DEF Places, Running, Quit, LockInv, LockIsHeld
<1> QED BY <1>1, MoveKeeps DEF Quit, Go, Running, LockInv, LockTypeOK

\* A process kills the one whose pid it read, which may hold the lock, or be
\* gone, or write: then the file stays empty.
LEMMA KillInv == ASSUME LockInv, NEW p \in Rofi, KillRunning(p) PROVE LockInv'
<1>0. LockTypeOK /\ LockIsHeld /\ ReadIsDue /\ at[p] = "busy"
  BY DEF LockInv, KillRunning
<1>1. CASE pidIn = "empty"
  <2>1. "again" \in Places
    BY DEF Places
  <2> QED BY <1>0, <1>1, <2>1, MoveKeeps DEF KillRunning, Running, LockTypeOK
<1>2. CASE pidIn # "empty"
  <2> DEFINE q == pidIn
  <2>1. /\ q \in Rofi /\ UNCHANGED <<pidIn, hist, list, entry>>
        /\ at' = [at EXCEPT ![p] = "spin", ![q] = "off"]
        /\ holder' = IF holder = q THEN "none" ELSE holder
        /\ due' = IF at[q] \in {"cutuse", "cutremove"} THEN <<>> ELSE due
    BY <1>0, <1>2 DEF KillRunning, LockTypeOK
  <2>2. LockTypeOK'
    BY <1>0, <2>1 DEF LockTypeOK
  <2>3. \A r \in Rofi : at'[r] = IF r = q THEN "off" ELSE IF r = p THEN "spin" ELSE at[r]
    BY <1>0, <2>1 DEF LockTypeOK
  <2>4. LockIsHeld'
    BY <1>0, <2>1, <2>3 DEF LockIsHeld, Running
  <2>5. CASE at[q] \in {"cutuse", "cutremove"}
    <3>1. \A r \in Rofi \ {q} : at[r] \notin Running
      BY <1>0, <2>1, <2>5 DEF LockIsHeld, Running
    <3>2. Writing' = {}
      BY <2>3, <3>1 DEF Writing, Running
    <3>3. q \in Writing
      BY <2>1, <2>5 DEF Writing
    <3>4. hist' = <<>> /\ due' = <<>>
      BY <1>0, <2>1, <2>5, <3>3 DEF ReadIsDue
    <3>5. \A r \in Rofi : at'[r] \notin {"use", "remove", "cutuse", "cutremove"}
      BY <2>3, <3>1 DEF Running
    <3> QED BY <2>2, <2>4, <3>2, <3>4, <3>5 DEF LockInv, ReadIsDue
  <2>6. CASE at[q] \notin {"cutuse", "cutremove"}
    <3>1. Writing' = Writing
      BY <1>0, <2>3, <2>6 DEF Writing
    <3>2. ReadIsDue'
      <4>1. UNCHANGED <<hist, list, due>>
        BY <2>1, <2>6
      <4>2. \A r \in Rofi : at'[r] \in {"off", "spin", at[r]}
        BY <2>3
      <4>3. \A r \in Rofi : at'[r] \in {"use", "remove", "cutuse", "cutremove"} => list'[r] = due'
        BY <1>0, <4>1, <4>2 DEF ReadIsDue
      <4>4. hist' = IF Writing' = {} THEN due' ELSE <<>>
        BY <1>0, <3>1, <4>1 DEF ReadIsDue
      <4> QED BY <4>3, <4>4 DEF ReadIsDue
    <3> QED BY <2>2, <2>4, <3>2 DEF LockInv
  <2> QED BY <2>5, <2>6
<1> QED BY <1>1, <1>2

\* The history is read by the one process that runs, while nobody writes.
LEMMA ReadInv ==
  ASSUME LockInv, NEW p \in Rofi, NEW e \in Launchable, at[p] = "run",
         NEW next \in {"use", "remove", "end"}, Read(p, e, next)
  PROVE  LockInv'
<1>0. LockTypeOK /\ LockIsHeld /\ ReadIsDue
  BY DEF LockInv
<1>1. /\ entry' = [entry EXCEPT ![p] = e] /\ list' = [list EXCEPT ![p] = hist]
      /\ at' = [at EXCEPT ![p] = next] /\ UNCHANGED <<holder, pidIn, hist, due>>
  BY DEF Read
<1>2. LockTypeOK'
  BY <1>0, <1>1 DEF LockTypeOK, Running
<1>3. LockIsHeld'
  BY <1>0, <1>1 DEF LockIsHeld, LockTypeOK, Running
<1>4. \A q \in Rofi \ {p} : at[q] \notin Running /\ at'[q] = at[q]
  BY <1>0, <1>1 DEF LockIsHeld, LockTypeOK, Running
<1>5. Writing = {} /\ Writing' = {}
  BY <1>0, <1>1, <1>4 DEF Writing, LockTypeOK, Running
<1>6. list'[p] = due'
  BY <1>0, <1>1, <1>5 DEF ReadIsDue, LockTypeOK
<1>7. ReadIsDue'
  BY <1>0, <1>1, <1>4, <1>5, <1>6 DEF ReadIsDue, Running
<1> QED BY <1>2, <1>3, <1>7 DEF LockInv

\* The file is opened for writing, and is empty.
LEMMA TruncateInv == ASSUME LockInv, NEW p \in Rofi, Truncate(p) PROVE LockInv'
<1>0. LockTypeOK /\ LockIsHeld /\ ReadIsDue
  BY DEF LockInv
<1>1. /\ at[p] \in {"use", "remove"} /\ hist' = <<>>
      /\ at' = [at EXCEPT ![p] = IF @ = "use" THEN "cutuse" ELSE "cutremove"]
      /\ UNCHANGED <<holder, pidIn, list, entry, due>>
  BY DEF Truncate
<1>2. LockTypeOK'
  BY <1>0, <1>1 DEF LockTypeOK, Running
<1>3. LockIsHeld'
  BY <1>0, <1>1 DEF LockIsHeld, LockTypeOK, Running
<1>4. p \in Writing'
  BY <1>0, <1>1 DEF Writing, LockTypeOK
<1>5. ReadIsDue'
  BY <1>0, <1>1, <1>4 DEF ReadIsDue, LockTypeOK
<1> QED BY <1>2, <1>3, <1>5 DEF LockInv

\* What is written is made of what was read, which is what was due.
LEMMA WriteInv == ASSUME LockInv, NEW p \in Rofi, Write(p) PROVE LockInv'
<1>0. LockTypeOK /\ LockIsHeld /\ ReadIsDue
  BY DEF LockInv
<1>1. PICK next \in {"end", "run"} :
        at[p] \in {"cutuse", "cutremove"} /\ at' = [at EXCEPT ![p] = next]
  BY DEF Write
<1>2. UNCHANGED <<holder, pidIn, list, entry>>
  BY DEF Write
<1>3. hist' = due'
  <2>1. list[p] = due
    BY <1>0, <1>1 DEF ReadIsDue
  <2> QED BY <2>1 DEF Write
<1>4. LockTypeOK'
  BY <1>0, <1>1, <1>2 DEF LockTypeOK, Running
<1>5. LockIsHeld'
  BY <1>0, <1>1, <1>2 DEF LockIsHeld, LockTypeOK, Running
<1>6. \A q \in Rofi : at'[q] \notin {"use", "remove", "cutuse", "cutremove"}
  BY <1>0, <1>1 DEF LockIsHeld, LockTypeOK, Running
<1>7. Writing' = {}
  BY <1>6 DEF Writing
<1>8. ReadIsDue'
  BY <1>3, <1>6, <1>7 DEF ReadIsDue
<1> QED BY <1>4, <1>5, <1>8 DEF LockInv

\* Every step keeps the invariant.
LEMMA NextInv == LockInv /\ [HistoryNext]_hvars => LockInv'
<1> SUFFICES ASSUME LockInv, [HistoryNext]_hvars PROVE LockInv'
  OBVIOUS
<1>1. ASSUME NEW p \in Rofi, NEW e \in Launchable, ReadSet(p, e) PROVE LockInv'
  BY <1>1, ReadInv DEF ReadSet
<1>2. ASSUME NEW p \in Rofi, NEW e \in Launchable, ReadRemove(p, e) PROVE LockInv'
  BY <1>2, ReadInv DEF ReadRemove
<1>3. CASE UNCHANGED hvars
  BY <1>3 DEF hvars, LockInv, LockTypeOK, LockIsHeld, ReadIsDue, Writing
<1> QED
  BY <1>1, <1>2, <1>3, StartInv, TryLockInv, KillInv, SpinInv, CloseInv, WritePidInv,
     TruncateInv, WriteInv, QuitInv DEF HistoryNext

\* The file, what is due and what was read are kept by every step.
LEMMA FilesStep ==
  ASSUME LockTypeOK, FilesInv, [HistoryNext]_hvars
  PROVE  FilesInv'
<1>1. Kept(<<>>)
  BY DEF Kept
<1>2. DOMAIN list = Rofi /\ \A p \in Rofi : entry[p] \in Launchable
  BY DEF LockTypeOK
<1>3. ASSUME UNCHANGED <<hist, list>>, due' \in {due, <<>>} PROVE FilesInv'
  BY <1>1, <1>3 DEF FilesInv
<1>4. ASSUME NEW p \in Rofi, KillRunning(p) PROVE FilesInv'
  BY <1>3, <1>4 DEF KillRunning
<1>5. ASSUME NEW p \in Rofi, NEW e \in Launchable, NEW next, Read(p, e, next) PROVE FilesInv'
  BY <1>2, <1>5 DEF Read, FilesInv
<1>6. ASSUME NEW p \in Rofi, Truncate(p) PROVE FilesInv'
  BY <1>1, <1>6 DEF Truncate, FilesInv
<1>7. ASSUME NEW p \in Rofi, Write(p) PROVE FilesInv'
  <2>1. Kept(list[p]) /\ Kept(due) /\ entry[p] \in Launchable /\ list' = list
    BY <1>2, <1>7 DEF FilesInv, Write
  <2>2. Kept(hist') /\ Kept(due')
    BY <1>7, <2>1, UseKept, RemovalKept DEF Write
  <2> QED BY <2>1, <2>2 DEF FilesInv
<1>8. ASSUME NEW p \in Rofi,
             Start(p) \/ TryLock(p) \/ Spin(p) \/ Close(p) \/ WritePid(p) \/ Quit(p)
      PROVE  FilesInv'
  BY <1>3, <1>8 DEF Start, TryLock, Spin, Close, WritePid, Quit, Go
<1>9. CASE UNCHANGED hvars
  BY <1>3, <1>9 DEF hvars
<1>10. CASE HistoryNext
  <2> PICK p \in Rofi :
        \/ Start(p) \/ TryLock(p) \/ KillRunning(p) \/ Spin(p) \/ Close(p) \/ WritePid(p)
        \/ (\E e \in Launchable : ReadSet(p, e) \/ ReadRemove(p, e))
        \/ Truncate(p) \/ Write(p) \/ Quit(p)
    BY <1>10 DEF HistoryNext
  <2>1. ASSUME NEW e \in Launchable, ReadSet(p, e) PROVE FilesInv'
    BY <1>5, <2>1 DEF ReadSet
  <2>2. ASSUME NEW e \in Launchable, ReadRemove(p, e) PROVE FilesInv'
    BY <1>5, <2>2 DEF ReadRemove
  <2> QED BY <1>4, <1>6, <1>7, <1>8, <2>1, <2>2
<1> QED BY <1>9, <1>10

\* The invariant holds in every state.
LEMMA Invariance == HistorySpec => [](LockInv /\ FilesInv)
<1>1. HistoryInit => FilesInv
  BY DEF HistoryInit, FilesInv, Kept
<1>2. LockInv /\ FilesInv /\ [HistoryNext]_hvars => LockInv' /\ FilesInv'
  BY NextInv, FilesStep DEF LockInv
<1> QED BY InitInv, <1>1, <1>2, PTL DEF HistorySpec

-----------------------------------------------------------------------------
\* The lock, the pid and the places of the processes have their types.
THEOREM LockTypeCorrect == HistorySpec => []LockTypeOK
<1>1. LockInv => LockTypeOK
  BY DEF LockInv
<1> QED BY <1>1, Invariance, PTL

\* create_pid_file and history.c: the rofi that runs has the lock, and no use
\* and no removal is lost between the processes that follow each other.
THEOREM OneWrites == HistorySpec => []OneRofiWrites
<1>1. LockInv => OneRofiWrites
  BY DEF LockInv, LockIsHeld, ReadIsDue, Writing, OneRofiWrites
<1> QED BY <1>1, Invariance, PTL

\* history.c: no process ever writes a list with doubles, out of order or longer
\* than max_history_size, and what is launched twice in a row is in it.
THEOREM UseKeptInHistory == HistorySpec => []HistoryKeepsUse
<1>1. ASSUME Kept(hist) PROVE HistoryKeepsUse
  <2>1. hist \in Seq(Line) /\ Distinct(hist) /\ Len(hist) \in Nat /\ Len(hist) <= MaxHistory
    BY <1>1, KeptFacts
  <2>2. Cardinality(ToSet(NamesOf(hist))) = Len(hist)
    <3> DEFINE n == Len(hist)
               names == NamesOf(hist)
    <3>1. DOMAIN names = 1 .. n /\ \A i \in 1 .. n : names[i] = hist[i].name
      BY <2>1 DEF NamesOf
    <3>2. names = [i \in 1 .. n |-> names[i]]
      BY <2>1 DEF NamesOf
    <3>3. names \in Bijection(1 .. n, ToSet(names))
      <4>1. \A i, j \in 1 .. n : names[i] = names[j] => i = j
        BY <2>1, <3>1 DEF Distinct
      <4>2. ToSet(names) = {names[i] : i \in 1 .. n}
        BY <3>1 DEF ToSet
      <4> HIDE DEF n, names
      <4> QED BY <3>1, <3>2, <4>1, <4>2 DEF Bijection, Injection, Surjection, IsInjective
    <3>4. IsFiniteSet(1 .. n) /\ Cardinality(1 .. n) = n
      <4>1. 1 \in Int /\ n \in Int /\ n \in Nat
        BY <2>1
      <4>2. IsFiniteSet(1 .. n) /\ Cardinality(1 .. n) = IF 1 > n THEN 0 ELSE n - 1 + 1
        <5> HIDE DEF n
        <5> QED BY <4>1, FS_Interval
      <4> HIDE DEF n
      <4> QED BY <4>1, <4>2
    <3> HIDE DEF n, names
    <3> QED BY <3>3, <3>4, FS_Bijection DEF ExistsBijection, n, names
  <2>3. \A i \in 1 .. Len(hist) - 1 : hist[i].count >= hist[i + 1].count
    <3> TAKE i \in 1 .. Len(hist) - 1
    <3>1. i \in 1 .. Len(hist) /\ i + 1 \in 1 .. Len(hist) /\ i < i + 1
      BY <2>1
    <3> QED BY <1>1, <3>1 DEF Kept
  <2>4. MaxHistory > 0 => \A e \in Launchable : HasName(AfterUse(AfterUse(hist, e), e), e)
    BY <1>1, UsedTwice
  <2> QED BY <2>1, <2>2, <2>3, <2>4 DEF HistoryKeepsUse
<1>2. FilesInv => HistoryKeepsUse
  BY <1>1 DEF FilesInv
<1> QED BY <1>2, Invariance, PTL
=============================================================================
