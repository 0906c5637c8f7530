---------------------------- MODULE SequenceLemmas ----------------------------
(***************************************************************************)
(* Facts about numbers and sequences that the proofs of the components     *)
(* use: least elements, induction in the form of a set of numbers, what    *)
(* FlattenSeq of the community modules does, the elements of a sequence    *)
(* and sequences without doubles.                                          *)
(***************************************************************************)
EXTENDS Integers, Sequences, SequencesExt, SequenceTheorems, WellFoundedInduction, TLAPS

\* A set of natural numbers that is not empty has a least element.
LEMMA Least ==
  ASSUME NEW T, T \subseteq Nat, T # {}
  PROVE  \E x \in T : \A y \in T : x <= y
<1>1. \E x \in T : \A y \in T : ~ (<<y, x>> \in OpToRel(<, Nat))
  BY NatLessThanWellFounded, WFMin
<1>2. \A x, y \in Nat : y < x => <<y, x>> \in OpToRel(<, Nat)
  BY DEF OpToRel
<1>3. PICK x \in T : \A y \in T : ~ (<<y, x>> \in OpToRel(<, Nat))
  BY <1>1
<1>4. \A y \in T : ~ (y < x)
  BY <1>2, <1>3, Zenon
<1>5. \A y \in T : x <= y
  BY <1>4
<1> QED BY <1>5

\* Induction: a set of natural numbers that holds 0 and, with a number, the
\* next one, holds all of them.
LEMMA Induction ==
  ASSUME NEW G, 0 \in G, \A n \in Nat : n \in G => n + 1 \in G
  PROVE  Nat \subseteq G
<1> SUFFICES ASSUME Nat \ G # {} PROVE FALSE
  OBVIOUS
<1>1. PICK x \in Nat \ G : \A y \in Nat \ G : x <= y
  BY Least
<1>2. x - 1 \in Nat /\ x - 1 \in G
  BY <1>1
<1>3. (x - 1) + 1 \in G
  BY <1>2
<1> QED BY <1>1, <1>3

\* Concatenation is associative.
LEMMA Associative ==
  ASSUME NEW S, NEW a \in Seq(S), NEW b \in Seq(S), NEW c \in Seq(S)
  PROVE  (a \o b) \o c = a \o (b \o c)
OBVIOUS

-----------------------------------------------------------------------------
\* f[i] is the concatenation of the first i sequences of s.
Joins(f, s, n) == f = [i \in 1 .. n |-> IF i = 1 THEN s[i] ELSE f[i-1] \o s[i]]

\* The recursive function of FlattenSeq exists.
LEMMA JoinsExist ==
  ASSUME NEW S, NEW s \in Seq(Seq(S))
  PROVE  \E f : Joins(f, s, Len(s))
<1> DEFINE G == {n \in Nat : n <= Len(s) => \E f \in [1 .. n -> Seq(S)] : Joins(f, s, n)}
<1>0. Len(s) \in Nat /\ \A i \in 1 .. Len(s) : s[i] \in Seq(S)
  OBVIOUS
<1>1. 0 \in G
  <2> DEFINE f == [i \in 1 .. 0 |-> <<>>]
  <2>1. f \in [1 .. 0 -> Seq(S)]
    OBVIOUS
  <2>2. Joins(f, s, 0)
    BY DEF Joins
  <2> QED BY <2>1, <2>2
<1>2. ASSUME NEW n \in Nat, n \in G PROVE n + 1 \in G
  <2> SUFFICES ASSUME n + 1 <= Len(s)
               PROVE  \E f \in [1 .. n + 1 -> Seq(S)] : Joins(f, s, n + 1)
    OBVIOUS
  <2>1. PICK f \in [1 .. n -> Seq(S)] : Joins(f, s, n)
    BY <1>0, <1>2
  <2> DEFINE last == IF n = 0 THEN s[1] ELSE f[n] \o s[n + 1]
             g == [i \in 1 .. n + 1 |-> IF i <= n THEN f[i] ELSE last]
  <2>2. last \in Seq(S)
    <3>1. CASE n = 0
      BY <3>1, <1>0
    <3>2. CASE n # 0
      <4>1. f[n] \in Seq(S) /\ s[n + 1] \in Seq(S)
        BY <3>2, <1>0, <2>1
      <4> QED BY <3>2, <4>1, ConcatProperties
    <3> QED BY <3>1, <3>2
  <2>3. g \in [1 .. n + 1 -> Seq(S)]
    BY <2>2
  <2>4. ASSUME NEW i \in 1 .. n + 1
        PROVE  g[i] = IF i = 1 THEN s[i] ELSE g[i-1] \o s[i]
    <3>1. CASE i <= n
      <4>1. i \in 1 .. n /\ (i # 1 => i - 1 \in 1 .. n)
        BY <3>1
      <4>2. f[i] = IF i = 1 THEN s[i] ELSE f[i-1] \o s[i]
        BY <4>1, <2>1 DEF Joins
      <4>3. g[i] = f[i] /\ (i # 1 => g[i-1] = f[i-1])
        BY <4>1
      <4> QED BY <4>2, <4>3
    <3>2. CASE i = n + 1
      <4>1. g[i] = last
        BY <3>2
      <4>2. n # 0 => g[i-1] = f[n]
        BY <3>2
      <4> QED BY <3>2, <4>1, <4>2
    <3> QED BY <3>1, <3>2
  <2>5. Joins(g, s, n + 1)
    BY <2>4 DEF Joins
  <2> QED BY <2>3, <2>5
<1>3. Len(s) \in G
  <2> HIDE DEF G
  <2> QED BY <1>0, <1>1, <1>2, Induction
<1> QED BY <1>3

\* What FlattenSeq returns, when there is something to join: the last of the
\* concatenations of its first sequences.
LEMMA FlattenJoins ==
  ASSUME NEW S, NEW s \in Seq(Seq(S)), s # <<>>
  PROVE  \E f \in [1 .. Len(s) -> Seq(S)] :
           /\ FlattenSeq(s) = f[Len(s)]
           /\ f[1] = s[1]
           /\ \A i \in 2 .. Len(s) : f[i] = f[i-1] \o s[i]
<1> DEFINE f == CHOOSE f : Joins(f, s, Len(s))
<1>0. Len(s) \in Nat \ {0} /\ \A i \in 1 .. Len(s) : s[i] \in Seq(S)
  BY EmptySeq
<1>1. Joins(f, s, Len(s))
  BY JoinsExist
<1>2. FlattenSeq(s) = f[Len(s)]
  BY <1>0 DEF FlattenSeq, Joins
<1> HIDE DEF f
<1>3. \A i \in 1 .. Len(s) : f[i] = IF i = 1 THEN s[i] ELSE f[i-1] \o s[i]
  BY <1>1 DEF Joins
<1>4. \A i \in 2 .. Len(s) : f[i] = f[i-1] \o s[i]
  <2> TAKE i \in 2 .. Len(s)
  <2>1. i \in 1 .. Len(s) /\ i # 1
    BY <1>0
  <2> QED BY <1>3, <2>1
<1>5. f[1] = s[1]
  BY <1>0, <1>3
<1> DEFINE G == {n \in Nat : n + 1 <= Len(s) => f[n + 1] \in Seq(S)}
<1>6. 0 \in G
  BY <1>0, <1>5
<1>7. ASSUME NEW n \in Nat, n \in G PROVE n + 1 \in G
  <2> SUFFICES ASSUME (n + 1) + 1 <= Len(s) PROVE f[(n + 1) + 1] \in Seq(S)
    OBVIOUS
  <2>1. (n + 1) + 1 \in 2 .. Len(s) /\ ((n + 1) + 1) - 1 = n + 1
    BY <1>0
  <2>2. f[n + 1] \in Seq(S) /\ s[(n + 1) + 1] \in Seq(S)
    BY <1>0, <1>7, <2>1
  <2>3. f[(n + 1) + 1] = f[n + 1] \o s[(n + 1) + 1]
    BY <1>4, <2>1
  <2> QED BY <2>2, <2>3, ConcatProperties
<1>8. Nat \subseteq G
  <2> HIDE DEF G
  <2> QED BY <1>6, <1>7, Induction
<1>9. ASSUME NEW i \in 1 .. Len(s) PROVE f[i] \in Seq(S)
  <2>1. i - 1 \in Nat /\ (i - 1) + 1 = i /\ i <= Len(s)
    BY <1>0
  <2>2. (i - 1) + 1 <= Len(s) => f[(i - 1) + 1] \in Seq(S)
    BY <1>8, <2>1
  <2> QED BY <2>1, <2>2
<1>10. f \in [1 .. Len(s) -> Seq(S)]
  BY <1>1, <1>9 DEF Joins
<1> QED BY <1>2, <1>4, <1>5, <1>10

\* Any function that joins the sequences one by one tells what FlattenSeq is.
LEMMA FlattenIs ==
  ASSUME NEW S, NEW s \in Seq(Seq(S)), s # <<>>,
         NEW g, g[1] = s[1], \A i \in 2 .. Len(s) : g[i] = g[i-1] \o s[i]
  PROVE  FlattenSeq(s) = g[Len(s)]
<1>0. Len(s) \in Nat \ {0}
  BY EmptySeq
<1>1. PICK f \in [1 .. Len(s) -> Seq(S)] :
           /\ FlattenSeq(s) = f[Len(s)]
           /\ f[1] = s[1]
           /\ \A i \in 2 .. Len(s) : f[i] = f[i-1] \o s[i]
  BY FlattenJoins
<1> DEFINE G == {n \in Nat : n + 1 <= Len(s) => f[n + 1] = g[n + 1]}
<1>2. 0 \in G
  BY <1>1
<1>3. ASSUME NEW n \in Nat, n \in G PROVE n + 1 \in G
  <2> SUFFICES ASSUME (n + 1) + 1 <= Len(s) PROVE f[(n + 1) + 1] = g[(n + 1) + 1]
    OBVIOUS
  <2>1. (n + 1) + 1 \in 2 .. Len(s) /\ ((n + 1) + 1) - 1 = n + 1
    BY <1>0
  <2>2. f[n + 1] = g[n + 1]
    BY <1>0, <1>3, <2>1
  <2>3. f[(n + 1) + 1] = f[n + 1] \o s[(n + 1) + 1]
    BY <1>1, <2>1
  <2>4. g[(n + 1) + 1] = g[n + 1] \o s[(n + 1) + 1]
    BY <2>1
  <2> QED BY <2>2, <2>3, <2>4
<1>4. Nat \subseteq G
  <2> HIDE DEF G
  <2> QED BY <1>2, <1>3, Induction
<1>5. Len(s) - 1 \in Nat /\ (Len(s) - 1) + 1 = Len(s) /\ Len(s) <= Len(s)
  BY <1>0
<1>6. (Len(s) - 1) + 1 <= Len(s) => f[(Len(s) - 1) + 1] = g[(Len(s) - 1) + 1]
  BY <1>4, <1>5
<1> QED BY <1>1, <1>5, <1>6

\* Nothing is joined to nothing.
LEMMA FlattenEmpty == FlattenSeq(<<>>) = <<>>
BY DEF FlattenSeq

\* Joining sequences over a set gives a sequence over it.
LEMMA FlattenType ==
  ASSUME NEW S, NEW s \in Seq(Seq(S))
  PROVE  FlattenSeq(s) \in Seq(S)
<1>1. CASE s = <<>>
  BY <1>1, FlattenEmpty, EmptySeq
<1>2. CASE s # <<>>
  <2>1. Len(s) \in 1 .. Len(s)
    BY <1>2, EmptySeq
  <2>2. \E f \in [1 .. Len(s) -> Seq(S)] : FlattenSeq(s) = f[Len(s)]
    BY <1>2, FlattenJoins
  <2> QED BY <2>1, <2>2
<1> QED BY <1>1, <1>2

\* A sequence that is appended is joined behind the others.
LEMMA FlattenAppend ==
  ASSUME NEW S, NEW s \in Seq(Seq(S)), NEW b \in Seq(S)
  PROVE  FlattenSeq(Append(s, b)) = FlattenSeq(s) \o b
<1> DEFINE t == Append(s, b)
<1>0. /\ t \in Seq(Seq(S)) /\ t # <<>> /\ Len(s) \in Nat /\ Len(t) = Len(s) + 1
      /\ \A i \in 1 .. Len(s) : t[i] = s[i]
      /\ t[Len(s) + 1] = b
  BY AppendProperties
<1> HIDE DEF t
<1>1. CASE s = <<>>
  <2> DEFINE g == [i \in 1 .. 1 |-> b]
  <2>1. Len(s) = 0 /\ Len(t) = 1 /\ t[1] = b
    BY <1>0, <1>1
  <2>2. g[1] = t[1] /\ \A i \in 2 .. Len(t) : g[i] = g[i-1] \o t[i]
    BY <2>1
  <2>3. FlattenSeq(t) = g[Len(t)]
    <3> HIDE DEF g
    <3> QED BY <1>0, <2>2, FlattenIs
  <2> QED BY <1>1, <2>1, <2>3, FlattenEmpty, ConcatEmptySeq DEF t
<1>2. CASE s # <<>>
  <2>0. Len(s) \in Nat \ {0}
    BY <1>2, EmptySeq
  <2>1. PICK f \in [1 .. Len(s) -> Seq(S)] :
           /\ FlattenSeq(s) = f[Len(s)]
           /\ f[1] = s[1]
           /\ \A i \in 2 .. Len(s) : f[i] = f[i-1] \o s[i]
    BY <1>2, FlattenJoins
  <2> DEFINE all == f[Len(s)] \o b
             g == [i \in 1 .. Len(s) + 1 |-> IF i <= Len(s) THEN f[i] ELSE all]
  <2> HIDE DEF all
  <2>2. g[1] = t[1]
    BY <1>0, <2>0, <2>1
  <2>3. ASSUME NEW i \in 2 .. Len(t) PROVE g[i] = g[i-1] \o t[i]
    <3>1. CASE i <= Len(s)
      <4>1. g[i] = f[i] /\ g[i-1] = f[i-1] /\ t[i] = s[i] /\ i \in 2 .. Len(s)
        BY <1>0, <3>1
      <4> QED BY <2>1, <4>1
    <3>2. CASE i = Len(s) + 1
      <4>1. g[i] = all /\ g[i-1] = f[Len(s)] /\ t[i] = b
        BY <1>0, <2>0, <3>2
      <4> HIDE DEF g
      <4> QED BY <4>1 DEF all
    <3>3. i <= Len(s) \/ i = Len(s) + 1
      BY <1>0
    <3> HIDE DEF g
    <3> QED BY <3>1, <3>2, <3>3
  <2>4. g[Len(t)] = f[Len(s)] \o b
    BY <1>0 DEF all
  <2>5. FlattenSeq(t) = g[Len(t)]
    <3> HIDE DEF g
    <3> QED BY <1>0, <2>2, <2>3, FlattenIs
  <2> QED BY <2>1, <2>4, <2>5 DEF t
<1> QED BY <1>1, <1>2

\* The first sequence comes first.
LEMMA FlattenHeadTail ==
  ASSUME NEW S, NEW s \in Seq(Seq(S)), s # <<>>
  PROVE  FlattenSeq(s) = Head(s) \o FlattenSeq(Tail(s))
<1> DEFINE t == Tail(s)
           h == Head(s)
<1>0. /\ Len(s) \in Nat \ {0} /\ h \in Seq(S) /\ h = s[1]
      /\ t \in Seq(Seq(S)) /\ Len(t) = Len(s) - 1
      /\ \A i \in 1 .. Len(t) : t[i] = s[i + 1]
      /\ \A i \in 1 .. Len(s) : s[i] \in Seq(S)
  BY EmptySeq, HeadTailProperties
<1> HIDE DEF t, h
<1>3. \A a, b \in Seq(S) : (h \o a) \o b = h \o (a \o b)
  <2> TAKE a, b \in Seq(S)
  <2>1. h \in Seq(S)
    BY <1>0
  <2> QED BY <2>1, Associative, SMTT(30)
<1>1. CASE t = <<>>
  <2> DEFINE g == [i \in 1 .. 1 |-> h]
  <2>1. Len(s) = 1
    BY <1>0, <1>1
  <2>2. g[1] = s[1] /\ \A i \in 2 .. Len(s) : g[i] = g[i-1] \o s[i]
    BY <1>0, <2>1
  <2>3. FlattenSeq(s) = g[Len(s)]
    <3> HIDE DEF g
    <3> QED BY <1>0, <2>2, FlattenIs
  <2>4. FlattenSeq(s) = h
    BY <2>1, <2>3
  <2>5. h \o FlattenSeq(t) = h
    BY <1>0, <1>1, FlattenEmpty, ConcatEmptySeq
  <2> QED BY <2>4, <2>5 DEF t, h
<1>2. CASE t # <<>>
  <2>0. Len(t) \in Nat \ {0}
    BY <1>0, <1>2, EmptySeq
  <2>1. PICK f \in [1 .. Len(t) -> Seq(S)] :
           /\ FlattenSeq(t) = f[Len(t)]
           /\ f[1] = t[1]
           /\ \A i \in 2 .. Len(t) : f[i] = f[i-1] \o t[i]
    <3>1. t \in Seq(Seq(S)) /\ t # <<>>
      BY <1>0, <1>2
    <3> QED BY <3>1, FlattenJoins
  <2> DEFINE g == [i \in 1 .. Len(s) |-> IF i = 1 THEN h ELSE h \o f[i-1]]
  <2>2. g[1] = s[1]
    BY <1>0
  <2>3. ASSUME NEW i \in 2 .. Len(s) PROVE g[i] = g[i-1] \o s[i]
    <3> DEFINE j == i - 1
    <3>0. j \in 1 .. Len(t) /\ j + 1 = i /\ j # 0 /\ i # 1
      BY <1>0, <2>0
    <3>1. t[j] = s[j + 1]
      BY <1>0, <3>0
    <3>2. g[i] = h \o f[j]
      BY <3>0
    <3>3. CASE j = 1
      <4>1. g[j] = h
        BY <1>0, <3>3
      <4>2. f[j] = s[i]
        BY <2>1, <3>0, <3>1, <3>3
      <4> HIDE DEF g
      <4> QED BY <3>2, <4>1, <4>2
    <3>4. CASE j # 1
      <4>1. j \in 2 .. Len(t) /\ j - 1 \in 1 .. Len(t) /\ j \in 1 .. Len(s)
        BY <1>0, <2>0, <3>0, <3>4
      <4>2. f[j] = f[j-1] \o t[j]
        BY <2>1, <4>1
      <4>3. g[j] = h \o f[j-1]
        BY <3>4, <4>1
      <4>4. f[j-1] \in Seq(S)
        BY <4>1
      <4>5. t[j] \in Seq(S)
        BY <1>0, <3>0, ElementOfSeq
      <4>6. (h \o f[j-1]) \o t[j] = h \o (f[j-1] \o t[j])
        BY <1>3, <4>4, <4>5
      <4>7. h \o f[j] = (h \o f[j-1]) \o t[j]
        BY <4>2, <4>6
      <4>8. t[j] = s[i]
        BY <3>0, <3>1
      <4> HIDE DEF g
      <4> QED BY <3>2, <4>3, <4>7, <4>8
    <3> QED BY <3>3, <3>4
  <2>4. g[Len(s)] = h \o f[Len(t)]
    <3>1. Len(s) \in 1 .. Len(s) /\ Len(s) # 1 /\ Len(s) - 1 = Len(t)
      BY <1>0, <2>0
    <3> QED BY <3>1
  <2>5. FlattenSeq(s) = g[Len(s)]
    <3> HIDE DEF g
    <3> QED BY <2>2, <2>3, FlattenIs
  <2> QED BY <2>1, <2>4, <2>5 DEF t, h
<1> QED BY <1>1, <1>2

-----------------------------------------------------------------------------
(* The elements of a sequence.                                             *)

\* The head and the rest of a sequence.
LEMMA HeadAndTail ==
  ASSUME NEW S, NEW s \in Seq(S), s # <<>>
  PROVE  /\ Head(s) \in S /\ Tail(s) \in Seq(S)
         /\ Len(s) \in Nat \ {0} /\ Len(Tail(s)) = Len(s) - 1
         /\ s[1] = Head(s)
         /\ \A i \in 1 .. Len(Tail(s)) : Tail(s)[i] = s[i + 1]
         /\ ToSet(s) = {Head(s)} \cup ToSet(Tail(s))
<1> DEFINE t == Tail(s)
           h == Head(s)
<1>1. /\ Len(s) \in Nat \ {0} /\ h \in S /\ h = s[1]
      /\ t \in Seq(S) /\ Len(t) = Len(s) - 1
      /\ \A i \in 1 .. Len(t) : t[i] = s[i + 1]
      /\ DOMAIN s = 1 .. Len(s) /\ DOMAIN t = 1 .. Len(t)
  BY EmptySeq, HeadTailProperties
<1> HIDE DEF t, h
<1>2. ToSet(s) \subseteq {h} \cup ToSet(t)
  <2> SUFFICES ASSUME NEW i \in 1 .. Len(s), i # 1 PROVE s[i] \in ToSet(t)
    BY <1>1 DEF ToSet
  <2>1. i - 1 \in 1 .. Len(t) /\ (i - 1) + 1 = i
    BY <1>1
  <2>2. t[i - 1] = s[i]
    BY <1>1, <2>1
  <2> QED BY <1>1, <2>1, <2>2 DEF ToSet
<1>3. {h} \cup ToSet(t) \subseteq ToSet(s)
  <2>1. h \in ToSet(s)
    BY <1>1 DEF ToSet
  <2>2. ASSUME NEW i \in 1 .. Len(t) PROVE t[i] \in ToSet(s)
    <3>1. i + 1 \in 1 .. Len(s)
      BY <1>1
    <3> QED BY <1>1, <3>1 DEF ToSet
  <2> QED BY <1>1, <2>1, <2>2 DEF ToSet
<1> QED BY <1>1, <1>2, <1>3 DEF t, h

\* The elements of two sequences after each other.
LEMMA SetOfConcat ==
  ASSUME NEW S, NEW s \in Seq(S), NEW t \in Seq(S)
  PROVE  s \o t \in Seq(S) /\ ToSet(s \o t) = ToSet(s) \cup ToSet(t)
<1> DEFINE u == s \o t
<1>1. /\ u \in Seq(S) /\ Len(s) \in Nat /\ Len(t) \in Nat /\ Len(u) = Len(s) + Len(t)
      /\ DOMAIN s = 1 .. Len(s) /\ DOMAIN t = 1 .. Len(t) /\ DOMAIN u = 1 .. Len(u)
      /\ \A i \in 1 .. Len(s) : u[i] = s[i]
      /\ \A i \in 1 .. Len(t) : u[Len(s) + i] = t[i]
  OBVIOUS
<1> HIDE DEF u
<1>2. ToSet(u) \subseteq ToSet(s) \cup ToSet(t)
  <2> SUFFICES ASSUME NEW i \in 1 .. Len(u), ~(i \in 1 .. Len(s)) PROVE u[i] \in ToSet(t)
    BY <1>1 DEF ToSet
  <2>1. i - Len(s) \in 1 .. Len(t) /\ Len(s) + (i - Len(s)) = i
    BY <1>1
  <2>2. u[i] = t[i - Len(s)]
    BY <1>1, <2>1
  <2> QED BY <1>1, <2>1, <2>2 DEF ToSet
<1>3. ToSet(s) \subseteq ToSet(u)
  <2>1. \A i \in 1 .. Len(s) : i \in 1 .. Len(u)
    BY <1>1
  <2> QED BY <1>1, <2>1 DEF ToSet
<1>4. ToSet(t) \subseteq ToSet(u)
  <2>1. \A i \in 1 .. Len(t) : Len(s) + i \in 1 .. Len(u)
    BY <1>1
  <2> QED BY <1>1, <2>1 DEF ToSet
<1> QED BY <1>1, <1>2, <1>3, <1>4 DEF u

\* An element more at the end.
LEMMA SetOfAppend ==
  ASSUME NEW S, NEW s \in Seq(S), NEW x \in S
  PROVE  Append(s, x) \in Seq(S) /\ ToSet(Append(s, x)) = ToSet(s) \cup {x}
<1> DEFINE u == Append(s, x)
<1>1. /\ u \in Seq(S) /\ Len(s) \in Nat /\ Len(u) = Len(s) + 1
      /\ DOMAIN s = 1 .. Len(s) /\ DOMAIN u = 1 .. Len(u)
      /\ \A i \in 1 .. Len(s) : u[i] = s[i]
      /\ u[Len(s) + 1] = x
  OBVIOUS
<1> HIDE DEF u
<1>2. \A i \in 1 .. Len(u) : i \in 1 .. Len(s) \/ i = Len(s) + 1
  BY <1>1
<1>3. Len(s) + 1 \in 1 .. Len(u) /\ \A i \in 1 .. Len(s) : i \in 1 .. Len(u)
  BY <1>1
<1> QED BY <1>1, <1>2, <1>3 DEF ToSet, u

\* A new element after distinct ones.
LEMMA AppendNew ==
  ASSUME NEW S, NEW s \in Seq(S), NEW x \in S, x \notin ToSet(s),
         \A i, j \in DOMAIN s : i # j => s[i] # s[j]
  PROVE  \A i, j \in DOMAIN Append(s, x) : i # j => Append(s, x)[i] # Append(s, x)[j]
<1> DEFINE u == Append(s, x)
<1>1. /\ DOMAIN s = 1 .. Len(s) /\ DOMAIN u = 1 .. Len(s) + 1 /\ Len(s) \in Nat
      /\ \A i \in 1 .. Len(s) : u[i] = s[i]
      /\ u[Len(s) + 1] = x
  OBVIOUS
<1> HIDE DEF u
<1>2. \A i \in 1 .. Len(s) + 1 : i \in 1 .. Len(s) \/ i = Len(s) + 1
  BY <1>1
<1>3. \A i \in 1 .. Len(s) : s[i] # x
  BY <1>1 DEF ToSet
<1> QED BY <1>1, <1>2, <1>3 DEF u

\* The elements of a sequence are those of its type.
LEMMA SetOfSeq ==
  ASSUME NEW S, NEW s \in Seq(S)
  PROVE  ToSet(s) \subseteq S
BY DEF ToSet

\* A sequence with nothing in it.
LEMMA SetOfEmpty == ToSet(<<>>) = {}
BY DEF ToSet
-----------------------------------------------------------------------------
(* Sequences without doubles.                                              *)

\* What is pushed on a stack that does not hold it.
LEMMA PushInjective ==
  ASSUME NEW S, NEW s \in Seq(S), NEW v \in S, IsInjective(s), v \notin ToSet(s)
  PROVE  /\ <<v>> \o s \in Seq(S)
         /\ IsInjective(<<v>> \o s)
         /\ ToSet(<<v>> \o s) = ToSet(s) \cup {v}
         /\ <<v>> \o s # <<>>
<1> DEFINE t == <<v>> \o s
<1>1. <<v>> \in Seq(S) /\ Len(<<v>>) = 1 /\ <<v>>[1] = v
  OBVIOUS
<1>2. /\ t \in Seq(S) /\ Len(t) = Len(s) + 1 /\ Len(s) \in Nat
      /\ \A i \in 1 .. Len(t) : t[i] = IF i = 1 THEN v ELSE s[i - 1]
  BY <1>1, ConcatProperties
<1> HIDE DEF t
<1>3. DOMAIN t = 1 .. Len(t) /\ DOMAIN s = 1 .. Len(s)
  BY <1>2
<1>4. \A i \in 1 .. Len(s) : s[i] # v
  BY <1>3 DEF ToSet
<1>5. IsInjective(t)
  <2> SUFFICES ASSUME NEW i \in 1 .. Len(t), NEW j \in 1 .. Len(t), t[i] = t[j]
               PROVE  i = j
    BY <1>3 DEF IsInjective
  <2>1. \A k \in 1 .. Len(t) : k # 1 => k - 1 \in 1 .. Len(s) /\ t[k] = s[k - 1]
    BY <1>2
  <2>2. \A a, b \in 1 .. Len(s) : s[a] = s[b] => a = b
    BY <1>3 DEF IsInjective
  <2>3. t[1] = v
    BY <1>2
  <2>4. CASE i = 1
    BY <1>4, <2>1, <2>3, <2>4
  <2>5. CASE j = 1
    BY <1>4, <2>1, <2>3, <2>5
  <2>6. CASE i # 1 /\ j # 1
    <3>1. i - 1 = j - 1
      BY <2>1, <2>2, <2>6
    <3>. QED  BY <3>1
  <2>. QED  BY <2>4, <2>5, <2>6
<1>6. ToSet(t) = ToSet(s) \cup {v}
  <2>1. \A i \in 1 .. Len(s) : i + 1 \in 1 .. Len(t) /\ t[i + 1] = s[i]
    BY <1>2
  <2>2. 1 \in 1 .. Len(t) /\ t[1] = v
    BY <1>2
  <2>3. \A i \in 1 .. Len(t) : i = 1 \/ i - 1 \in 1 .. Len(s)
    BY <1>2
  <2>4. ToSet(t) = {t[i] : i \in 1 .. Len(t)} /\ ToSet(s) = {s[i] : i \in 1 .. Len(s)}
    BY <1>3 DEF ToSet
  <2>5. \A i \in 1 .. Len(t) : t[i] = v \/ t[i] \in ToSet(s)
    BY <1>2, <2>3, <2>4
  <2>6. v \in ToSet(t) /\ \A i \in 1 .. Len(s) : s[i] \in ToSet(t)
    BY <2>1, <2>2, <2>4
  <2>7. ToSet(t) \subseteq ToSet(s) \cup {v}
    BY <2>4, <2>5
  <2>8. ToSet(s) \cup {v} \subseteq ToSet(t)
    BY <2>4, <2>6
  <2>. QED  BY <2>7, <2>8
<1>7. t # <<>>
  BY <1>2
<1>. QED  BY <1>2, <1>5, <1>6, <1>7 DEF t

\* What is left when the top is popped.
LEMMA TailInjective ==
  ASSUME NEW S, NEW s \in Seq(S), IsInjective(s), s # <<>>
  PROVE  /\ Tail(s) \in Seq(S)
         /\ IsInjective(Tail(s))
         /\ ToSet(Tail(s)) = ToSet(s) \ {Head(s)}
         /\ Head(s) \in ToSet(s)
<1> DEFINE t == Tail(s)
           h == Head(s)
<1>1. /\ t \in Seq(S) /\ Len(t) = Len(s) - 1 /\ Len(s) \in Nat \ {0} /\ h = s[1]
      /\ \A i \in 1 .. Len(t) : t[i] = s[i + 1]
  BY HeadTailProperties, EmptySeq
<1>2. DOMAIN t = 1 .. Len(t) /\ DOMAIN s = 1 .. Len(s)
  BY <1>1
<1> HIDE DEF t, h
<1>3. IsInjective(t)
  <2> SUFFICES ASSUME NEW i \in 1 .. Len(t), NEW j \in 1 .. Len(t), t[i] = t[j]
               PROVE  i = j
    BY <1>2 DEF IsInjective
  <2>1. /\ i + 1 \in 1 .. Len(s) /\ j + 1 \in 1 .. Len(s) /\ s[i + 1] = s[j + 1]
        /\ i \in Nat /\ j \in Nat
    BY <1>1
  <2>2. i + 1 = j + 1
    BY <1>2, <2>1 DEF IsInjective
  <2>. QED  BY <2>1, <2>2
<1>4. \A i \in 1 .. Len(s) : i # 1 => i - 1 \in 1 .. Len(t) /\ t[i - 1] = s[i] /\ s[i] # h
  BY <1>1, <1>2 DEF IsInjective
<1>5. \A i \in 1 .. Len(t) : i + 1 \in 1 .. Len(s) /\ i + 1 # 1
  BY <1>1
<1>6. 1 \in 1 .. Len(s)
  BY <1>1
<1>7. ToSet(t) = {t[i] : i \in 1 .. Len(t)} /\ ToSet(s) = {s[i] : i \in 1 .. Len(s)}
  BY <1>2 DEF ToSet
<1>8. h \in ToSet(s)
  BY <1>1, <1>6, <1>7
<1>9. \A i \in 1 .. Len(t) : t[i] \in ToSet(s) /\ t[i] # h
  <2> TAKE i \in 1 .. Len(t)
  <2>1. t[i] = s[i + 1] /\ i + 1 \in 1 .. Len(s) /\ i + 1 # 1
    BY <1>1, <1>5
  <2>. QED  BY <1>4, <1>7, <2>1
<1>10. \A i \in 1 .. Len(s) : s[i] = h \/ s[i] \in ToSet(t)
  <2> TAKE i \in 1 .. Len(s)
  <2>1. CASE i = 1
    BY <1>1, <2>1
  <2>2. CASE i # 1
    BY <1>4, <1>7, <2>2
  <2>. QED  BY <2>1, <2>2
<1>11. ToSet(t) = ToSet(s) \ {h}
  <2>1. ToSet(t) \subseteq ToSet(s) \ {h}
    BY <1>7, <1>9
  <2>2. ToSet(s) \ {h} \subseteq ToSet(t)
    BY <1>7, <1>10
  <2>. QED  BY <2>1, <2>2
<1>. QED  BY <1>1, <1>3, <1>8, <1>11 DEF t, h

\* What is left when an element is taken out of the queue.
LEMMA RemoveInjective ==
  ASSUME NEW S, NEW s \in Seq(S), IsInjective(s), NEW v \in ToSet(s)
  PROVE  LET t == RemoveAt(s, CHOOSE i \in DOMAIN s : s[i] = v) IN
         /\ t \in Seq(S)
         /\ IsInjective(t)
         /\ ToSet(t) = ToSet(s) \ {v}
<1> DEFINE k == CHOOSE i \in DOMAIN s : s[i] = v
           a == SubSeq(s, 1, k - 1)
           b == SubSeq(s, k + 1, Len(s))
           t == a \o b
<1>1. /\ k \in DOMAIN s /\ s[k] = v /\ Len(s) \in Nat /\ DOMAIN s = 1 .. Len(s)
      /\ \A i \in 1 .. Len(s) : s[i] \in S
  <2>1. \E i \in DOMAIN s : s[i] = v
    BY DEF ToSet
  <2>2. k \in DOMAIN s /\ s[k] = v
    BY <2>1, Zenon
  <2> HIDE DEF k
  <2>3. Len(s) \in Nat /\ DOMAIN s = 1 .. Len(s) /\ \A i \in 1 .. Len(s) : s[i] \in S
    OBVIOUS
  <2>. QED  BY <2>2, <2>3
<1> HIDE DEF k
<1>2. /\ a \in Seq(S) /\ Len(a) = k - 1
      /\ \A i \in 1 .. k - 1 : a[i] = s[i]
  BY <1>1, SubSeqProperties
<1>3. /\ b \in Seq(S) /\ Len(b) = Len(s) - k
      /\ \A i \in 1 .. Len(s) - k : b[i] = s[k + i]
  <2>1. k \in 1 .. Len(s) /\ k + 1 \in 1 .. Len(s) + 1
    BY <1>1
  <2>2. /\ b \in Seq(S)
        /\ Len(b) = IF k + 1 <= Len(s) THEN Len(s) - (k + 1) + 1 ELSE 0
        /\ \A i \in 1 .. Len(s) - (k + 1) + 1 : b[i] = s[(k + 1) + i - 1]
    BY <1>1, <2>1, SubSeqProperties
  <2> HIDE DEF b
  <2> DEFINE n == Len(s)
             size == IF k + 1 <= n THEN n - (k + 1) + 1 ELSE 0
  <2>3. n \in Nat /\ Len(b) = size
    BY <1>1, <2>2
  <2> HIDE DEF n
  <2>4. /\ k \in Nat /\ n - (k + 1) + 1 = n - k /\ size = n - k
        /\ \A i \in 1 .. n - k : (k + 1) + i - 1 = k + i
    BY <2>1, <2>3 DEF n
  <2>5. \A i \in 1 .. n - k : b[i] = s[k + i]
    <3>1. \A i \in 1 .. n - k : b[i] = s[(k + 1) + i - 1]
      BY <2>2, <2>4 DEF n
    <3>. QED  BY <2>4, <3>1
  <2>. QED  BY <2>2, <2>3, <2>4, <2>5 DEF n
<1> HIDE DEF a, b
<1>4. /\ t \in Seq(S) /\ Len(t) = Len(s) - 1
      /\ \A i \in 1 .. Len(s) - 1 : t[i] = IF i < k THEN s[i] ELSE s[i + 1]
  <2>1. /\ t \in Seq(S) /\ Len(t) = Len(a) + Len(b)
        /\ \A i \in 1 .. Len(a) + Len(b) : t[i] = IF i <= Len(a) THEN a[i] ELSE b[i - Len(a)]
    <3>1. a \in Seq(S) /\ b \in Seq(S)
      BY <1>2, <1>3
    <3>. QED  BY <3>1, ConcatProperties, SMTT(30)
  <2> HIDE DEF t
  <2>2. Len(a) = k - 1 /\ Len(a) + Len(b) = Len(s) - 1 /\ k \in 1 .. Len(s)
    BY <1>1, <1>2, <1>3
  <2>3. \A i \in 1 .. Len(s) - 1 : i < k => t[i] = s[i]
    BY <1>2, <2>1, <2>2
  <2>4. \A i \in 1 .. Len(s) - 1 : ~ (i < k) => t[i] = s[i + 1]
    <3> TAKE i \in 1 .. Len(s) - 1
    <3> HAVE ~ (i < k)
    <3>1. t[i] = b[i - Len(a)]
      BY <2>1, <2>2
    <3>2. i - Len(a) \in 1 .. Len(s) - k /\ k + (i - Len(a)) = i + 1
      BY <1>1, <2>2
    <3>. QED  BY <1>3, <3>1, <3>2
  <2>. QED  BY <2>1, <2>2, <2>3, <2>4
<1> HIDE DEF t
<1>5. DOMAIN t = 1 .. Len(s) - 1
  BY <1>4
<1>6. IsInjective(t)
  <2> SUFFICES ASSUME NEW i \in 1 .. Len(s) - 1, NEW j \in 1 .. Len(s) - 1, t[i] = t[j]
               PROVE  i = j
    BY <1>5 DEF IsInjective
  <2> DEFINE at(x) == IF x < k THEN x ELSE x + 1
  <2>1. \A x \in 1 .. Len(s) - 1 : at(x) \in 1 .. Len(s) /\ t[x] = s[at(x)]
    BY <1>1, <1>4
  <2>2. \A x, y \in 1 .. Len(s) : s[x] = s[y] => x = y
    BY <1>1 DEF IsInjective
  <2>3. at(i) = at(j)
    <3> HIDE DEF at
    <3>. QED  BY <2>1, <2>2
  <2>4. k \in Nat /\ i \in Nat /\ j \in Nat
    BY <1>1
  <2>. QED  BY <2>3, <2>4
<1>7. \A i \in 1 .. Len(s) - 1 : t[i] # v
  BY <1>1, <1>4 DEF IsInjective
<1>8. \A i \in 1 .. Len(s) - 1 : t[i] \in ToSet(s)
  <2> TAKE i \in 1 .. Len(s) - 1
  <2>1. PICK j \in 1 .. Len(s) : t[i] = s[j]
    BY <1>1, <1>4
  <2>. QED  BY <1>1, <2>1 DEF ToSet
<1>9. \A i \in 1 .. Len(s) : s[i] # v =>
        \E j \in 1 .. Len(s) - 1 : t[j] = s[i]
  <2> SUFFICES ASSUME NEW i \in 1 .. Len(s), s[i] # v
               PROVE  \E j \in 1 .. Len(s) - 1 : t[j] = s[i]
    OBVIOUS
  <2>1. CASE i < k
    BY <1>1, <1>4, <2>1
  <2>2. CASE i > k
    <3>1. i - 1 \in 1 .. Len(s) - 1 /\ t[i - 1] = s[i]
      BY <1>1, <1>4, <2>2
    <3>. QED  BY <3>1
  <2>. QED  BY <1>1, <2>1, <2>2
<1>10. ToSet(t) = ToSet(s) \ {v}
  <2>1. ToSet(t) = {t[i] : i \in 1 .. Len(s) - 1} /\ ToSet(s) = {s[i] : i \in 1 .. Len(s)}
    BY <1>1, <1>5 DEF ToSet
  <2>2. ToSet(t) \subseteq ToSet(s) \ {v}
    BY <1>7, <1>8, <2>1
  <2>3. \A i \in 1 .. Len(s) : s[i] # v => s[i] \in ToSet(t)
    BY <1>9, <2>1
  <2>4. ToSet(s) \ {v} \subseteq ToSet(t)
    BY <2>1, <2>3
  <2>. QED  BY <2>2, <2>4
<1>. QED  BY <1>4, <1>6, <1>10 DEF RemoveAt, t, a, b, k
=============================================================================
