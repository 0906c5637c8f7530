-------------------------- MODULE IconFetcher_proofs --------------------------
(***************************************************************************)
(* Proofs about IconFetcher, for any icons, pages, threads and changes.    *)
(***************************************************************************)
EXTENDS IconFetcher, SequenceLemmas

\* Every row has a name for its icon.
LEMMA IconNames ==
  ASSUME NEW r \in Rows
  PROVE  /\ Len(Icons[r]) \in Nat \ {0}
         /\ \A k \in 1 .. Len(Icons[r]) : Icons[r][k] \in Names
         /\ r # 0
<1>1. Icons \in Seq(Seq(STRING) \ {<<>>}) /\ r \in 1 .. Len(Icons)
  BY IconFetcherAssumption DEF Rows
<1>2. Icons[r] \in Seq(STRING) /\ Icons[r] # <<>>
  BY <1>1
<1>3. Len(Icons[r]) \in Nat \ {0}
  BY <1>2, EmptySeq
<1>4. ASSUME NEW k \in 1 .. Len(Icons[r]) PROVE Icons[r][k] \in Names
  <2>1. k \in DOMAIN Icons[r]
    BY <1>2
  <2>2. Icons[r][k] \in ToSet(Icons[r])
    BY <2>1 DEF ToSet
  <2> QED BY <2>2 DEF Names
<1> QED BY <1>1, <1>3, <1>4

\* The rows of a page are rows.
LEMMA PageRows ==
  ASSUME NEW p \in DOMAIN Pages
  PROVE  Pages[p] \subseteq Rows
<1>1. Pages \in Seq(SUBSET Rows)
  BY IconFetcherAssumption DEF Rows
<1> QED BY <1>1

\* The part of the invariant that a query and the threads may disturb.
JobsInv == KnownNames /\ OneJobWhileStarted
JobsType ==
  /\ started \subseteq entries /\ done \subseteq entries /\ entries \subseteq Names
  /\ pool \in Pools /\ queue \in [Pools -> Seq(Names)]
  /\ worker \in [Slots -> [step : Steps, name : Names \cup {""}]]

\* What Push does to the queues.
LEMMA PushStep ==
  ASSUME JobsType, NEW n \in Names, Push(n)
  PROVE  /\ queue' \in [Pools -> Seq(Names)]
         /\ \A g \in Pools : g # pool => queue'[g] = queue[g]
         /\ Len(queue[pool]) \in Nat /\ Len(queue'[pool]) = Len(queue[pool]) + 1
         /\ \A i \in 1 .. Len(queue[pool]) : queue'[pool][i] = queue[pool][i]
         /\ queue'[pool][Len(queue[pool]) + 1] = n
<1>1. queue[pool] \in Seq(Names) /\ pool \in Pools
  BY DEF JobsType
<1>2. queue' = [queue EXCEPT ![pool] = Append(queue[pool], n)]
  BY DEF Push
<1>3. Append(queue[pool], n) \in Seq(Names)
  BY <1>1, AppendProperties
<1>4. queue'[pool] = Append(queue[pool], n) /\ \A g \in Pools : g # pool => queue'[g] = queue[g]
  BY <1>1, <1>2 DEF JobsType
<1>5. queue' \in [Pools -> Seq(Names)]
  BY <1>2, <1>3 DEF JobsType
<1> QED BY <1>1, <1>4, <1>5, AppendProperties

\* One job, told of numbers that may be beyond the end of a queue.
OneOf(n) ==
  /\ \A g, h \in Pools, i, k \in Nat : Waits(n, g, i) /\ Waits(n, h, k) => g = h /\ i = k
  /\ \A s, t \in Slots : Loads(n, s) /\ Loads(n, t) => s = t
  /\ \A s \in Slots, g \in Pools, i \in Nat : ~(Loads(n, s) /\ Waits(n, g, i))
  /\ \/ n \in done
     \/ \E s \in Slots : Loads(n, s)
     \/ \E g \in Pools, i \in Nat : Waits(n, g, i)

\* Both say the same, as a place in a queue is within its length.
LEMMA OneJobIsOneOf ==
  ASSUME JobsType, NEW n
  PROVE  OneJob(n) <=> OneOf(n)
<1>1. ASSUME NEW g \in Pools PROVE Len(queue[g]) \in Nat
  <2>1. queue[g] \in Seq(Names)
    BY DEF JobsType
  <2> QED BY <2>1
<1>2. \A g \in Pools, i \in Nat : Waits(n, g, i) => i \in 1 .. Len(queue[g])
  BY DEF Waits
<1> QED BY <1>1, <1>2 DEF OneJob, OneOf

\* The same for the state after a step.
LEMMA OneJobIsOneOfNext ==
  ASSUME JobsType', NEW n
  PROVE  OneJob(n)' <=> OneOf(n)'
<1>1. ASSUME NEW g \in Pools PROVE Len(queue'[g]) \in Nat
  <2>1. queue' \in [Pools -> Seq(Names)]
    BY DEF JobsType, Pools
  <2>2. queue'[g] \in Seq(Names)
    BY <2>1
  <2> QED BY <2>2
<1>2. \A g \in Pools, i \in Nat : Waits(n, g, i)' => i \in 1 .. Len(queue'[g])
  BY DEF Waits
<1> QED BY <1>1, <1>2 DEF OneJob, OneOf, Pools, Slots

\* A name that keeps its jobs has one as before.
LEMMA OneJobKept ==
  ASSUME JobsType, JobsType', NEW n, OneJob(n), n \in done => n \in done',
         \A g \in Pools, i \in Nat : Waits(n, g, i)' <=> Waits(n, g, i),
         \A s \in Slots : Loads(n, s)' <=> Loads(n, s)
  PROVE  OneJob(n)'
<1>1. OneOf(n)
  BY OneJobIsOneOf
<1>2. OneOf(n)'
  BY <1>1 DEF OneOf, Pools, Slots
<1> QED BY <1>2, OneJobIsOneOfNext

\* A query of a name adds one job for it when the name is new, and may add
\* more only for a name that is not started.
LEMMA QueryStep ==
  ASSUME JobsType, JobsInv, NEW n \in Names, Query(n), UNCHANGED <<done, worker, pool>>
  PROVE  /\ JobsInv' /\ JobsType'
         /\ entries \subseteq entries'
<1>0. entries' = entries \cup {n} /\ entries' \subseteq Names
  BY DEF Query, JobsType
<1>1. CASE n \in entries /\ n \in started
  <2>1. UNCHANGED <<entries, started, queue>>
    BY <1>1 DEF Query
  <2>2. JobsType'
    BY <2>1 DEF JobsType, Pools, Slots
  <2>3. KnownNames'
    BY <2>1 DEF JobsInv, KnownNames, Pools, Slots
  <2>4. OneJobWhileStarted'
    BY <2>1, <2>2, OneJobKept DEF JobsInv, OneJobWhileStarted, Waits, Loads
  <2> QED BY <2>1, <2>2, <2>3, <2>4 DEF JobsInv
<1>2. CASE ~(n \in entries /\ n \in started)
  <2>1. Push(n)
    BY <1>2 DEF Query
  <2>2. started' \subseteq entries' /\ done' \subseteq entries'
    BY <1>0 DEF Query, JobsType
  <2> DEFINE q == queue[pool]
             u == queue'[pool]
  <2>3. /\ queue' \in [Pools -> Seq(Names)]
        /\ \A g \in Pools : g # pool => queue'[g] = queue[g]
        /\ Len(q) \in Nat /\ Len(u) = Len(q) + 1
        /\ \A i \in 1 .. Len(q) : u[i] = q[i]
        /\ u[Len(q) + 1] = n
    BY <2>1, PushStep
  <2>4. JobsType'
    BY <1>0, <2>2, <2>3 DEF JobsType, Pools, Slots
  <2>5. KnownNames'
    <3>1. ASSUME NEW g \in Pools, NEW i \in 1 .. Len(queue'[g])
          PROVE  queue'[g][i] \in entries'
      <4>1. CASE g = pool
        <5>1. i \in 1 .. Len(q) \/ i = Len(q) + 1
          BY <2>3, <4>1
        <5>2. CASE i \in 1 .. Len(q)
          BY <1>0, <2>3, <4>1, <5>2 DEF JobsInv, KnownNames
        <5> QED BY <1>0, <2>3, <4>1, <5>1, <5>2
      <4>2. CASE g # pool
        BY <1>0, <2>3, <4>2 DEF JobsInv, KnownNames
      <4> QED BY <4>1, <4>2
    <3> QED BY <1>0, <3>1 DEF JobsInv, KnownNames, Pools, Slots
  \* A name that is started, if it is not n, has the same jobs as before.
  <2>6. ASSUME NEW m \in started', m # n
        PROVE  /\ m \in started
               /\ \A g \in Pools, i \in Nat : Waits(m, g, i)' <=> Waits(m, g, i)
    <3>1. m \in started
      BY <2>6 DEF Query
    <3>2. ASSUME NEW g \in Pools, NEW i \in Nat PROVE Waits(m, g, i)' <=> Waits(m, g, i)
      BY <2>3, <2>6 DEF Waits
    <3> QED BY <3>1, <3>2
  \* If n is started, it was not known, and its only job is the last one.
  <2>7. ASSUME n \in started'
        PROVE  /\ \A g \in Pools, i \in Nat : Waits(n, g, i)' <=> g = pool /\ i = Len(q) + 1
               /\ \A s \in Slots : ~Loads(n, s)'
    <3>1. n \notin entries
      BY <1>2, <2>7 DEF Query
    <3>2. \A g \in Pools : \A i \in 1 .. Len(queue[g]) : queue[g][i] # n
      BY <3>1 DEF JobsInv, KnownNames
    <3>3. ASSUME NEW g \in Pools, NEW i \in Nat
          PROVE  Waits(n, g, i)' <=> g = pool /\ i = Len(q) + 1
      <4>1. CASE g = pool
        <5>1. i \in 1 .. Len(q) => u[i] # n
          BY <2>3, <3>2, <4>1
        <5>2. i \in 1 .. Len(u) <=> i \in 1 .. Len(q) \/ i = Len(q) + 1
          BY <2>3
        <5> QED BY <2>3, <4>1, <5>1, <5>2 DEF Waits
      <4>2. CASE g # pool
        BY <2>3, <3>2, <4>2 DEF Waits
      <4> QED BY <4>1, <4>2
    <3>4. \A s \in Slots : ~Loads(n, s)'
      BY <3>1 DEF JobsInv, KnownNames, Loads
    <3> QED BY <3>3, <3>4
  <2>8. OneJobWhileStarted'
    <3> SUFFICES ASSUME NEW m \in started' PROVE OneJob(m)'
      BY DEF OneJobWhileStarted
    <3>1. CASE m = n
      <4>1. PICK g \in Pools, i \in Nat : g = pool /\ i = Len(q) + 1
        <5>1. pool \in Pools
          BY DEF JobsType
        <5>2. Len(q) + 1 \in Nat
          BY <2>3
        <5> HIDE DEF q, u
        <5> QED BY <5>1, <5>2
      <4>2. Waits(n, g, i)'
        BY <2>7, <3>1, <4>1
      <4>3. OneOf(n)'
        BY <2>7, <3>1, <4>1, <4>2 DEF OneOf, Pools, Slots
      <4> QED BY <2>4, <3>1, <4>3, OneJobIsOneOfNext
    <3>2. CASE m # n
      BY <2>4, <2>6, <3>2, OneJobKept DEF JobsInv, OneJobWhileStarted, Loads
    <3> QED BY <3>1, <3>2
  <2> QED BY <1>0, <2>4, <2>5, <2>8 DEF JobsInv
<1> QED BY <1>1, <1>2

\* Taking the first job of a queue makes it the job of a thread.
LEMMA TakeStep ==
  ASSUME JobsType, JobsInv, NEW s \in Slots, Take(s)
  PROVE  JobsInv' /\ JobsType'
<1> DEFINE g == s[1]
           q == queue[g]
           u == queue'[g]
           n == Head(q)
<1>1. g \in Pools /\ q \in Seq(Names) /\ q # <<>> /\ worker[s] = Idle
  BY DEF Take, JobsType, Slots
<1>2. /\ Len(q) \in Nat \ {0} /\ n = q[1] /\ n \in Names
      /\ Tail(q) \in Seq(Names) /\ Len(Tail(q)) = Len(q) - 1
      /\ \A i \in 1 .. Len(Tail(q)) : Tail(q)[i] = q[i + 1]
  BY <1>1, EmptySeq, HeadTailProperties
<1>3. /\ queue' = [queue EXCEPT ![g] = Tail(q)]
      /\ worker' = [worker EXCEPT ![s] = [step |-> "load", name |-> n]]
      /\ UNCHANGED <<entries, started, done, pool>>
  BY DEF Take, entry, drawing
<1>4. u = Tail(q) /\ \A h \in Pools : h # g => queue'[h] = queue[h]
  BY <1>1, <1>3 DEF JobsType
<1>5. /\ worker'[s] = [step |-> "load", name |-> n]
      /\ \A t \in Slots : t # s => worker'[t] = worker[t]
  BY <1>3 DEF JobsType
<1>6. [step |-> "load", name |-> n] \in [step : Steps, name : Names \cup {""}]
  BY <1>2 DEF Steps
<1>7. JobsType'
  BY <1>2, <1>3, <1>6 DEF JobsType, Pools, Slots
<1> HIDE DEF n, u
<1>8. n \in entries
  BY <1>1, <1>2 DEF JobsInv, KnownNames
<1>9. KnownNames'
  <2>1. ASSUME NEW h \in Pools, NEW i \in 1 .. Len(queue'[h])
        PROVE  queue'[h][i] \in entries
    <3>1. CASE h = g
      <4>0. i \in 1 .. Len(u)
        BY <3>1 DEF u
      <4>1. u[i] = q[i + 1] /\ i + 1 \in 1 .. Len(q)
        BY <1>2, <1>4, <4>0
      <4> QED BY <1>1, <3>1, <4>1 DEF JobsInv, KnownNames, u
    <3>2. CASE h # g
      BY <1>4, <3>2 DEF JobsInv, KnownNames
    <3> QED BY <3>1, <3>2
  <2>2. ASSUME NEW t \in Slots, worker'[t].step # "idle" PROVE worker'[t].name \in entries
    BY <1>5, <1>8, <2>2 DEF JobsInv, KnownNames
  <2> QED BY <1>3, <2>1, <2>2 DEF KnownNames, Pools, Slots
\* How the jobs of any name change.
<1>10. ASSUME NEW m
       PROVE  /\ \A i \in Nat : Waits(m, g, i)' <=> Waits(m, g, i + 1) /\ i # 0
              /\ \A h \in Pools, i \in Nat : h # g => (Waits(m, h, i)' <=> Waits(m, h, i))
              /\ \A t \in Slots : t # s => (Loads(m, t)' <=> Loads(m, t))
              /\ Loads(m, s)' <=> m = n
              /\ ~Loads(m, s)
              /\ Waits(m, g, 1) <=> m = n
  <2>1. ASSUME NEW i \in Nat PROVE Waits(m, g, i)' <=> Waits(m, g, i + 1) /\ i # 0
    <3>1. i \in 1 .. Len(u) <=> i + 1 \in 1 .. Len(q) /\ i # 0
      BY <1>2, <1>4
    <3>2. i \in 1 .. Len(u) => u[i] = q[i + 1]
      BY <1>2, <1>4
    <3>3. Waits(m, g, i)' <=> i \in 1 .. Len(u) /\ u[i] = m
      BY DEF Waits, u
    <3>4. Waits(m, g, i + 1) <=> i + 1 \in 1 .. Len(q) /\ q[i + 1] = m
      BY DEF Waits
    <3> QED BY <3>1, <3>2, <3>3, <3>4
  <2>2. \A h \in Pools, i \in Nat : h # g => (Waits(m, h, i)' <=> Waits(m, h, i))
    BY <1>4 DEF Waits
  <2>3. /\ \A t \in Slots : t # s => (Loads(m, t)' <=> Loads(m, t))
        /\ Loads(m, s)' <=> m = n
        /\ ~Loads(m, s)
    <3>1. \A t \in Slots : t # s => (Loads(m, t)' <=> Loads(m, t))
      BY <1>5 DEF Loads
    <3>2. Loads(m, s)' <=> m = n
      <4>1. worker'[s].name = n /\ worker'[s].step = "load"
        BY <1>5
      <4> QED BY <4>1 DEF Loads
    <3>3. ~Loads(m, s)
      <4>1. worker[s].step = "idle"
        <5>1. Idle.step = "idle"
          BY DEF Idle
        <5> QED BY <1>1, <5>1
      <4> QED BY <4>1 DEF Loads
    <3> QED BY <3>1, <3>2, <3>3
  <2>4. Waits(m, g, 1) <=> m = n
    BY <1>2 DEF Waits
  <2> QED BY <2>1, <2>2, <2>3, <2>4
<1>11. ASSUME NEW m \in started PROVE OneJob(m)'
  <2>1. OneOf(m)
    BY OneJobIsOneOf DEF JobsInv, OneJobWhileStarted
  <2>2. \A h, k \in Pools, i, j \in Nat : Waits(m, h, i)' /\ Waits(m, k, j)' => h = k /\ i = j
    <3> SUFFICES ASSUME NEW h \in Pools, NEW k \in Pools, NEW i \in Nat, NEW j \in Nat,
                        Waits(m, h, i)', Waits(m, k, j)'
                 PROVE  h = k /\ i = j
      OBVIOUS
    <3> DEFINE a == IF h = g THEN i + 1 ELSE i
               b == IF k = g THEN j + 1 ELSE j
    <3>0. a \in Nat /\ b \in Nat
      OBVIOUS
    <3>1. Waits(m, h, a) /\ Waits(m, k, b) /\ a \in Nat /\ b \in Nat
      <4>1. Waits(m, h, a)
        BY <1>10
      <4>2. Waits(m, k, b)
        BY <1>10
      <4> QED BY <3>0, <4>1, <4>2
    <3>2. h = k /\ a = b
      BY <2>1, <3>1 DEF OneOf
    <3> QED BY <3>2
  <2>3. \A t, v \in Slots : Loads(m, t)' /\ Loads(m, v)' => t = v
    <3> SUFFICES ASSUME NEW t \in Slots, NEW v \in Slots, Loads(m, t)', Loads(m, v)', t # v
                 PROVE  FALSE
      OBVIOUS
    <3>1. (Loads(m, t) /\ Loads(m, v)) \/ (m = n /\ (Loads(m, t) \/ Loads(m, v)))
      BY <1>10
    <3>2. m = n => Waits(m, g, 1) /\ 1 \in Nat
      BY <1>10
    <3> QED BY <1>1, <2>1, <3>1, <3>2 DEF OneOf
  <2>4. \A t \in Slots, h \in Pools, i \in Nat : ~(Loads(m, t)' /\ Waits(m, h, i)')
    <3> SUFFICES ASSUME NEW t \in Slots, NEW h \in Pools, NEW i \in Nat,
                        Loads(m, t)', Waits(m, h, i)'
                 PROVE  FALSE
      OBVIOUS
    <3> DEFINE a == IF h = g THEN i + 1 ELSE i
    <3>1. Waits(m, h, a) /\ a \in Nat /\ (h = g => a # 1)
      <4>1. CASE h = g
        <5>1. Waits(m, g, i + 1) /\ i # 0
          BY <1>10, <4>1
        <5> QED BY <4>1, <5>1
      <4>2. CASE h # g
        BY <1>10, <4>2
      <4> QED BY <4>1, <4>2
    <3>2. CASE t = s
      <4>1. Waits(m, g, 1) /\ 1 \in Nat
        BY <1>10, <3>2
      <4>2. h = g /\ a = 1
        BY <1>1, <2>1, <3>1, <4>1 DEF OneOf
      <4> QED BY <3>1, <4>2
    <3>3. CASE t # s
      BY <1>10, <2>1, <3>1, <3>3 DEF OneOf
    <3> QED BY <3>2, <3>3
  <2>5. \/ m \in done
        \/ \E t \in Slots : Loads(m, t)'
        \/ \E h \in Pools, i \in Nat : Waits(m, h, i)'
    <3>1. CASE m \in done \/ m = n
      BY <1>10, <3>1
    <3>2. CASE m # n /\ \E t \in Slots : Loads(m, t)
      BY <1>10, <3>2
    <3>3. CASE m # n /\ \E h \in Pools, i \in Nat : Waits(m, h, i)
      <4>1. PICK h \in Pools, i \in Nat : Waits(m, h, i)
        BY <3>3
      <4>2. CASE h # g
        BY <1>10, <4>1, <4>2
      <4>3. CASE h = g
        <5>1. i # 0
          BY <4>1 DEF Waits
        <5>2. i # 1
          <6>1. ~Waits(m, g, 1)
            BY <1>10, <3>3
          <6> QED BY <4>1, <4>3, <6>1
        <5>3. PICK j \in Nat : i = j + 1 /\ j # 0
          <6>1. i - 1 \in Nat /\ i = (i - 1) + 1 /\ i - 1 # 0
            BY <5>1, <5>2
          <6> QED BY <6>1
        <5>4. Waits(m, g, j + 1)
          BY <4>1, <4>3, <5>3
        <5>5. Waits(m, g, j)'
          BY <1>10, <5>3, <5>4
        <5> QED BY <1>1, <5>5
      <4> QED BY <4>2, <4>3
    <3> QED BY <2>1, <3>1, <3>2, <3>3 DEF OneOf
  <2>6. OneOf(m)'
    BY <1>3, <2>2, <2>3, <2>4, <2>5 DEF OneOf, Pools, Slots
  <2> QED BY <1>7, <2>6, OneJobIsOneOfNext
<1>12. OneJobWhileStarted'
  BY <1>3, <1>11 DEF OneJobWhileStarted
<1> QED BY <1>7, <1>9, <1>12 DEF JobsInv

\* The other steps of a thread.
LEMMA WorkStep ==
  ASSUME JobsType, JobsInv, NEW s \in Slots,
         Load(s) \/ Mark(s) \/ Check(s) \/ Arm(s) \/ Store(s)
  PROVE  JobsInv' /\ JobsType'
<1> USE DEF drawing, entry, timer
<1>1. UNCHANGED <<entries, started, pool, queue>>
  BY DEF Load, Mark, Check, Arm, Store
<1>2. worker[s] \in [step : Steps, name : Names \cup {""}]
  BY DEF JobsType
<1>3. PICK w \in [step : Steps, name : Names \cup {""}] :
        /\ worker' = [worker EXCEPT ![s] = w]
        /\ w.step = "idle" \/ w.name = worker[s].name
        /\ Check(s) \/ Arm(s) \/ Store(s) => w.step \in {"idle", "arm", "store"}
  <2>1. CASE (Check(s) /\ armed) \/ Store(s)
    <3>1. worker' = [worker EXCEPT ![s] = Idle]
      BY <2>1 DEF Check, Store
    <3>2. Idle \in [step : Steps, name : Names \cup {""}] /\ Idle.step = "idle"
      BY DEF Idle, Steps
    <3> QED BY <3>1, <3>2
  <2>2. CASE ~((Check(s) /\ armed) \/ Store(s))
    <3>1. PICK step \in Steps :
            /\ worker' = [worker EXCEPT ![s].step = step]
            /\ Check(s) \/ Arm(s) \/ Store(s) => step \in {"idle", "arm", "store"}
      <4>1. CASE Load(s)
        BY <4>1 DEF Load, Check, Arm, Store, At, Goto, Steps
      <4>2. CASE Mark(s)
        BY <4>2 DEF Mark, Check, Arm, Store, At, Goto, Steps
      <4>3. CASE Check(s) /\ ~armed
        BY <4>3 DEF Check, Goto, Steps
      <4>4. CASE Arm(s)
        BY <4>4 DEF Arm, Goto, Steps
      <4> QED BY <2>2, <4>1, <4>2, <4>3, <4>4
    <3> DEFINE v == [worker[s] EXCEPT !.step = step]
    <3>2. worker' = [worker EXCEPT ![s] = v]
      BY <3>1
    <3>3. v \in [step : Steps, name : Names \cup {""}]
      BY <1>2
    <3>4. v.name = worker[s].name /\ v.step = step
      BY <1>2
    <3> HIDE DEF v
    <3> QED BY <3>1, <3>2, <3>3, <3>4
  <2> QED BY <2>1, <2>2
<1>4. /\ worker' \in [Slots -> [step : Steps, name : Names \cup {""}]]
      /\ worker'[s] = w /\ \A t \in Slots : t # s => worker'[t] = worker[t]
  BY <1>3 DEF JobsType
<1>5. w.step = "idle" \/ w.name = worker[s].name
  BY <1>3
<1>6. worker[s].step # "idle" /\ worker[s].name \in entries
  BY DEF Load, Mark, Check, Arm, Store, At, JobsInv, KnownNames
<1>7. done \subseteq done' /\ done' \subseteq entries
  BY <1>6 DEF Load, Mark, Check, Arm, Store, JobsType
<1>8. JobsType'
  BY <1>1, <1>4, <1>7 DEF JobsType, Pools, Slots
<1>9. KnownNames'
  BY <1>1, <1>4, <1>5, <1>6 DEF JobsInv, KnownNames, Pools, Slots
<1>10. \A m, g, i : Waits(m, g, i)' <=> Waits(m, g, i)
  BY <1>1 DEF Waits
<1>11. \A m : \A t \in Slots : t # s => (Loads(m, t)' <=> Loads(m, t))
  BY <1>4 DEF Loads
<1>12. ASSUME NEW m \in started PROVE OneJob(m)'
  <2>1. OneJob(m)
    BY DEF JobsInv, OneJobWhileStarted
  <2>2. CASE Load(s)
    <3>1. Loads(m, s)' <=> Loads(m, s)
      BY <2>2 DEF Load, At, Goto, Loads, JobsType
    <3> QED BY <1>7, <1>8, <1>10, <1>11, <2>1, <3>1, OneJobKept
  <2>3. CASE Check(s) \/ Arm(s) \/ Store(s)
    <3>1. ~Loads(m, s) /\ ~Loads(m, s)'
      <4>1. w.step \in {"idle", "arm", "store"}
        BY <1>3, <2>3
      <4>2. worker[s].step \in {"check", "arm", "store"}
        BY <2>3 DEF Check, Arm, Store, At
      <4> QED BY <1>4, <4>1, <4>2 DEF Loads
    <3> QED BY <1>7, <1>8, <1>10, <1>11, <2>1, <3>1, OneJobKept
  <2>4. CASE Mark(s)
    <3>1. ~Loads(m, s)' /\ (Loads(m, s) => m \in done')
      BY <2>4 DEF Mark, At, Goto, Loads, JobsType
    <3>2. OneOf(m)
      BY <2>1, OneJobIsOneOf
    <3>3. OneOf(m)'
      BY <1>7, <1>10, <1>11, <3>1, <3>2 DEF OneOf, Pools, Slots
    <3> QED BY <1>8, <3>3, OneJobIsOneOfNext
  <2> QED BY <2>2, <2>3, <2>4
<1>13. OneJobWhileStarted'
  BY <1>1, <1>12 DEF OneJobWhileStarted
<1> QED BY <1>8, <1>9, <1>13 DEF JobsInv

\* The names whose jobs are dropped are not started any more.
LEMMA DropStep ==
  ASSUME JobsType, JobsInv, NEW g \in Pools, Drop(g)
  PROVE  JobsInv' /\ JobsType'
<1>1. /\ queue' = [queue EXCEPT ![g] = <<>>] /\ started' = started \ ToSet(queue[g])
      /\ UNCHANGED <<entries, done, worker, pool>>
  BY DEF Drop, drawing
<1>2. <<>> \in Seq(Names) /\ Len(<<>>) = 0
  BY EmptySeq
<1>3. queue'[g] = <<>> /\ \A h \in Pools : h # g => queue'[h] = queue[h]
  BY <1>1 DEF JobsType
<1>4. JobsType'
  BY <1>1, <1>2 DEF JobsType, Pools, Slots
<1>5. KnownNames'
  <2>1. ASSUME NEW h \in Pools, NEW i \in 1 .. Len(queue'[h]) PROVE queue'[h][i] \in entries
    <3>1. h # g
      BY <1>2, <1>3
    <3> QED BY <1>3, <3>1 DEF JobsInv, KnownNames
  <2> QED BY <1>1, <2>1 DEF JobsInv, KnownNames, Pools, Slots
<1>6. ASSUME NEW m \in started' PROVE OneJob(m)'
  <2>1. m \in started /\ m \notin ToSet(queue[g])
    BY <1>1
  <2>2. queue[g] \in Seq(Names)
    BY DEF JobsType
  <2>3. \A i \in Nat : ~Waits(m, g, i)
    BY <2>1, <2>2 DEF Waits, ToSet
  <2>4. \A i \in Nat : ~Waits(m, g, i)'
    BY <1>2, <1>3 DEF Waits
  <2>5. \A h \in Pools, i \in Nat : Waits(m, h, i)' <=> Waits(m, h, i)
    BY <1>3, <2>3, <2>4 DEF Waits
  <2>6. \A s \in Slots : Loads(m, s)' <=> Loads(m, s)
    BY <1>1 DEF Loads
  <2> QED BY <1>1, <1>4, <2>1, <2>5, <2>6, OneJobKept DEF JobsInv, OneJobWhileStarted
<1> QED BY <1>4, <1>5, <1>6 DEF JobsInv, OneJobWhileStarted

\* What changes none of it.
LEMMA JobsUnchanged ==
  ASSUME JobsType, JobsInv, UNCHANGED <<entries, started, done, pool, queue, worker>>
  PROVE  JobsInv' /\ JobsType'
<1>1. JobsType'
  BY DEF JobsType, Pools, Slots
<1>2. KnownNames'
  BY DEF JobsInv, KnownNames, Pools, Slots
<1>3. OneJobWhileStarted'
  BY <1>1, OneJobKept DEF JobsInv, OneJobWhileStarted, Waits, Loads
<1> QED BY <1>1, <1>2, <1>3 DEF JobsInv

-----------------------------------------------------------------------------
\* What the drawing of a row does to the uid and the fallback of a row: while
\* the uid is set, there is a name at the fallback index.
DrawInv ==
  /\ uid \in [Rows -> BOOLEAN] /\ index \in [Rows -> Nat]
  /\ \A r \in Rows : index[r] <= Len(Icons[r]) /\ (uid[r] => index[r] < Len(Icons[r]))
  /\ kind # "fallback" => \A r \in Rows : index[r] = 0

\* A query of the icon at a fallback index keeps the names and the jobs.
LEMMA FallbackStep ==
  ASSUME JobsType, JobsInv, DrawInv, kind = "fallback", kind' = kind,
         NEW r \in Rows, NEW k \in Nat, k <= Len(Icons[r]), QueryFallback(r, k),
         UNCHANGED <<done, worker, pool>>
  PROVE  DrawInv' /\ JobsInv' /\ JobsType' /\ entries \subseteq entries'
<1>0. Len(Icons[r]) \in Nat
  BY IconNames
<1>1. index' = [index EXCEPT ![r] = k] /\ uid' = [uid EXCEPT ![r] = k < Len(Icons[r])]
  BY DEF QueryFallback
<1>2. uid' \in [Rows -> BOOLEAN] /\ index' \in [Rows -> Nat]
  BY <1>1 DEF DrawInv
<1>3. ASSUME NEW t \in Rows
      PROVE  index'[t] <= Len(Icons[t]) /\ (uid'[t] => index'[t] < Len(Icons[t]))
  <2>1. CASE t = r
    <3>1. index'[t] = k /\ uid'[t] = (k < Len(Icons[r]))
      BY <1>1, <2>1 DEF DrawInv
    <3> QED BY <2>1, <3>1
  <2>2. CASE t # r
    BY <1>1, <2>2 DEF DrawInv
  <2> QED BY <2>1, <2>2
<1>4. DrawInv'
  BY <1>2, <1>3 DEF DrawInv, Rows
<1>5. CASE k < Len(Icons[r])
  <2>1. k + 1 \in 1 .. Len(Icons[r]) /\ Query(Icons[r][k + 1])
    BY <1>0, <1>5 DEF QueryFallback
  <2>2. Icons[r][k + 1] \in Names
    BY <2>1, IconNames
  <2> QED BY <1>4, <2>1, <2>2, QueryStep
<1>6. CASE ~(k < Len(Icons[r]))
  <2>1. UNCHANGED <<entries, started, queue>>
    BY <1>6 DEF QueryFallback
  <2> QED BY <1>4, <2>1, JobsUnchanged
<1> QED BY <1>5, <1>6

\* The first drawing of a row, for each kind of mode.
LEMMA DrawStep ==
  ASSUME JobsType, JobsInv, DrawInv, NEW r \in Rows, kind' = kind,
         DrawCaching(r) \/ DrawQuerying(r) \/ DrawFallback(r),
         UNCHANGED <<done, worker, pool>>
  PROVE  /\ DrawInv' /\ JobsInv' /\ JobsType' /\ entries \subseteq entries'
         /\ torn' = torn \/ (torn' = r /\ uid'[r] /\ kind = "fallback")
<1>0. Len(Icons[r]) \in Nat \ {0} /\ Icons[r][1] \in Names
  BY IconNames
<1>1. CASE DrawCaching(r) \/ DrawQuerying(r)
  <2>1. /\ kind # "fallback" /\ UNCHANGED <<torn, index>>
        /\ uid' = [uid EXCEPT ![r] = TRUE]
    BY <1>1 DEF DrawCaching, DrawQuerying
  <2>2. uid' \in [Rows -> BOOLEAN] /\ \A t \in Rows : t # r => uid'[t] = uid[t]
    BY <2>1 DEF DrawInv
  <2>3. \A t \in Rows : 0 < Len(Icons[t]) /\ 0 <= Len(Icons[t])
    BY IconNames
  <2>4. \A t \in Rows : index[t] = 0
    BY <2>1 DEF DrawInv
  <2>5. DrawInv'
    <3>1. \A t \in Rows : index[t] <= Len(Icons[t]) /\ index[t] < Len(Icons[t])
      BY <2>3, <2>4
    <3> QED BY <2>1, <2>2, <2>4, <3>1 DEF DrawInv, Rows
  <2>6. CASE Query(Icons[r][1])
    BY <1>0, <2>1, <2>5, <2>6, QueryStep
  <2>7. CASE ~Query(Icons[r][1])
    <3>1. UNCHANGED <<entries, started, queue>>
      BY <1>1, <2>7 DEF DrawCaching, DrawQuerying
    <3> QED BY <2>1, <2>5, <3>1, JobsUnchanged
  <2> QED BY <2>6, <2>7
<1>2. CASE DrawFallback(r) /\ ~uid[r]
  <2>1. QueryFallback(r, index[r]) /\ torn' = torn /\ kind = "fallback"
    BY <1>2 DEF DrawFallback
  <2>2. index[r] \in Nat /\ index[r] <= Len(Icons[r])
    BY DEF DrawInv
  <2> QED BY <2>1, <2>2, FallbackStep
<1>3. CASE DrawFallback(r) /\ uid[r]
  <2>1. UNCHANGED <<uid, index, entries, started, queue>> /\ (torn' = torn \/ torn' = r) /\ kind = "fallback"
    BY <1>3 DEF DrawFallback
  <2>2. DrawInv'
    BY <2>1 DEF DrawInv, Rows
  <2> QED BY <1>3, <2>1, <2>2, JobsUnchanged
<1> QED BY <1>1, <1>2, <1>3

\* The parts of the types that are not about jobs and drawing.
ScreenType ==
  /\ kind \in Kinds /\ page \in DOMAIN Pages /\ todo \subseteq Pages[page]
  /\ torn \in {0} \cup Rows /\ (torn # 0 => kind = "fallback" /\ uid[torn])
  /\ shows \subseteq Rows /\ surface \subseteq entries
  /\ sources \in Nat /\ armed \in BOOLEAN

\* The invariant, cut into what its lemmas are about.
LEMMA Parts == IInv <=> JobsType /\ JobsInv /\ DrawInv /\ ScreenType
BY DEF IInv, JobsType, JobsInv, DrawInv, ScreenType, TypeOK, FallbackInv

\* The invariant holds before anything is queried.
LEMMA InitIInv == Init => IInv
<1> SUFFICES ASSUME Init PROVE IInv
  OBVIOUS
<1>1. 1 \in DOMAIN Pages /\ Pages[1] \subseteq Rows
  <2>1. Len(Pages) \in Nat \ {0} /\ DOMAIN Pages = 1 .. Len(Pages)
    BY IconFetcherAssumption, EmptySeq
  <2> QED BY <2>1, PageRows
<1>2. \A r \in Rows : 0 <= Len(Icons[r]) /\ 0 < Len(Icons[r])
  BY IconNames
<1>3. pool \in Pools /\ queue \in [Pools -> Seq(Names)]
  <2>1. <<>> \in Seq(Names)
    BY EmptySeq
  <2>2. 0 \in Pools
    BY IconFetcherAssumption DEF Pools
  <2> QED BY <2>1, <2>2 DEF Init
<1>4. worker \in [Slots -> [step : Steps, name : Names \cup {""}]]
  <2>1. Idle \in [step : Steps, name : Names \cup {""}]
    BY DEF Idle, Steps
  <2> QED BY <2>1 DEF Init
<1>5. uid \in [Rows -> BOOLEAN] /\ index \in [Rows -> Nat]
  BY DEF Init
<1>6. \A r \in Rows : index[r] = 0 /\ ~uid[r]
  BY DEF Init
<1>7. TypeOK
  <2>1. \A r \in Rows : index[r] <= Len(Icons[r]) /\ (uid[r] => index[r] < Len(Icons[r]))
    BY <1>2, <1>6
  <2>2. /\ kind \in Kinds /\ page \in DOMAIN Pages /\ todo \subseteq Pages[page]
        /\ torn \in {0} \cup Rows /\ shows \subseteq Rows
        /\ started \cup surface \cup done \subseteq entries /\ entries \subseteq Names
        /\ sources \in Nat
    BY <1>1 DEF Init
  <2>3. armed \in BOOLEAN
    BY Zenon DEF Init
  <2> QED BY <1>3, <1>4, <1>5, <2>1, <2>2, <2>3 DEF TypeOK
<1>8. KnownNames
  <2>1. \A g \in Pools : Len(queue[g]) = 0
    BY DEF Init
  <2>2. \A s \in Slots : worker[s].step = "idle"
    BY DEF Init, Idle
  <2> QED BY <2>1, <2>2 DEF KnownNames
<1>9. FallbackInv
  BY <1>6 DEF FallbackInv, Init
<1>10. OneJobWhileStarted
  BY DEF OneJobWhileStarted, Init
<1> QED BY <1>7, <1>8, <1>9, <1>10 DEF IInv

\* The invariant is inductive: a step draws, turns the page, or is one of a
\* thread of the pool.
LEMMA NextIInv == IInv /\ [Next]_vars => IInv'
<1> SUFFICES ASSUME IInv, [Next]_vars PROVE IInv'
  OBVIOUS
<1> USE DEF drawing, entry, timer
<1>0. JobsType /\ JobsInv /\ DrawInv /\ ScreenType
  BY Parts
<1>1. ASSUME JobsType', JobsInv', DrawInv', ScreenType' PROVE IInv'
  BY <1>1 DEF IInv, JobsType, JobsInv, DrawInv, ScreenType, TypeOK, FallbackInv, Pools, Slots, Rows
<1>2. ASSUME UNCHANGED <<kind, uid, index>> PROVE DrawInv'
  BY <1>0, <1>2 DEF DrawInv, Rows
<1>3. Pages[page] \subseteq Rows
  BY <1>0, PageRows DEF ScreenType
<1>4. CASE UNCHANGED vars
  <2>1. ScreenType'
    BY <1>0, <1>4 DEF ScreenType, vars, Rows
  <2> QED BY <1>0, <1>1, <1>2, <1>4, <2>1, JobsUnchanged DEF vars
<1>5. CASE Draw
  <2>1. PICK r \in todo : DrawCaching(r) \/ DrawQuerying(r) \/ DrawFallback(r)
    BY <1>5 DEF Draw
  <2>2. r \in Rows /\ torn = 0
    BY <1>0, <1>3, <1>5 DEF ScreenType, Draw
  <2>3. UNCHANGED <<kind, page, surface, done, pool, worker, sources, armed>>
    BY <1>5 DEF Draw
  <2>4. /\ DrawInv' /\ JobsInv' /\ JobsType' /\ entries \subseteq entries'
        /\ torn' = torn \/ (torn' = r /\ uid'[r] /\ kind = "fallback")
    BY <1>0, <2>1, <2>2, <2>3, DrawStep
  <2>5. todo' \subseteq todo /\ shows' \subseteq shows \cup {r}
    BY <2>1 DEF DrawCaching, DrawQuerying, DrawFallback, QueryFallback, Draws
  <2>6. ScreenType'
    BY <1>0, <2>2, <2>3, <2>4, <2>5 DEF ScreenType, Rows
  <2> QED BY <1>1, <2>4, <2>6
<1>6. CASE DrawFallbackEnds
  <2>1. /\ torn # 0 /\ torn' = 0 /\ torn \in Rows /\ uid[torn]
        /\ UNCHANGED <<kind, page, surface, done, pool, worker, sources, armed>>
    BY <1>0, <1>6 DEF DrawFallbackEnds, ScreenType
  <2>2. todo' \subseteq todo /\ shows' \subseteq shows \cup {torn}
    BY <1>6 DEF DrawFallbackEnds, QueryFallback, Draws
  <2>3. DrawInv' /\ JobsInv' /\ JobsType' /\ entries \subseteq entries'
    <3>1. CASE Icons[torn][index[torn] + 1] \in done
      <4>1. QueryFallback(torn, index[torn] + 1)
        BY <1>6, <3>1 DEF DrawFallbackEnds
      <4>2. index[torn] \in Nat /\ index[torn] < Len(Icons[torn]) /\ Len(Icons[torn]) \in Nat
        BY <1>0, <2>1, IconNames DEF DrawInv
      <4>3. index[torn] + 1 \in Nat /\ index[torn] + 1 <= Len(Icons[torn])
        BY <4>2
      <4>4. kind = "fallback"
        BY <1>0, <2>1 DEF ScreenType
      <4> QED BY <1>0, <2>1, <4>1, <4>3, <4>4, FallbackStep
    <3>2. CASE Icons[torn][index[torn] + 1] \notin done
      <4>1. UNCHANGED <<uid, index, entries, started, queue>>
        BY <1>6, <3>2 DEF DrawFallbackEnds
      <4> QED BY <1>0, <1>2, <2>1, <4>1, JobsUnchanged
    <3> QED BY <3>1, <3>2
  <2>4. ScreenType'
    BY <1>0, <2>1, <2>2, <2>3 DEF ScreenType, Rows
  <2> QED BY <1>1, <2>3, <2>4
<1>7. CASE ReloadFires \/ Redraw \/ PageChanges
  <2>1. UNCHANGED <<kind, torn, uid, index, shows, entries, started, surface, done, queue, worker>>
    BY <1>7 DEF ReloadFires, Redraw, PageChanges
  <2>2. pool' \in Pools
    <3>1. pool \in 0 .. MaxChanges /\ MaxChanges \in Nat
      BY <1>0, IconFetcherAssumption DEF JobsType, Pools
    <3>2. pool < MaxChanges => pool + 1 \in 0 .. MaxChanges
      BY <3>1
    <3>3. pool' = pool \/ (pool' = pool + 1 /\ pool < MaxChanges)
      <4>1. ReloadFires \/ Redraw => pool' = pool
        BY Zenon DEF ReloadFires, Redraw
      <4>2. PageChanges => pool' = pool + 1 /\ pool < MaxChanges
        BY DEF PageChanges
      <4> QED BY <1>7, <4>1, <4>2
    <3> QED BY <3>1, <3>2, <3>3 DEF Pools
  <2>3. JobsInv' /\ JobsType'
    <3>1. JobsType'
      BY <1>0, <2>1, <2>2 DEF JobsType, Pools, Slots
    <3>2. KnownNames'
      BY <1>0, <2>1 DEF JobsInv, KnownNames, Pools, Slots
    <3>3. OneJobWhileStarted'
      BY <1>0, <2>1, <3>1, OneJobKept DEF JobsInv, OneJobWhileStarted, Waits, Loads
    <3> QED BY <3>1, <3>2, <3>3 DEF JobsInv
  <2>4. page' \in DOMAIN Pages /\ todo' \subseteq Pages[page']
    BY <1>0, <1>7 DEF ReloadFires, Redraw, PageChanges, ScreenType
  <2>5. sources' \in Nat /\ armed' \in BOOLEAN
    <3>1. sources > 0 => sources - 1 \in Nat
      BY <1>0 DEF ScreenType
    <3>2. sources' = sources \/ (sources' = sources - 1 /\ sources > 0)
      <4>1. Redraw \/ PageChanges => sources' = sources
        BY Zenon DEF Redraw, PageChanges
      <4>2. ReloadFires => sources' = sources - 1 /\ sources > 0
        BY DEF ReloadFires
      <4> QED BY <1>7, <4>1, <4>2
    <3>3. armed' = armed \/ armed' = FALSE
      BY <1>7 DEF ReloadFires, Redraw, PageChanges
    <3> QED BY <1>0, <3>1, <3>2, <3>3 DEF ScreenType
  <2>6. ScreenType'
    BY <1>0, <2>1, <2>4, <2>5 DEF ScreenType, Rows
  <2> QED BY <1>1, <1>2, <2>1, <2>3, <2>6
<1>8. CASE \E s \in Slots : Work(s)
  <2>1. PICK s \in Slots : Take(s) \/ Load(s) \/ Mark(s) \/ Check(s) \/ Arm(s) \/ Store(s)
    BY <1>8 DEF Work
  <2>2. JobsInv' /\ JobsType'
    BY <1>0, <2>1, TakeStep, WorkStep
  <2>3. UNCHANGED <<kind, page, todo, torn, uid, index, shows, entries>>
    BY <2>1 DEF Take, Load, Mark, Check, Arm, Store
  <2>4. surface' \subseteq entries
    <3>1. Load(s) => worker[s].name \in entries
      BY <1>0 DEF JobsInv, KnownNames, Load, At
    <3> QED BY <1>0, <2>1, <3>1 DEF ScreenType, Take, Load, Mark, Check, Arm, Store
  <2>5. sources' \in Nat /\ armed' \in BOOLEAN
    <3>1. sources + 1 \in Nat
      BY <1>0 DEF ScreenType
    <3>2. sources' = sources \/ sources' = sources + 1
      BY <2>1 DEF Take, Load, Mark, Check, Arm, Store
    <3>3. armed' = armed \/ armed' = TRUE
      BY <2>1 DEF Take, Load, Mark, Check, Arm, Store
    <3> QED BY <1>0, <3>1, <3>2, <3>3 DEF ScreenType
  <2>6. ScreenType'
    BY <1>0, <2>3, <2>4, <2>5 DEF ScreenType, Rows
  <2> QED BY <1>1, <1>2, <2>2, <2>3, <2>6
<1>9. CASE \E g \in Pools : Drop(g)
  <2>1. PICK g \in Pools : Drop(g)
    BY <1>9
  <2>2. JobsInv' /\ JobsType'
    BY <1>0, <2>1, DropStep
  <2>3. UNCHANGED <<kind, page, todo, torn, uid, index, shows, entries, surface, sources, armed>>
    BY <2>1 DEF Drop
  <2>4. ScreenType'
    BY <1>0, <2>3 DEF ScreenType, Rows
  <2> QED BY <1>1, <1>2, <2>2, <2>3, <2>4
<1> QED BY <1>4, <1>5, <1>6, <1>7, <1>8, <1>9 DEF Next

\* The inductive invariant holds in every reachable state.
LEMMA Invariance == Spec => []IInv
BY InitIInv, NextIInv, PTL DEF Spec

\* The variables have their types: while the uid of a row is set, there is a
\* name at its fallback index (dmenu.c and script.c, _get_icon), and nothing is
\* marked or loaded that was not asked for.
THEOREM TypeCorrect == Spec => []TypeOK
<1>1. IInv => TypeOK
  BY DEF IInv
<1> QED BY <1>1, Invariance, PTL

\* As long as query_started of an entry is set, at most one job loads it, in
\* whatever pool and thread, and if there is none the query is done: no two
\* threads write one surface, although entries are shared without a lock
\* (rofi-icon-fetcher.c:374-625).
THEOREM OneJobPerIcon == Spec => []OneJobWhileStarted
<1>1. IInv => OneJobWhileStarted
  BY DEF IInv
<1> QED BY <1>1, Invariance, PTL
=============================================================================
