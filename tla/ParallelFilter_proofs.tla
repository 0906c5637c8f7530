----------------------- MODULE ParallelFilter_proofs -----------------------
(***************************************************************************)
(* Proofs about ParallelFilter, for any number of rows, threads and jobs.  *)
(***************************************************************************)
EXTENDS ParallelFilter, FiniteSetTheorems, TLAPS

\* Quotients are rounded down.
LEMMA Quotient ==
  ASSUME NEW a \in Nat, NEW b \in Nat \ {0}
  PROVE  /\ a \div b \in Nat
         /\ (a \div b) * b <= a
         /\ a < (a \div b) * b + b
  BY Z3

\* There is at least one job.
LEMMA JobCountType ==
  ASSUME NEW n \in Nat
  PROVE  JobCount(n) \in Nat \ {0}
<1>1. n \div RowsPerJob \in Nat
  BY Quotient, ParallelFilterAssumption
<1>2. Threads * JobsPerThread \in Nat \ {0}
  BY ParallelFilterAssumption
<1> QED
  BY <1>1, <1>2 DEF JobCount, Lesser, Greater

\* The slices follow each other and cover all rows (view.c:811-815): a slice
\* ends where the next one starts, or at the last row.
LEMMA Slices ==
  ASSUME NEW n \in Nat
  PROVE  /\ \A i \in Nat : SliceStart(n, i) \in Nat
         /\ \A i \in Nat : SliceStop(n, i) \in 0 .. n
         /\ \A i \in Nat : SliceStop(n, i) = IF n < SliceStart(n, i + 1) THEN n
                                             ELSE SliceStart(n, i + 1)
         /\ \A i, k \in Nat : i <= k => SliceStart(n, i) <= SliceStart(n, k)
         /\ SliceStart(n, 0) = 0
         /\ n < SliceStart(n, JobCount(n))
<1> DEFINE w == Steps(n)
           c == JobCount(n)
<1>1. c \in Nat \ {0}
  BY JobCountType
<1>2. n + c \in Nat
  BY <1>1
<1>3. w \in Nat /\ n + c < w * c + c
  BY <1>1, <1>2, Quotient DEF Steps
<1>4. n < w * c
  BY <1>1, <1>3
<1>5. \A i \in Nat : SliceStart(n, i) = i * w
  BY DEF SliceStart
<1>6. \A i \in Nat : SliceStart(n, i) \in Nat
  BY <1>3, <1>5
<1>7. ASSUME NEW i \in Nat, NEW k \in Nat, i <= k
      PROVE  SliceStart(n, i) <= SliceStart(n, k)
  <2>1. PICK d \in Nat : k = i + d
    BY <1>7
  <2>2. k * w = i * w + d * w /\ d * w \in Nat
    BY <2>1, <1>3
  <2> QED BY <2>2, <1>3, <1>5
<1>8. SliceStart(n, 0) = 0
  BY <1>3, <1>5
<1>9. n < SliceStart(n, c)
  BY <1>1, <1>3, <1>4, <1>5
<1>10. \A i \in Nat : SliceStop(n, i) = IF n < SliceStart(n, i + 1) THEN n
                                             ELSE SliceStart(n, i + 1)
  BY <1>6 DEF SliceStop, Lesser
<1>11. \A i \in Nat : SliceStop(n, i) \in 0 .. n
  BY <1>6, <1>10
<1> QED BY <1>6, <1>7, <1>8, <1>9, <1>10, <1>11

\* What every step may use of the invariant about numbers and slices.
LEMMA Basics ==
  ASSUME IInv
  PROVE  /\ numLines \in Nat
         /\ JobCount(numLines) \in Nat \ {0}
         /\ 0 \in Jobs
         /\ Jobs \subseteq Nat
         /\ IsFiniteSet(Jobs) /\ Cardinality(Jobs) = JobCount(numLines)
         /\ IsFiniteSet(Unfinished) /\ Unfinished \subseteq Jobs
<1>1. numLines \in Nat
  BY ParallelFilterAssumption DEF IInv, TypeOK
<1>2. JobCount(numLines) \in Nat \ {0}
  BY <1>1, JobCountType
<1>3. 0 \in Jobs /\ Jobs \subseteq Nat
  BY <1>2 DEF Jobs, JobsOf
<1>4. IsFiniteSet(Jobs) /\ Cardinality(Jobs) = JobCount(numLines)
  <2> DEFINE last == JobCount(numLines) - 1
  <2>1. last \in Nat /\ last - 0 + 1 = JobCount(numLines) /\ Jobs = 0 .. last
    BY <1>2 DEF Jobs, JobsOf
  <2> HIDE DEF last
  <2>2. IsFiniteSet(0 .. last) /\ Cardinality(0 .. last) = last - 0 + 1
    BY <2>1, FS_Interval
  <2> QED BY <2>1, <2>2
<1>5. Unfinished \subseteq Jobs
  BY DEF Unfinished
<1>6. IsFiniteSet(Unfinished)
  BY <1>4, <1>5, FS_Subset
<1> QED BY <1>1, <1>2, <1>3, <1>4, <1>5, <1>6

\* The invariant holds before the first pass.
LEMMA InitIInv == Init => IInv
<1> SUFFICES ASSUME Init PROVE IInv
  OBVIOUS
<1>1. numLines \in Nat
  BY ParallelFilterAssumption DEF Init
<1>2. JobCount(numLines) \in Nat \ {0}
  BY <1>1, JobCountType
<1>3. TypeOK
  <2>1. Unspawned \in JobTypes(numLines)
    BY <1>1 DEF Unspawned, JobTypes
  <2>2. Zeros(numLines) \in [Rows -> Distances] /\ Zeros(numLines) \in [Rows -> Rows]
    BY <1>1, ParallelFilterAssumption DEF Zeros, Rows
  <2>3. jobs \in [Jobs -> JobTypes(numLines)]
    BY <2>1 DEF Init
  <2>4. /\ lineMap \in [Rows -> Rows] /\ distance \in [Rows -> Distances]
        /\ dist \in [Rows -> Distances]
    BY <2>2 DEF Init
  <2>5. next \in 0 .. JobCount(numLines) /\ count \in 0 .. JobCount(numLines)
    BY <1>2 DEF Init
  <2>6. filtered \in 0 .. numLines
    BY <1>1 DEF Init
  <2> QED
    BY <2>3, <2>4, <2>5, <2>6 DEF Init, TypeOK
<1>4. PhaseInv
  BY <1>2 DEF Init, PhaseInv, Quiescent, Spawned, Unspawned, Jobs, JobsOf
<1>5. JobInv
  BY DEF Init, JobInv, Spawned, Unspawned
<1>6. MutexInv
  BY <1>2 DEF Init, MutexInv, Unspawned, Jobs, JobsOf, Free, Main
<1>7. CountInv /\ DistanceInv /\ MovedInv /\ ListIsRight
  BY DEF Init, CountInv, DistanceInv, MovedInv, ListIsRight, Quiescent
<1>8. FrameIsOurs /\ SlicesKept
  BY DEF Init, FrameIsOurs, SlicesKept, Unspawned
<1> QED BY <1>3, <1>4, <1>5, <1>6, <1>7, <1>8 DEF IInv

-----------------------------------------------------------------------------
\* Steps of the main thread around the wait: they change neither the jobs
\* nor the arrays.
LEMMA WaitSteps ==
  ASSUME IInv, MainLock \/ MainWait \/ MainWake \/ SpuriousWakeup \/ MainPass
  PROVE  IInv'
<1> USE Basics DEF request, sync
<1>0. /\ UNCHANGED <<request, next, jobs, lineMap, distance, count, filtered>>
      /\ pc \in {"lock", "check", "wait"} /\ ~Quiescent
      /\ pc' \in {"check", "wait", "compact"}
  BY DEF MainLock, MainWait, MainWake, SpuriousWakeup, MainPass, Quiescent
<1>1. Jobs' = Jobs /\ Rows' = Rows /\ Unfinished' = Unfinished
  BY <1>0 DEF Jobs, Rows, Unfinished
<1>2. TypeOK'
  BY <1>0, <1>1
  DEF IInv, TypeOK, MainLock, MainWait, MainWake, SpuriousWakeup, MainPass
<1>3. PhaseInv'
  BY <1>0, <1>1 DEF IInv, PhaseInv, Quiescent, Spawned
<1>4. JobInv'
  BY <1>0, <1>1 DEF IInv, JobInv, Spawned
<1>5. MutexInv'
  BY <1>0, <1>1
  DEF IInv, TypeOK, MutexInv, MainLock, MainWait, MainWake, SpuriousWakeup, MainPass,
      Free, Main
<1>6. CountInv'
  BY <1>0, <1>1 DEF IInv, CountInv, Quiescent
<1>7. SlicesKept'
  <2>1. \A i \in Jobs : Found(i)' <=> Found(i)
    BY <1>0 DEF Found, Slot
  <2> QED BY <1>0, <1>1, <2>1 DEF IInv, SlicesKept, Quiescent, PhaseInv
<1>8. DistanceInv'
  BY <1>0, <1>1 DEF IInv, DistanceInv, Spawned, Quiescent
<1>9. FrameIsOurs' /\ MovedInv' /\ ListIsRight'
  <2>1. CASE pc' # "compact"
    BY <1>0, <2>1 DEF FrameIsOurs, MovedInv, ListIsRight, Quiescent
  <2>2. CASE pc' = "compact"
    <3>1. pc = "check" /\ count <= 0 /\ next = 0 /\ filtered = 0
      BY <1>0, <2>2
      DEF IInv, PhaseInv, Quiescent, MainLock, MainWait, MainWake, SpuriousWakeup, MainPass
    <3>2. Cardinality(Unfinished) = 0
      BY <3>1, FS_CardinalityType DEF IInv, CountInv, Quiescent
    <3>3. Unfinished = {}
      BY <3>2, FS_EmptySet
    <3>4. \A i \in Jobs : jobs[i].st \notin {"held", "signalled"}
      BY <3>1 DEF IInv, MutexInv, Main
    <3>5. \A i \in Jobs : jobs[i].st = "over"
      BY <3>3, <3>4 DEF Unfinished
    <3>6. FrameIsOurs'
      BY <1>0, <1>1, <3>5 DEF FrameIsOurs
    <3>7. SliceStart(numLines, 0) = 0
      BY Slices
    <3>8. MovedInv'
      BY <1>0, <3>1, <3>7 DEF MovedInv
    <3> QED BY <2>2, <3>6, <3>8 DEF ListIsRight
  <2> QED BY <2>1, <2>2
<1> QED BY <1>2, <1>3, <1>4, <1>5, <1>6, <1>7, <1>8, <1>9 DEF IInv
-----------------------------------------------------------------------------
\* A job that is not over is inside the pass, and its record is sane.
LEMMA ActiveJob ==
  ASSUME IInv, NEW i \in Jobs, jobs[i].st \in {"queued", "scan", "held", "signalled"}
  PROVE  /\ pc \in {"spawn", "run", "lock", "check", "wait"}
         /\ i \in Nat
         /\ Spawned(i)
         /\ jobs[i] \in JobTypes(numLines)
         /\ filtered = 0
         /\ DOMAIN jobs = Jobs
<1>1. pc \in {"spawn", "run", "lock", "check", "wait"}
  BY DEF IInv, TypeOK, FrameIsOurs, PhaseInv, Spawned
<1>2. jobs \in [Jobs -> JobTypes(numLines)]
  BY DEF IInv, TypeOK
<1>3. filtered = 0
  BY <1>1 DEF IInv, PhaseInv, Quiescent
<1> QED BY <1>1, <1>2, <1>3, Basics DEF Spawned

\* The slices of two jobs have no position in common.
LEMMA SlotsApart ==
  ASSUME IInv, NEW i \in Jobs, NEW k \in Jobs, i # k, Spawned(i), Spawned(k),
         NEW x \in Slot(k)
  PROVE  /\ x \in Int
         /\ x \notin jobs[i].start .. jobs[i].stop - 1
<1>1. /\ i \in Nat /\ k \in Nat /\ numLines \in Nat
      /\ jobs[i] \in JobTypes(numLines) /\ jobs[k] \in JobTypes(numLines)
  BY Basics DEF IInv, TypeOK
<1>2. x \in Int /\ jobs[k].start <= x /\ x < jobs[k].start + jobs[k].count
  BY <1>1 DEF Slot, JobTypes
<1>3. x < jobs[k].stop
  BY <1>1, <1>2 DEF IInv, JobInv, JobTypes
<1>4. CASE k < i
  <2>1. SliceStart(numLines, k + 1) <= SliceStart(numLines, i)
    BY <1>1, <1>4, Slices
  <2>2. SliceStop(numLines, k) <= SliceStart(numLines, k + 1)
    <3>0. k + 1 \in Nat
      BY <1>1
    <3>1. SliceStart(numLines, k + 1) \in Nat
      BY <1>1, <3>0, Slices, Zenon
    <3>2. SliceStop(numLines, k) = IF numLines < SliceStart(numLines, k + 1) THEN numLines
                                   ELSE SliceStart(numLines, k + 1)
      BY <1>1, Slices
    <3> QED BY <1>1, <3>1, <3>2
  <2>3. x < jobs[i].start
    <3>1. /\ jobs[i].start = SliceStart(numLines, i)
          /\ jobs[k].stop = SliceStop(numLines, k)
      BY DEF IInv, JobInv
    <3>2. k + 1 \in Nat
      BY <1>1
    <3> QED BY <1>1, <1>2, <1>3, <2>1, <2>2, <3>1, <3>2, Slices DEF JobTypes
  <2> QED BY <1>1, <1>2, <2>3 DEF JobTypes
<1>5. CASE i < k
  <2>1. SliceStart(numLines, i + 1) <= SliceStart(numLines, k)
    BY <1>1, <1>5, Slices
  <2>2. SliceStop(numLines, i) <= SliceStart(numLines, i + 1)
    <3>0. i + 1 \in Nat
      BY <1>1
    <3>1. SliceStart(numLines, i + 1) \in Nat
      BY <1>1, <3>0, Slices, Zenon
    <3>2. SliceStop(numLines, i) = IF numLines < SliceStart(numLines, i + 1) THEN numLines
                                   ELSE SliceStart(numLines, i + 1)
      BY <1>1, Slices
    <3> QED BY <1>1, <3>1, <3>2
  <2>3. jobs[i].stop <= x
    <3>1. /\ jobs[k].start = SliceStart(numLines, k)
          /\ jobs[i].stop = SliceStop(numLines, i)
      BY DEF IInv, JobInv
    <3>2. i + 1 \in Nat
      BY <1>1
    <3> QED BY <1>1, <1>2, <2>1, <2>2, <3>1, <3>2, Slices DEF JobTypes
  <2> QED BY <1>1, <1>2, <2>3 DEF JobTypes
<1> QED BY <1>1, <1>2, <1>4, <1>5

\* A slice lies within the rows.
LEMMA SlotInRows ==
  ASSUME IInv, NEW k \in Jobs, Spawned(k)
  PROVE  Slot(k) \subseteq Rows
<1>1. k \in Nat /\ numLines \in Nat /\ jobs[k] \in JobTypes(numLines)
  BY Basics DEF IInv, TypeOK
<1>2. /\ jobs[k].start < jobs[k].cur => jobs[k].cur <= jobs[k].stop
      /\ jobs[k].start <= jobs[k].cur
      /\ jobs[k].count <= jobs[k].cur - jobs[k].start
  BY DEF IInv, JobInv
<1> SUFFICES ASSUME NEW x \in Slot(k) PROVE x \in Rows
  OBVIOUS
<1>3. x \in Int /\ jobs[k].start <= x /\ x < jobs[k].start + jobs[k].count
  BY <1>1 DEF Slot, JobTypes
<1>4. 0 <= x /\ x < numLines
  BY <1>1, <1>2, <1>3 DEF JobTypes
<1> QED BY <1>1, <1>3, <1>4 DEF Rows

\* Taking a job, skipping a row, locking: the arrays and what is found stay.
LEMMA QuietJobSteps ==
  ASSUME IInv, NEW i \in Jobs, Take(i) \/ Skip(i) \/ Lock(i) \/ CountDown(i)
  PROVE  IInv'
<1> USE DEF request, sync
<1>0. /\ jobs[i].st \in {"queued", "scan", "held"}
      /\ UNCHANGED <<request, pc, next, lineMap, distance, filtered>>
  BY DEF Take, Skip, Lock, CountDown, Scanning
<1>1. /\ pc \in {"spawn", "run", "lock", "check", "wait"}
      /\ i \in Nat /\ Spawned(i) /\ jobs[i] \in JobTypes(numLines)
      /\ DOMAIN jobs = Jobs /\ numLines \in Nat
  BY <1>0, ActiveJob, Basics
<1>2. Jobs' = Jobs /\ Rows' = Rows
  BY <1>0 DEF Jobs, Rows
<1> DEFINE new == jobs'[i]
<1>3. /\ jobs' = [jobs EXCEPT ![i] = new]
      /\ \A k \in Jobs : k # i => jobs'[k] = jobs[k]
      /\ new.start = jobs[i].start /\ new.stop = jobs[i].stop
      /\ new.count = jobs[i].count
      /\ new.cur = IF Skip(i) THEN jobs[i].cur + 1 ELSE jobs[i].cur
      /\ Take(i) => jobs[i].st = "queued" /\ new.st = "scan"
      /\ Skip(i) => jobs[i].st = "scan" /\ new.st = "scan"
      /\ Lock(i) => jobs[i].st = "scan" /\ new.st = "held"
      /\ CountDown(i) => jobs[i].st = "held" /\ new.st = "signalled"
      /\ new.st \in {"scan", "held", "signalled"}
      /\ new \in JobTypes(numLines)
  <2>1. CASE Take(i)
    <3>1. ~Skip(i) /\ ~Lock(i) /\ ~CountDown(i)
      BY <2>1 DEF Take, Skip, Lock, CountDown, Scanning
    <3> QED BY <1>1, <2>1, <3>1 DEF Take, JobTypes
  <2>2. CASE Skip(i)
    <3>1. ~Take(i) /\ ~Lock(i) /\ ~CountDown(i)
      BY <1>1, <2>2 DEF Take, Skip, Lock, CountDown, Scanning, JobTypes
    <3> QED BY <1>1, <2>2, <3>1 DEF Skip, Scanning, JobTypes
  <2>3. CASE Lock(i)
    <3>1. ~Take(i) /\ ~Skip(i) /\ ~CountDown(i)
      BY <1>1, <2>3 DEF Take, Skip, Lock, CountDown, Scanning, JobTypes
    <3> QED BY <1>1, <2>3, <3>1 DEF Lock, Scanning, JobTypes
  <2>4. CASE CountDown(i)
    <3>1. ~Take(i) /\ ~Skip(i) /\ ~Lock(i)
      BY <2>4 DEF Take, Skip, Lock, CountDown, Scanning
    <3> QED BY <1>1, <2>4, <3>1 DEF CountDown, JobTypes
  <2> QED BY <2>1, <2>2, <2>3, <2>4
<1>4. Skip(i) => jobs[i].cur < jobs[i].stop /\ jobs[i].cur \notin match
  BY DEF Skip
<1>5. \A k \in Jobs : Spawned(k)' <=> Spawned(k)
  BY <1>0, <1>3 DEF Spawned
<1>6. /\ CountInv'
      /\ count' \in 0 .. JobCount(numLines)
  <2>1. count = Cardinality(Unfinished)
    BY <1>1 DEF IInv, CountInv, Quiescent
  <2>2. CASE CountDown(i)
    <3>1. Unfinished' = Unfinished \ {i}
      BY <1>2, <1>3, <2>2 DEF Unfinished, CountDown
    <3>2. i \in Unfinished
      BY <2>2 DEF Unfinished, CountDown
    <3>3. Cardinality(Unfinished') = Cardinality(Unfinished) - 1
      BY <3>1, <3>2, Basics, FS_RemoveElement
    <3>4. Cardinality(Unfinished) \in Nat /\ Cardinality(Unfinished) # 0
      BY <3>2, Basics, FS_CardinalityType, FS_EmptySet
    <3>5. count' = count - 1 /\ count \in 0 .. JobCount(numLines)
      BY <2>2 DEF CountDown, IInv, TypeOK
    <3> QED BY <2>1, <3>3, <3>4, <3>5, Basics DEF CountInv
  <2>3. CASE ~CountDown(i)
    <3>1. count' = count /\ new.st # "signalled" /\ jobs[i].st # "signalled"
      BY <1>3, <2>3 DEF Take, Skip, Lock
    <3>2. Unfinished' = Unfinished
      BY <1>0, <1>2, <1>3, <3>1 DEF Unfinished
    <3> QED BY <2>1, <3>1, <3>2 DEF CountInv, IInv, TypeOK
  <2> QED BY <2>2, <2>3
<1>7. MutexInv' /\ mutex' \in Jobs \cup {Free, Main}
  <2>1. CASE Lock(i)
    BY <1>0, <1>1, <1>2, <1>3, <2>1, Basics DEF Lock, IInv, MutexInv, Free, Main
  <2>2. CASE ~Lock(i)
    <3>1. mutex' = mutex
      BY <2>2 DEF Take, Skip, CountDown
    <3>2. new.st \in {"held", "signalled"} <=> jobs[i].st \in {"held", "signalled"}
      BY <1>3, <2>2
    <3> QED BY <1>0, <1>2, <1>3, <3>1, <3>2 DEF IInv, MutexInv, TypeOK
  <2> QED BY <2>1, <2>2
<1>8. TypeOK'
  <2>1. jobs' \in [Jobs -> JobTypes(numLines)]
    BY <1>3 DEF IInv, TypeOK
  <2>2. waiting' \in BOOLEAN
    BY DEF IInv, TypeOK, Take, Skip, Lock, CountDown
  <2> QED BY <1>0, <1>2, <1>6, <1>7, <2>1, <2>2 DEF IInv, TypeOK
<1>9. PhaseInv'
  <2>1. jobs'[0].st # "queued" /\ (pc \in {"spawn", "run"} => jobs'[0].st # "over")
    BY <1>0, <1>3, Basics DEF IInv, PhaseInv
  <2>2. jobs'[0].st \in {"held", "signalled"} => pc = "run"
    BY <1>0, <1>1, <1>3, Basics
    DEF IInv, PhaseInv, Take, Skip, Lock, CountDown, Scanning
  <2>3. pc \in {"lock", "check", "wait"} => jobs'[0].st = "over"
    BY <1>0, <1>1, <1>3, Basics DEF IInv, PhaseInv
  <2> QED
    BY <1>0, <1>1, <1>2, <1>5, <2>1, <2>2, <2>3 DEF IInv, PhaseInv, Quiescent
<1>10. JobInv'
  <2>1. ASSUME NEW k \in Jobs, k # i, Spawned(k)
        PROVE  jobs'[k] = jobs[k]
    BY <1>3, <2>1
  <2>2. jobs[i].start <= jobs[i].cur /\ jobs[i].count <= jobs[i].cur - jobs[i].start
        /\ jobs[i].start = SliceStart(numLines, i) /\ jobs[i].stop = SliceStop(numLines, i)
        /\ (jobs[i].start < jobs[i].cur => jobs[i].cur <= jobs[i].stop)
        /\ (jobs[i].st = "held" => jobs[i].stop <= jobs[i].cur)
    BY <1>1 DEF IInv, JobInv
  <2>3. new.st \in {"held", "signalled"} => jobs[i].stop <= jobs[i].cur /\ ~Skip(i)
    BY <1>0, <1>1, <2>2 DEF Take, Skip, Lock, CountDown, Scanning, JobTypes
  <2>4. /\ new.start = SliceStart(numLines, i) /\ new.stop = SliceStop(numLines, i)
        /\ new.start <= new.cur
        /\ new.start < new.cur => new.cur <= new.stop
        /\ new.count <= new.cur - new.start
        /\ new.st \in {"held", "signalled", "over"} => new.stop <= new.cur
        /\ new.st # "queued"
    BY <1>1, <1>3, <1>4, <2>2, <2>3 DEF JobTypes
  <2> QED BY <1>0, <1>2, <1>5, <2>1, <2>4 DEF IInv, JobInv
<1>11. SlicesKept'
  <2>1. ASSUME NEW k \in Jobs, Spawned(k)
        PROVE  Found(k)'
    <3>1. Found(k)
      BY <1>1, <2>1 DEF IInv, SlicesKept, Spawned
    <3>2. Slot(k)' = Slot(k)
      BY <1>3 DEF Slot
    <3>3. match \cap (new.start .. new.cur - 1) = match \cap (jobs[i].start .. jobs[i].cur - 1)
      BY <1>1, <1>3, <1>4 DEF JobTypes
    <3> QED BY <1>0, <1>3, <3>1, <3>2, <3>3 DEF Found
  <2> QED BY <1>2, <1>5, <2>1 DEF SlicesKept, Spawned
<1>12. DistanceInv'
  <2>1. ASSUME NEW r \in match, r \in new.start .. new.cur - 1
        PROVE  r \in jobs[i].start .. jobs[i].cur - 1
    BY <1>1, <1>3, <1>4, <2>1 DEF JobTypes
  <2> QED BY <1>0, <1>1, <1>2, <1>3, <1>5, <2>1 DEF IInv, DistanceInv, Quiescent
<1>13. FrameIsOurs' /\ MovedInv' /\ ListIsRight'
  BY <1>0, <1>1 DEF FrameIsOurs, MovedInv, ListIsRight
<1> QED BY <1>6, <1>7, <1>8, <1>9, <1>10, <1>11, <1>12, <1>13 DEF IInv
-----------------------------------------------------------------------------
\* A matching row goes to the next free position of the slice.
LEMMA MatchStep ==
  ASSUME IInv, NEW i \in Jobs, Match(i)
  PROVE  IInv'
<1> USE DEF request, sync
<1> DEFINE job == jobs[i]
           pos == job.start + job.count
           new == jobs'[i]
<1>0. /\ job.st = "scan" /\ job.cur < job.stop /\ job.cur \in match
      /\ UNCHANGED <<request, pc, next, count, mutex, waiting, filtered>>
      /\ lineMap' = Put(lineMap, pos, job.cur)
      /\ distance' = IF sort THEN Put(distance, job.cur, dist[job.cur]) ELSE distance
      /\ jobs' = [jobs EXCEPT ![i].cur = @ + 1, ![i].count = @ + 1]
  BY DEF Match, Scanning
<1>1. /\ pc \in {"spawn", "run", "lock", "check", "wait"}
      /\ i \in Nat /\ Spawned(i) /\ job \in JobTypes(numLines)
      /\ DOMAIN jobs = Jobs /\ numLines \in Nat
  BY <1>0, ActiveJob, Basics
<1>2. Jobs' = Jobs /\ Rows' = Rows
  BY <1>0 DEF Jobs, Rows
<1>3. /\ \A k \in Jobs : k # i => jobs'[k] = jobs[k]
      /\ new.start = job.start /\ new.stop = job.stop /\ new.st = "scan"
      /\ new.cur = job.cur + 1 /\ new.count = job.count + 1
      /\ DOMAIN jobs' = Jobs
  BY <1>0, <1>1 DEF JobTypes
<1>4. /\ job.start \in Nat /\ job.stop \in 0 .. numLines /\ job.cur \in Nat
      /\ job.count \in 0 .. numLines
      /\ job.start = SliceStart(numLines, i) /\ job.stop = SliceStop(numLines, i)
      /\ job.start <= job.cur /\ job.count <= job.cur - job.start
      /\ job.start < job.cur => job.cur <= job.stop
  BY <1>1 DEF JobTypes, IInv, JobInv
<1>5. /\ pos \in Rows /\ job.cur \in Rows
      /\ pos \in job.start .. job.stop - 1
  BY <1>0, <1>1, <1>4 DEF Rows
<1>6. \A k \in Jobs : Spawned(k)' <=> Spawned(k)
  BY <1>0, <1>3 DEF Spawned
<1>7. /\ lineMap \in [Rows -> Rows]
      /\ distance \in [Rows -> Distances] /\ dist \in [Rows -> Distances]
      /\ match \subseteq Rows
  BY DEF IInv, TypeOK
<1>8. /\ lineMap' \in [Rows -> Rows]
      /\ lineMap'[pos] = job.cur
      /\ \A x \in Rows : x # pos => lineMap'[x] = lineMap[x]
  <2>1. lineMap' = [x \in Rows |-> IF x = pos THEN job.cur ELSE lineMap[x]]
    BY <1>0, <1>5, <1>7 DEF Put
  <2> QED BY <1>5, <1>7, <2>1
<1>9. /\ distance' \in [Rows -> Distances]
      /\ sort => distance'[job.cur] = dist[job.cur]
      /\ \A x \in Rows : x # job.cur => distance'[x] = distance[x]
  <2>1. CASE sort
    <3>1. distance' = [x \in Rows |-> IF x = job.cur THEN dist[job.cur] ELSE distance[x]]
      BY <1>0, <1>5, <1>7, <2>1 DEF Put
    <3> QED BY <1>5, <1>7, <3>1
  <2>2. CASE ~sort
    BY <1>0, <1>7, <2>2
  <2> QED BY <2>1, <2>2
<1>10. TypeOK'
  <2>1. new \in JobTypes(numLines)
    <3>1. new = [job EXCEPT !.cur = job.cur + 1, !.count = job.count + 1]
      BY <1>0, <1>1
    <3> QED BY <1>0, <1>1, <1>4, <3>1 DEF JobTypes
  <2>2. jobs' \in [Jobs -> JobTypes(numLines)]
    <3>1. jobs' = [jobs EXCEPT ![i] = new]
      BY <1>0, <1>1
    <3> QED BY <2>1, <3>1 DEF IInv, TypeOK
  <2> QED BY <1>0, <1>2, <1>8, <1>9, <2>2 DEF IInv, TypeOK
<1>11. PhaseInv'
  BY <1>0, <1>2, <1>3, <1>6, Basics DEF IInv, PhaseInv, Quiescent
<1>12. JobInv'
  <2>1. /\ new.start = SliceStart(numLines, i) /\ new.stop = SliceStop(numLines, i)
        /\ new.start <= new.cur
        /\ new.start < new.cur => new.cur <= new.stop
        /\ new.count <= new.cur - new.start
    BY <1>0, <1>3, <1>4
  <2> QED BY <1>0, <1>2, <1>3, <1>6, <2>1 DEF IInv, JobInv
<1>13. MutexInv' /\ CountInv'
  <2>1. Unfinished' = Unfinished
    BY <1>0, <1>2, <1>3 DEF Unfinished
  <2> QED BY <1>0, <1>2, <1>3, <2>1 DEF IInv, MutexInv, CountInv, Quiescent
<1>14. SlicesKept'
  <2>1. ASSUME NEW k \in Jobs, k # i, Spawned(k)
        PROVE  Found(k)'
    <3>1. Found(k)
      BY <1>1, <2>1 DEF IInv, SlicesKept, Spawned
    <3>2. Slot(k)' = Slot(k) /\ jobs'[k] = jobs[k]
      BY <1>3, <2>1 DEF Slot
    <3>3. Slot(k) \subseteq Rows
      BY <2>1, SlotInRows
    <3>4. \A x \in Slot(k) : lineMap'[x] = lineMap[x]
      <4> TAKE x \in Slot(k)
      <4>1. x \in Rows /\ x \notin job.start .. job.stop - 1
        BY <1>1, <2>1, <3>3, SlotsApart
      <4>2. x # pos
        BY <1>5, <4>1
      <4> QED BY <1>8, <4>1, <4>2
    <3>5. {lineMap'[x] : x \in Slot(k)} = {lineMap[x] : x \in Slot(k)}
      BY <3>4
    <3>6. {lineMap'[x] : x \in Slot(k)'} = match' \cap (jobs'[k].start .. jobs'[k].cur - 1)
      BY <1>0, <3>1, <3>2, <3>5 DEF Found
    <3>7. \A a, b \in Slot(k)' : a < b => lineMap'[a] < lineMap'[b]
      BY <3>1, <3>2, <3>4 DEF Found
    <3> QED BY <3>6, <3>7 DEF Found
  <2>2. Found(i)'
    <3>1. Found(i)
      BY <1>1 DEF IInv, SlicesKept, Spawned
    <3>2. Slot(i)' = Slot(i) \cup {pos} /\ pos \notin Slot(i) /\ \A x \in Slot(i) : x < pos
      BY <1>3, <1>4 DEF Slot
    <3>3. Slot(i) \subseteq Rows
      BY <1>1, SlotInRows
    <3>4. \A x \in Slot(i) : lineMap'[x] = lineMap[x]
      BY <1>8, <3>2, <3>3
    <3>5. {lineMap'[x] : x \in Slot(i)'} = {lineMap[x] : x \in Slot(i)} \cup {job.cur}
      BY <1>8, <3>2, <3>4
    <3>6. match \cap (new.start .. new.cur - 1)
            = (match \cap (job.start .. job.cur - 1)) \cup {job.cur}
      BY <1>0, <1>3, <1>4
    <3>7. \A x \in Slot(i) : lineMap[x] < job.cur
      BY <1>4, <3>1 DEF Found
    <3>8. \A a, b \in Slot(i)' : a < b => lineMap'[a] < lineMap'[b]
      <4> SUFFICES ASSUME NEW a \in Slot(i)', NEW b \in Slot(i)', a < b
                   PROVE  lineMap'[a] < lineMap'[b]
        OBVIOUS
      <4>1. a \in Slot(i)
        BY <1>4, <3>2 DEF Slot
      <4>2. CASE b \in Slot(i)
        BY <3>1, <3>4, <4>1, <4>2 DEF Found
      <4>3. CASE b = pos
        BY <1>8, <3>4, <3>7, <4>1, <4>3
      <4> QED BY <3>2, <4>2, <4>3
    <3> QED BY <1>0, <3>1, <3>5, <3>6, <3>8 DEF Found
  <2> QED BY <1>2, <1>6, <2>1, <2>2 DEF SlicesKept, Spawned
<1>15. DistanceInv'
  <2> SUFFICES ASSUME sort, NEW k \in Jobs, Spawned(k), NEW r \in match,
                      r \in jobs'[k].start .. jobs'[k].cur - 1
               PROVE  distance'[r] = dist[r]
    BY <1>0, <1>2, <1>6 DEF DistanceInv
  <2>1. CASE r = job.cur
    BY <1>9, <2>1
  <2>2. CASE r # job.cur
    <3>1. r \in jobs[k].start .. jobs[k].cur - 1
      <4>1. CASE k = i
        <5>1. r \in new.start .. new.cur - 1
          BY <4>1
        <5>2. r \in job.start .. job.cur - 1
          BY <1>3, <1>4, <2>2, <5>1
        <5> QED BY <4>1, <5>2
      <4>2. CASE k # i
        BY <1>3, <4>2
      <4> QED BY <4>1, <4>2
    <3>2. distance[r] = dist[r]
      BY <1>1, <3>1 DEF IInv, DistanceInv, Quiescent
    <3> QED BY <1>7, <1>9, <2>2, <3>2
  <2> QED BY <2>1, <2>2
<1>16. FrameIsOurs' /\ MovedInv' /\ ListIsRight'
  BY <1>0, <1>1 DEF FrameIsOurs, MovedInv, ListIsRight
<1> QED BY <1>10, <1>11, <1>12, <1>13, <1>14, <1>15, <1>16 DEF IInv
-----------------------------------------------------------------------------
\* The main thread spawns a job.
LEMMA SpawnStep ==
  ASSUME IInv, Spawn
  PROVE  IInv'
<1> USE DEF request, sync
<1> DEFINE new == NewJob(next)
<1>0. /\ pc = "spawn" /\ jobs' = [jobs EXCEPT ![next] = new] /\ next' = next + 1
      /\ pc' = IF next + 1 < JobCount(numLines) THEN "spawn" ELSE "run"
      /\ UNCHANGED <<request, lineMap, distance, sync, filtered>>
  BY DEF Spawn
<1>1. /\ next \in Jobs /\ next \in Nat /\ numLines \in Nat
      /\ JobCount(numLines) \in Nat \ {0}
      /\ \A i \in Jobs : Spawned(i) <=> i < next
      /\ Jobs = 0 .. JobCount(numLines) - 1
      /\ jobs \in [Jobs -> JobTypes(numLines)]
  BY <1>0, Basics DEF IInv, PhaseInv, TypeOK, Jobs, JobsOf
<1>2. Jobs' = Jobs /\ Rows' = Rows
  BY <1>0 DEF Jobs, Rows
<1>3. /\ SliceStart(numLines, next) \in Nat /\ SliceStop(numLines, next) \in 0 .. numLines
  BY <1>1, Slices
<1>4. /\ new \in JobTypes(numLines)
      /\ new.st = IF next > 0 THEN "queued" ELSE "scan"
      /\ new.start = SliceStart(numLines, next) /\ new.stop = SliceStop(numLines, next)
      /\ new.cur = new.start /\ new.count = 0
  BY <1>1, <1>3 DEF NewJob, JobTypes
<1>5. jobs'[next] = new /\ \A k \in Jobs : k # next => jobs'[k] = jobs[k]
  BY <1>0, <1>1
<1>6. \A k \in Jobs : Spawned(k)' <=> Spawned(k) \/ k = next
  BY <1>4, <1>5 DEF Spawned
<1>7. TypeOK'
  <2>1. jobs' \in [Jobs -> JobTypes(numLines)]
    BY <1>0, <1>1, <1>4
  <2>2. next' \in 0 .. JobCount(numLines)
    BY <1>0, <1>1
  <2> QED BY <1>0, <1>2, <2>1, <2>2 DEF IInv, TypeOK
<1>8. PhaseInv'
  <2>1. \A k \in Jobs : Spawned(k)' <=> k < next'
    BY <1>0, <1>1, <1>6
  <2>2. pc' = "run" => \A k \in Jobs : Spawned(k)'
    BY <1>0, <1>1, <2>1
  <2>3. pc' = "spawn" => next' < JobCount(numLines)
    BY <1>0
  <2>4. jobs'[0].st \in {"none", "scan"}
    <3>1. jobs[0].st \in {"none", "scan"}
      <4>1. jobs[0].st \in {"none", "queued", "scan", "held", "signalled", "over"}
        BY <1>1, Basics DEF JobTypes
      <4> QED BY <1>0, <4>1 DEF IInv, PhaseInv
    <3> QED BY <1>1, <1>4, <1>5, <3>1, Basics
  <2> QED BY <1>0, <1>2, <2>1, <2>2, <2>3, <2>4 DEF IInv, PhaseInv, Quiescent
<1>9. JobInv'
  BY <1>0, <1>1, <1>2, <1>3, <1>4, <1>5, <1>6 DEF IInv, JobInv
<1>10. MutexInv' /\ CountInv'
  <2>1. jobs[next].st = "none"
    BY <1>1 DEF Spawned
  <2>2. Unfinished' = Unfinished
    BY <1>1, <1>2, <1>4, <1>5, <2>1 DEF Unfinished
  <2> QED BY <1>0, <1>2, <1>4, <1>5, <2>1, <2>2
    DEF IInv, MutexInv, CountInv, Quiescent
<1>11. SlicesKept'
  <2>1. ASSUME NEW k \in Jobs, k # next, Spawned(k)
        PROVE  Found(k)'
    BY <1>0, <1>5, <2>1 DEF IInv, SlicesKept, Spawned, Found, Slot
  <2>2. ASSUME NEW k \in Jobs, k = next
        PROVE  Found(k)'
    <3>0. jobs'[k] = new
      BY <1>5, <2>2
    <3>1. Slot(k)' = {}
      BY <1>3, <1>4, <3>0 DEF Slot
    <3>2. new.start .. new.cur - 1 = {}
      BY <1>3, <1>4
    <3> QED BY <1>0, <3>0, <3>1, <3>2 DEF Found
  <2> QED BY <1>2, <1>6, <2>1, <2>2 DEF SlicesKept, Spawned
<1>12. DistanceInv'
  <2>1. new.start .. new.cur - 1 = {}
    BY <1>3, <1>4
  <2> QED BY <1>0, <1>2, <1>5, <1>6, <2>1 DEF IInv, DistanceInv, Quiescent
<1>13. FrameIsOurs' /\ MovedInv' /\ ListIsRight'
  BY <1>0 DEF FrameIsOurs, MovedInv, ListIsRight
<1> QED BY <1>7, <1>8, <1>9, <1>10, <1>11, <1>12, <1>13 DEF IInv

\* A job leaves the critical section; the main thread goes on after job 0.
LEMMA UnlockStep ==
  ASSUME IInv, NEW i \in Jobs, Unlock(i)
  PROVE  IInv'
<1> USE DEF request, sync
<1> DEFINE new == jobs'[i]
<1>0. /\ jobs[i].st = "signalled" /\ mutex' = Free
      /\ jobs' = [jobs EXCEPT ![i].st = "over"]
      /\ IF i = 0 THEN pc' = (IF JobCount(numLines) > 1 THEN "lock" ELSE "compact") /\ next' = 0
                  ELSE UNCHANGED <<pc, next>>
      /\ UNCHANGED <<request, lineMap, distance, count, waiting, filtered>>
  BY DEF Unlock
<1>1. /\ pc \in {"spawn", "run", "lock", "check", "wait"}
      /\ i \in Nat /\ Spawned(i) /\ jobs[i] \in JobTypes(numLines)
      /\ DOMAIN jobs = Jobs /\ numLines \in Nat /\ filtered = 0
      /\ 0 \in Jobs /\ JobCount(numLines) \in Nat \ {0}
      /\ Jobs = 0 .. JobCount(numLines) - 1
  BY <1>0, ActiveJob, Basics DEF Jobs, JobsOf
<1>2. Jobs' = Jobs /\ Rows' = Rows
  BY <1>0 DEF Jobs, Rows
<1>3. /\ \A k \in Jobs : k # i => jobs'[k] = jobs[k]
      /\ new.start = jobs[i].start /\ new.stop = jobs[i].stop /\ new.st = "over"
      /\ new.cur = jobs[i].cur /\ new.count = jobs[i].count
      /\ new \in JobTypes(numLines)
  BY <1>0, <1>1 DEF JobTypes
<1>4. \A k \in Jobs : Spawned(k)' <=> Spawned(k)
  BY <1>0, <1>3 DEF Spawned
<1>5. mutex = i /\ \A k \in Jobs : k # i => jobs[k].st \notin {"held", "signalled"}
  BY <1>0 DEF IInv, MutexInv
<1>6. i = 0 => pc = "run"
  BY <1>0 DEF IInv, PhaseInv
<1>7. pc # "check" /\ pc' # "check"
  BY <1>0, <1>1, <1>5, <1>6 DEF IInv, MutexInv, Main
<1>8. TypeOK'
  <2>1. jobs' \in [Jobs -> JobTypes(numLines)]
    <3>1. jobs' = [jobs EXCEPT ![i] = new]
      BY <1>0, <1>1
    <3> QED BY <1>3, <3>1 DEF IInv, TypeOK
  <2>2. next' \in 0 .. JobCount(numLines)
    BY <1>0, <1>1 DEF IInv, TypeOK
  <2> QED BY <1>0, <1>2, <2>1, <2>2 DEF IInv, TypeOK
<1>9. PhaseInv'
  <2>1. CASE i = 0
    BY <1>0, <1>1, <1>2, <1>3, <1>4, <1>6, <2>1 DEF IInv, PhaseInv, Quiescent
  <2>2. CASE i # 0
    BY <1>0, <1>1, <1>2, <1>3, <1>4, <2>2 DEF IInv, PhaseInv, Quiescent
  <2> QED BY <2>1, <2>2
<1>10. JobInv'
  <2>1. jobs[i].stop <= jobs[i].cur
    BY <1>0, <1>1 DEF IInv, JobInv
  <2> QED BY <1>0, <1>2, <1>3, <1>4, <2>1 DEF IInv, JobInv
<1>11. MutexInv'
  <2>1. \A k \in Jobs : jobs'[k].st \notin {"held", "signalled"} /\ k # Free
    BY <1>1, <1>3, <1>5 DEF Free
  <2> QED BY <1>0, <1>2, <1>7, <2>1 DEF MutexInv, Free, Main
<1>12. CountInv'
  <2>1. Unfinished' = Unfinished
    BY <1>0, <1>2, <1>3 DEF Unfinished
  <2> QED BY <1>0, <1>1, <2>1 DEF IInv, CountInv, Quiescent
<1>13. SlicesKept'
  <2>1. ASSUME NEW k \in Jobs, Spawned(k)
        PROVE  Found(k)'
    <3>1. Found(k)
      BY <1>1, <2>1 DEF IInv, SlicesKept, Spawned
    <3>2. Slot(k)' = Slot(k) /\ jobs'[k].start = jobs[k].start /\ jobs'[k].cur = jobs[k].cur
      BY <1>3 DEF Slot
    <3> QED BY <1>0, <3>1, <3>2 DEF Found
  <2> QED BY <1>2, <1>4, <2>1 DEF SlicesKept, Spawned
<1>14. DistanceInv'
  <2>1. \A k \in Jobs : jobs'[k].start = jobs[k].start /\ jobs'[k].cur = jobs[k].cur
    BY <1>3
  <2> QED BY <1>0, <1>1, <1>2, <1>4, <2>1 DEF IInv, DistanceInv, Quiescent
<1>15. FrameIsOurs' /\ MovedInv' /\ ListIsRight'
  <2>1. CASE pc' # "compact"
    BY <1>0, <1>1, <2>1 DEF FrameIsOurs, MovedInv, ListIsRight
  <2>2. CASE pc' = "compact"
    <3>1. i = 0 /\ Jobs = {0} /\ next' = 0
      BY <1>0, <1>1, <2>2
    <3>2. FrameIsOurs'
      BY <1>2, <1>3, <3>1 DEF FrameIsOurs
    <3>3. MovedInv'
      BY <1>0, <1>1, <3>1, Slices DEF MovedInv
    <3> QED BY <2>2, <3>2, <3>3 DEF ListIsRight
  <2> QED BY <2>1, <2>2
<1> QED BY <1>8, <1>9, <1>10, <1>11, <1>12, <1>13, <1>14, <1>15 DEF IInv
-----------------------------------------------------------------------------
\* A new pass starts from clean records, whatever the arrays hold.
LEMMA BeginStep ==
  ASSUME IInv, NEW n \in 0 .. MaxLines, NEW rq \in Requests(n), Begin(n, rq)
  PROVE  IInv'
<1>1. n \in Nat /\ JobCount(n) \in Nat \ {0}
  BY JobCountType, ParallelFilterAssumption
<1>2. /\ numLines' = n /\ jobs' = [i \in JobsOf(n) |-> Unspawned]
      /\ pc' = "spawn" /\ next' = 0 /\ filtered' = 0
      /\ count' = JobCount(n) /\ mutex' = Free /\ waiting' = FALSE
  BY DEF Begin, Pending
<1>3. /\ Jobs' = JobsOf(n) /\ Rows' = 0 .. n - 1
      /\ 0 \in JobsOf(n) /\ JobsOf(n) \subseteq Nat
  BY <1>1, <1>2 DEF Jobs, Rows, JobsOf
<1>4. \A i \in JobsOf(n) : jobs'[i] = Unspawned /\ ~Spawned(i)'
  BY <1>2 DEF Spawned, Unspawned
<1>5. /\ match' \in SUBSET (0 .. n - 1) /\ dist' \in [0 .. n - 1 -> Distances]
      /\ sort' \in BOOLEAN
  BY DEF Begin, Requests
<1>6. Zeros(n) \in [0 .. n - 1 -> Distances] /\ Zeros(n) \in [0 .. n - 1 -> 0 .. n - 1]
  BY <1>1, ParallelFilterAssumption DEF Zeros
<1>7. /\ lineMap' \in [0 .. n - 1 -> 0 .. n - 1]
      /\ distance' \in [0 .. n - 1 -> Distances]
  BY <1>6 DEF Begin, IInv, TypeOK, Rows
<1>8. TypeOK'
  <2>1. jobs' \in [JobsOf(n) -> JobTypes(n)]
    <3>1. Unspawned \in JobTypes(n)
      BY <1>1 DEF Unspawned, JobTypes
    <3> QED BY <1>2, <3>1
  <2>2. next' \in 0 .. JobCount(n) /\ count' \in 0 .. JobCount(n) /\ filtered' \in 0 .. n
    BY <1>1, <1>2
  <2> QED BY <1>2, <1>3, <1>5, <1>7, <2>1, <2>2 DEF TypeOK
<1>9. PhaseInv'
  BY <1>1, <1>2, <1>3, <1>4 DEF PhaseInv, Quiescent, Unspawned, JobsOf
<1>10. JobInv' /\ SlicesKept' /\ DistanceInv'
  BY <1>3, <1>4 DEF JobInv, SlicesKept, DistanceInv, Spawned
<1>11. MutexInv'
  BY <1>2, <1>3, <1>4 DEF MutexInv, Unspawned, Free, Main
<1>12. CountInv'
  <2>1. Unfinished' = 0 .. JobCount(n) - 1
    BY <1>3, <1>4 DEF Unfinished, Unspawned, JobsOf
  <2> QED BY <1>1, <1>2, <2>1, FS_Interval DEF CountInv
<1>13. FrameIsOurs' /\ MovedInv' /\ ListIsRight'
  BY <1>2 DEF FrameIsOurs, MovedInv, ListIsRight
<1> QED BY <1>8, <1>9, <1>10, <1>11, <1>12, <1>13 DEF IInv

\* Without text the list is the rows of the mode.
LEMMA ShowAllStep ==
  ASSUME IInv, NEW n \in 0 .. MaxLines, ShowAll(n)
  PROVE  IInv'
<1>1. n \in Nat /\ JobCount(n) \in Nat \ {0}
  BY JobCountType, ParallelFilterAssumption
<1>2. /\ numLines' = n /\ jobs' = [i \in JobsOf(n) |-> Unspawned]
      /\ pc' = "idle" /\ next' = 0 /\ filtered' = n
      /\ count' = 0 /\ mutex' = Free /\ waiting' = FALSE
      /\ match' = 0 .. n - 1 /\ dist' = Zeros(n) /\ sort' = FALSE
      /\ lineMap' = [r \in 0 .. n - 1 |-> r]
  BY DEF ShowAll
<1>3. /\ Jobs' = JobsOf(n) /\ Rows' = 0 .. n - 1
      /\ 0 \in JobsOf(n) /\ JobsOf(n) \subseteq Nat
  BY <1>1, <1>2 DEF Jobs, Rows, JobsOf
<1>4. \A i \in JobsOf(n) : jobs'[i] = Unspawned /\ ~Spawned(i)'
  BY <1>2 DEF Spawned, Unspawned
<1>5. Zeros(n) \in [0 .. n - 1 -> Distances]
  BY <1>1, ParallelFilterAssumption DEF Zeros
<1>6. distance' \in [0 .. n - 1 -> Distances]
  BY <1>5 DEF ShowAll, IInv, TypeOK, Rows
<1>7. TypeOK'
  <2>1. jobs' \in [JobsOf(n) -> JobTypes(n)]
    <3>1. Unspawned \in JobTypes(n)
      BY <1>1 DEF Unspawned, JobTypes
    <3> QED BY <1>2, <3>1
  <2>2. next' \in 0 .. JobCount(n) /\ count' \in 0 .. JobCount(n) /\ filtered' \in 0 .. n
    BY <1>1, <1>2
  <2>3. lineMap' \in [0 .. n - 1 -> 0 .. n - 1]
    BY <1>2
  <2> QED BY <1>2, <1>3, <1>5, <1>6, <2>1, <2>2, <2>3 DEF TypeOK
<1>8. PhaseInv'
  BY <1>1, <1>2, <1>3, <1>4 DEF PhaseInv, Quiescent, Unspawned
<1>9. JobInv' /\ SlicesKept' /\ DistanceInv' /\ FrameIsOurs'
  BY <1>3, <1>4 DEF JobInv, SlicesKept, DistanceInv, FrameIsOurs, Spawned
<1>10. MutexInv'
  BY <1>2, <1>3, <1>4 DEF MutexInv, Unspawned, Free, Main
<1>11. CountInv' /\ MovedInv'
  BY <1>2 DEF CountInv, MovedInv, Quiescent
<1>12. ListIsRight'
  BY <1>1, <1>2 DEF ListIsRight, RowPrecedes
<1> QED BY <1>7, <1>8, <1>9, <1>10, <1>11, <1>12 DEF IInv
-----------------------------------------------------------------------------
\* The slice of the next job is moved up to the rows found before it.
LEMMA CompactStep ==
  ASSUME IInv, Compact
  PROVE  IInv'
<1> USE DEF request, sync
<1> DEFINE job == jobs[next]
           from == SliceStart(numLines, next)
           to == SliceStart(numLines, next + 1)
<1>0. /\ pc = "compact" /\ next < JobCount(numLines)
      /\ lineMap' = IF filtered # job.start
                    THEN Moved(lineMap, filtered, job.start, job.count) ELSE lineMap
      /\ filtered' = filtered + job.count /\ next' = next + 1
      /\ UNCHANGED <<request, pc, jobs, distance, sync>>
  BY DEF Compact
<1>1. /\ next \in Jobs /\ next \in Nat /\ next + 1 \in Nat /\ numLines \in Nat
      /\ JobCount(numLines) \in Nat \ {0}
      /\ next \in 0 .. JobCount(numLines)
  <2>1. next \in 0 .. JobCount(numLines)
    BY DEF IInv, TypeOK
  <2> QED BY <1>0, <2>1, Basics DEF Jobs, JobsOf
<1>2. Jobs' = Jobs /\ Rows' = Rows /\ Unfinished' = Unfinished
  BY <1>0 DEF Jobs, Rows, Unfinished
<1>3. \A k \in Jobs : Spawned(k) /\ jobs[k].st = "over"
  BY <1>0 DEF IInv, PhaseInv, FrameIsOurs, Spawned
<1>4. /\ filtered \in 0 .. numLines /\ lineMap \in [Rows -> Rows] /\ match \subseteq Rows
      /\ job \in JobTypes(numLines)
  BY <1>1 DEF IInv, TypeOK
<1>5. /\ job.start = from /\ job.stop = SliceStop(numLines, next)
      /\ job.start <= job.cur /\ job.stop <= job.cur
      /\ job.start < job.cur => job.cur <= job.stop
      /\ job.count <= job.cur - job.start
      /\ job.start \in Nat /\ job.stop \in 0 .. numLines /\ job.cur \in Nat
      /\ job.count \in 0 .. numLines
  BY <1>1, <1>3, <1>4 DEF IInv, JobInv, JobTypes
<1>6. /\ from \in Nat /\ to \in Nat /\ from <= to
      /\ job.stop = IF numLines < to THEN numLines ELSE to
  <2>1. from \in Nat /\ to \in Nat
    BY <1>1, Slices, Zenon
  <2>2. from <= to
    BY <1>1, Slices
  <2>3. SliceStop(numLines, next) = IF numLines < to THEN numLines ELSE to
    BY <1>1, Slices, Zenon
  <2> QED BY <1>5, <2>1, <2>2, <2>3
<1>7. /\ filtered <= from
      /\ {lineMap[k] : k \in 0 .. filtered - 1} = match \cap (0 .. from - 1)
      /\ \A a, b \in 0 .. filtered - 1 : a < b => lineMap[a] < lineMap[b]
      /\ sort => \A k \in 0 .. filtered - 1 : distance[lineMap[k]] = dist[lineMap[k]]
  BY <1>0 DEF IInv, MovedInv
<1>8. /\ {lineMap[k] : k \in Slot(next)} = match \cap (job.start .. job.cur - 1)
      /\ \A a, b \in Slot(next) : a < b => lineMap[a] < lineMap[b]
  <2>1. Found(next)
    BY <1>0, <1>1, <1>3 DEF IInv, SlicesKept, Spawned
  <2> QED BY <2>1 DEF Found
<1>9. /\ filtered' <= to /\ filtered' \in 0 .. numLines /\ filtered' \in Nat
      /\ filtered' = filtered + job.count /\ filtered \in Nat /\ filtered <= filtered'
  <2> HIDE DEF job, from, to
  <2>1. filtered' = filtered + job.count
    BY <1>0
  <2>2. /\ filtered \in Nat /\ numLines \in Nat /\ filtered <= numLines /\ filtered <= job.start
        /\ job.count \in Nat /\ to \in Nat /\ job.start <= to /\ job.start \in Nat
    BY <1>1, <1>4, <1>5, <1>6, <1>7
  <2>3. CASE job.start < job.cur
    <3>1. /\ job.count <= job.cur - job.start /\ job.cur <= job.stop
          /\ job.stop <= to /\ job.stop <= numLines
      BY <1>5, <1>6, <1>1, <2>3
    <3> QED BY <1>5, <2>1, <2>2, <3>1
  <2>4. CASE job.start = job.cur
    <3>1. job.count = 0
      BY <1>5, <2>4
    <3> QED BY <2>1, <2>2, <3>1
  <2> QED BY <1>5, <2>3, <2>4
<1>10. match \cap (job.start .. job.cur - 1) = match \cap (from .. to - 1)
  <2>1. \A r \in Rows : r \in job.start .. job.cur - 1 <=> r \in from .. to - 1
    BY <1>1, <1>5, <1>6 DEF Rows
  <2> QED BY <1>4, <2>1
<1>11. Slot(next) \subseteq Rows
  BY <1>1, <1>3, SlotInRows
<1>12. /\ \A k \in filtered .. filtered' - 1 :
            /\ job.start + (k - filtered) \in Slot(next)
            /\ k \in Rows
            /\ lineMap'[k] = lineMap[job.start + (k - filtered)]
       /\ \A k \in Rows : k \notin filtered .. filtered' - 1 => lineMap'[k] = lineMap[k]
       /\ DOMAIN lineMap' = Rows
  <2>1. \A k \in filtered .. filtered' - 1 :
          /\ job.start + (k - filtered) \in Slot(next)
          /\ k \in Rows
    <3>1. \A k \in filtered .. filtered' - 1 :
            job.start + (k - filtered) \in job.start .. job.start + job.count - 1
      <4> HIDE DEF job
      <4> QED BY <1>5, <1>9
    <3>2. \A k \in filtered .. filtered' - 1 : k \in 0 .. numLines - 1
      BY <1>1, <1>9
    <3> QED BY <3>1, <3>2 DEF Slot, Rows
  <2>2. CASE filtered = job.start
    <3>1. lineMap' = lineMap
      BY <1>0, <2>2
    <3>2. \A k \in filtered .. filtered' - 1 : job.start + (k - filtered) = k
      BY <1>0, <1>4, <1>5, <2>2
    <3> QED BY <1>4, <2>1, <3>1, <3>2
  <2>3. CASE filtered # job.start
    <3>1. lineMap' = [k \in Rows |-> IF k \in filtered .. filtered' - 1
                                     THEN lineMap[job.start + (k - filtered)]
                                     ELSE lineMap[k]]
      <4> HIDE DEF job
      <4>1. lineMap' = Moved(lineMap, filtered, job.start, job.count)
        BY <1>0, <2>3
      <4>2. filtered + job.count - 1 = filtered' - 1
        BY <1>5, <1>9
      <4>3. DOMAIN lineMap = Rows
        BY <1>4
      <4> QED BY <4>1, <4>2, <4>3 DEF Moved
    <3> QED BY <2>1, <3>1
  <2> QED BY <2>2, <2>3
<1>13. lineMap' \in [Rows -> Rows]
  <2>1. \A k \in Rows : lineMap'[k] \in Rows
    BY <1>4, <1>11, <1>12
  <2>2. lineMap' = [k \in Rows |-> lineMap'[k]]
    <3>1. \E g : lineMap' = [k \in Rows |-> g[k]]
      <4>1. CASE filtered = job.start
        BY <1>0, <1>4, <4>1
      <4>2. CASE filtered # job.start
        <5>1. DOMAIN lineMap = Rows
          BY <1>4
        <5>2. lineMap' = Moved(lineMap, filtered, job.start, job.count)
          BY <1>0, <4>2
        <5> QED BY <5>1, <5>2 DEF Moved
      <4> QED BY <4>1, <4>2
    <3> QED BY <3>1
  <2> QED BY <2>1, <2>2
<1>14. \A k \in 0 .. filtered - 1 : k \in Rows /\ lineMap'[k] = lineMap[k]
  BY <1>1, <1>4, <1>12 DEF Rows
<1>15. \A x \in Slot(next) : \E k \in filtered .. filtered' - 1 :
          x = job.start + (k - filtered)
  <2> SUFFICES ASSUME NEW x \in Slot(next)
               PROVE  \E k \in filtered .. filtered' - 1 : x = job.start + (k - filtered)
    OBVIOUS
  <2>1. x \in Int /\ job.start <= x /\ x < job.start + job.count
    BY <1>5 DEF Slot
  <2>2. /\ filtered + (x - job.start) \in filtered .. filtered' - 1
        /\ x = job.start + ((filtered + (x - job.start)) - filtered)
    BY <1>0, <1>4, <1>5, <2>1
  <2> QED BY <2>2
<1>16. {lineMap'[k] : k \in 0 .. filtered' - 1} = match \cap (0 .. to - 1)
  <2>1. {lineMap'[k] : k \in 0 .. filtered - 1} = match \cap (0 .. from - 1)
    BY <1>7, <1>14
  <2>2. {lineMap'[k] : k \in filtered .. filtered' - 1} = match \cap (from .. to - 1)
    BY <1>8, <1>10, <1>12, <1>15
  <2>3. 0 .. filtered' - 1 = (0 .. filtered - 1) \cup (filtered .. filtered' - 1)
    BY <1>0, <1>4, <1>5
  <2>4. match \cap (0 .. to - 1)
          = (match \cap (0 .. from - 1)) \cup (match \cap (from .. to - 1))
    BY <1>6
  <2>5. {lineMap'[k] : k \in 0 .. filtered' - 1}
          = {lineMap'[k] : k \in 0 .. filtered - 1}
              \cup {lineMap'[k] : k \in filtered .. filtered' - 1}
    BY <2>3
  <2> QED BY <2>1, <2>2, <2>4, <2>5
<1>17. \A a, b \in 0 .. filtered' - 1 : a < b => lineMap'[a] < lineMap'[b]
  <2> SUFFICES ASSUME NEW a \in 0 .. filtered' - 1, NEW b \in 0 .. filtered' - 1, a < b
               PROVE  lineMap'[a] < lineMap'[b]
    OBVIOUS
  <2>1. CASE b < filtered
    BY <1>4, <1>7, <1>9, <1>14, <2>1
  <2>2. CASE a < filtered /\ filtered <= b
    <3>1. a \in 0 .. filtered - 1 /\ b \in filtered .. filtered' - 1
      BY <1>4, <1>9, <2>2
    <3>2. lineMap'[a] \in 0 .. from - 1
      BY <1>7, <1>14, <3>1
    <3>3. lineMap'[b] \in from .. to - 1
      BY <1>8, <1>10, <1>12, <3>1
    <3> QED BY <1>6, <3>2, <3>3
  <2>3. CASE filtered <= a
    <3>1. a \in filtered .. filtered' - 1 /\ b \in filtered .. filtered' - 1
      BY <1>4, <1>9, <2>3
    <3>2. job.start + (a - filtered) < job.start + (b - filtered)
      BY <1>4, <1>5, <3>1
    <3> QED BY <1>8, <1>12, <3>1, <3>2
  <2> QED BY <1>4, <1>9, <2>1, <2>2, <2>3
<1>18. sort => \A k \in 0 .. filtered' - 1 : distance[lineMap'[k]] = dist[lineMap'[k]]
  <2> SUFFICES ASSUME sort, NEW k \in 0 .. filtered' - 1
               PROVE  distance[lineMap'[k]] = dist[lineMap'[k]]
    OBVIOUS
  <2>1. CASE k < filtered
    BY <1>4, <1>7, <1>9, <1>14, <2>1
  <2>2. CASE filtered <= k
    <3>1. k \in filtered .. filtered' - 1
      BY <1>4, <1>9, <2>2
    <3>2. lineMap'[k] \in match \cap (job.start .. job.cur - 1)
      BY <1>8, <1>12, <3>1
    <3> QED BY <1>0, <1>1, <1>3, <3>2 DEF IInv, DistanceInv, Quiescent
  <2> QED BY <1>4, <1>9, <2>1, <2>2
<1>19. MovedInv'
  BY <1>0, <1>9, <1>16, <1>17, <1>18 DEF MovedInv
<1>20. TypeOK'
  <2>1. next' \in 0 .. JobCount(numLines)
    BY <1>0, <1>1
  <2> QED BY <1>0, <1>2, <1>9, <1>13, <2>1 DEF IInv, TypeOK
<1>21. PhaseInv' /\ JobInv' /\ MutexInv'
  BY <1>0, <1>2, <1>3, Basics
  DEF IInv, PhaseInv, JobInv, MutexInv, Quiescent, Spawned
<1>22. CountInv' /\ DistanceInv' /\ FrameIsOurs' /\ ListIsRight'
  BY <1>0, <1>2
  DEF IInv, CountInv, DistanceInv, FrameIsOurs, ListIsRight, Quiescent, Spawned
<1>23. SlicesKept'
  <2>1. ASSUME NEW k \in Jobs, k >= next + 1
        PROVE  Found(k)'
    <3>1. Found(k)
      BY <1>0, <1>1, <1>3, <2>1, Basics DEF IInv, SlicesKept, Spawned
    <3>2. k \in Nat /\ jobs[k].start = SliceStart(numLines, k)
      BY <1>3, Basics DEF IInv, JobInv
    <3>3. SliceStart(numLines, next + 1) <= SliceStart(numLines, k)
      BY <1>1, <2>1, <3>2, Slices
    <3>4. jobs[k] \in JobTypes(numLines)
      BY DEF IInv, TypeOK
    <3>5. Slot(k) \subseteq Rows
      BY <1>3, SlotInRows
    <3>6. \A x \in Slot(k) : x \notin filtered .. filtered' - 1
      BY <1>6, <1>9, <3>2, <3>3, <3>4 DEF Slot, JobTypes
    <3>7. \A x \in Slot(k) : lineMap'[x] = lineMap[x]
      BY <1>12, <3>5, <3>6
    <3>8. Slot(k)' = Slot(k)
      BY <1>0 DEF Slot
    <3> QED BY <1>0, <3>1, <3>7, <3>8 DEF Found
  <2> QED BY <1>0, <1>2, <2>1 DEF SlicesKept
<1> QED BY <1>19, <1>20, <1>21, <1>22, <1>23 DEF IInv
-----------------------------------------------------------------------------
\* An order of 0 .. n - 1 under which no two positions agree meets every
\* position: a sort loses no row.
LEMMA OrderOnto ==
  ASSUME NEW n \in Nat, NEW order \in [0 .. n - 1 -> 0 .. n - 1],
         \A a, b \in 0 .. n - 1 : a # b => order[a] # order[b]
  PROVE  \A x \in 0 .. n - 1 : \E a \in 0 .. n - 1 : order[a] = x
<1> DEFINE S == 0 .. n - 1
<1>1. IsFiniteSet(S) /\ Cardinality(S) \in Nat
  BY FS_Interval, FS_CardinalityType
<1>2. order \in Injection(S, S)
  BY DEF Injection, IsInjective
<1>3. order \in Surjection(S, S)
  BY <1>1, <1>2, FS_Injection
<1> QED BY <1>3 DEF Surjection

\* The list is sorted if asked and handed to the user interface.
LEMMA CompleteStep ==
  ASSUME IInv, Complete
  PROVE  IInv'
<1> USE DEF request, sync
<1>0. /\ pc = "compact" /\ next = JobCount(numLines) /\ pc' = "idle"
      /\ UNCHANGED <<request, next, jobs, distance, sync, filtered>>
  BY DEF Complete
<1>1. Jobs' = Jobs /\ Rows' = Rows
  BY <1>0 DEF Jobs, Rows
<1>2. /\ numLines \in Nat /\ filtered \in Nat /\ filtered <= numLines
      /\ lineMap \in [Rows -> Rows] /\ match \subseteq Rows
      /\ distance \in [Rows -> Distances] /\ dist \in [Rows -> Distances]
      /\ Distances \subseteq Int
  BY ParallelFilterAssumption DEF IInv, TypeOK
<1>3. {lineMap[k] : k \in 0 .. filtered - 1} = match
  <2>1. {lineMap[k] : k \in 0 .. filtered - 1}
          = match \cap (0 .. SliceStart(numLines, JobCount(numLines)) - 1)
    BY <1>0 DEF IInv, MovedInv
  <2>2. numLines < SliceStart(numLines, JobCount(numLines))
        /\ SliceStart(numLines, JobCount(numLines)) \in Nat
    BY <1>2, Basics, Slices
  <2>3. \A r \in Rows : r \in 0 .. SliceStart(numLines, JobCount(numLines)) - 1
    BY <1>2, <2>2 DEF Rows
  <2> QED BY <1>2, <2>1, <2>3
<1>4. /\ \A a, b \in 0 .. filtered - 1 : a < b => lineMap[a] < lineMap[b]
      /\ sort => \A k \in 0 .. filtered - 1 : distance[lineMap[k]] = dist[lineMap[k]]
  BY <1>0 DEF IInv, MovedInv
<1>5. \A k \in 0 .. filtered - 1 : k \in Rows /\ lineMap[k] \in Rows
  BY <1>2 DEF Rows
<1>6. /\ lineMap' \in [Rows -> Rows]
      /\ {lineMap'[k] : k \in 0 .. filtered - 1} = match
      /\ \A a, b \in 0 .. filtered - 1 : a < b => RowPrecedes(lineMap'[a], lineMap'[b])
  <2>1. CASE ~sort
    <3>1. lineMap' = lineMap
      BY <2>1 DEF Complete
    <3> QED BY <1>2, <1>3, <1>4, <2>1, <3>1 DEF RowPrecedes
  <2>2. CASE sort
    <3>1. PICK order \in [0 .. filtered - 1 -> 0 .. filtered - 1] :
            /\ SortedBy(lineMap, filtered, order)
            /\ lineMap' = [k \in Rows |-> IF k < filtered THEN lineMap[order[k]]
                                           ELSE lineMap[k]]
      BY <2>2 DEF Complete
    <3>2. \A a, b \in 0 .. filtered - 1 :
            a < b => \/ distance[lineMap[order[a]]] < distance[lineMap[order[b]]]
                     \/ /\ distance[lineMap[order[a]]] = distance[lineMap[order[b]]]
                        /\ order[a] < order[b]
      BY <3>1 DEF SortedBy
    <3>3. \A k \in 0 .. filtered - 1 : lineMap'[k] = lineMap[order[k]]
      BY <1>2, <1>5, <3>1
    <3>4. \A k \in 0 .. filtered - 1 :
            /\ order[k] \in 0 .. filtered - 1 /\ lineMap[order[k]] \in Rows
            /\ distance[lineMap[order[k]]] \in Int
            /\ distance[lineMap[order[k]]] = dist[lineMap[order[k]]]
      BY <1>2, <1>4, <1>5, <2>2, <3>1
    <3>5. \A a, b \in 0 .. filtered - 1 : a # b => order[a] # order[b]
      <4> SUFFICES ASSUME NEW a \in 0 .. filtered - 1, NEW b \in 0 .. filtered - 1, a < b
                   PROVE  order[a] # order[b]
        BY <1>2
      <4> QED BY <3>2, <3>4
    <3>6. \A x \in 0 .. filtered - 1 : \E a \in 0 .. filtered - 1 : order[a] = x
      BY <1>2, <3>1, <3>5, OrderOnto
    <3>7. {lineMap'[k] : k \in 0 .. filtered - 1} = match
      <4>1. \A k \in 0 .. filtered - 1 : lineMap'[k] \in match
        BY <1>3, <3>3, <3>4
      <4>2. ASSUME NEW r \in match
            PROVE  \E k \in 0 .. filtered - 1 : lineMap'[k] = r
        <5>1. PICK x \in 0 .. filtered - 1 : lineMap[x] = r
          BY <1>3
        <5>2. PICK a \in 0 .. filtered - 1 : order[a] = x
          BY <3>6
        <5> QED BY <3>3, <5>1, <5>2
      <4> QED BY <4>1, <4>2
    <3>8. ASSUME NEW a \in 0 .. filtered - 1, NEW b \in 0 .. filtered - 1, a < b
          PROVE  RowPrecedes(lineMap'[a], lineMap'[b])
      <4>1. order[a] < order[b] => lineMap[order[a]] < lineMap[order[b]]
        BY <1>4, <3>4
      <4>2. \/ distance[lineMap[order[a]]] < distance[lineMap[order[b]]]
            \/ /\ distance[lineMap[order[a]]] = distance[lineMap[order[b]]]
               /\ order[a] < order[b]
        BY <3>2, <3>8
      <4>3. \/ dist[lineMap'[a]] < dist[lineMap'[b]]
            \/ /\ dist[lineMap'[a]] = dist[lineMap'[b]]
               /\ lineMap'[a] < lineMap'[b]
        <5>1. lineMap'[a] = lineMap[order[a]] /\ lineMap'[b] = lineMap[order[b]]
          BY <3>3
        <5>2. /\ distance[lineMap[order[a]]] = dist[lineMap[order[a]]]
              /\ distance[lineMap[order[b]]] = dist[lineMap[order[b]]]
          BY <3>4
        <5> QED BY <4>1, <4>2, <5>1, <5>2
      <4> QED BY <2>2, <4>3 DEF RowPrecedes
    <3>9. lineMap' \in [Rows -> Rows]
      <4>1. \A k \in Rows : k < filtered => k \in 0 .. filtered - 1
        BY <1>2 DEF Rows
      <4> QED BY <1>2, <3>1, <3>4, <4>1
    <3> QED BY <3>7, <3>8, <3>9
  <2> QED BY <2>1, <2>2
<1>7. TypeOK'
  BY <1>0, <1>1, <1>6 DEF IInv, TypeOK
<1>8. ListIsRight'
  BY <1>0, <1>6 DEF ListIsRight, RowPrecedes
<1>9. PhaseInv' /\ JobInv' /\ MutexInv'
  BY <1>0, <1>1 DEF IInv, PhaseInv, JobInv, MutexInv, Quiescent, Spawned
<1>10. CountInv' /\ DistanceInv' /\ FrameIsOurs' /\ SlicesKept' /\ MovedInv'
  BY <1>0, <1>1
  DEF IInv, CountInv, DistanceInv, FrameIsOurs, SlicesKept, MovedInv, Quiescent, Spawned
<1> QED BY <1>7, <1>8, <1>9, <1>10 DEF IInv
-----------------------------------------------------------------------------
\* Every step of the system, and a step that changes nothing, keeps IInv.
LEMMA NextIInv ==
  ASSUME IInv, [Next]_vars
  PROVE  IInv'
<1>1. ASSUME NEW n \in 0 .. MaxLines, NEW rq \in Requests(n), Begin(n, rq)
      PROVE  IInv'
  BY <1>1, BeginStep
<1>2. ASSUME NEW n \in 0 .. MaxLines, ShowAll(n)
      PROVE  IInv'
  BY <1>2, ShowAllStep
<1>3. ASSUME NEW i \in Jobs, JobStep(i)
      PROVE  IInv'
  <2>1. CASE Take(i) \/ Skip(i) \/ Lock(i) \/ CountDown(i)
    BY <2>1, QuietJobSteps
  <2>2. CASE Match(i)
    BY <2>2, MatchStep
  <2>3. CASE Unlock(i)
    BY <2>3, UnlockStep
  <2> QED BY <1>3, <2>1, <2>2, <2>3 DEF JobStep
<1>4. CASE Spawn
  BY <1>4, SpawnStep
<1>5. CASE MainLock \/ MainWait \/ MainWake \/ MainPass \/ SpuriousWakeup
  BY <1>5, WaitSteps
<1>6. CASE Compact
  BY <1>6, CompactStep
<1>7. CASE Complete
  BY <1>7, CompleteStep
<1>8. CASE UNCHANGED vars
  <2>1. UNCHANGED <<numLines, match, dist, sort, pc, next, jobs, lineMap, distance,
                    count, mutex, waiting, filtered>>
    BY <1>8 DEF vars, request, sync
  <2>2. Jobs' = Jobs /\ Rows' = Rows
    BY <2>1 DEF Jobs, Rows
  <2>3. TypeOK' /\ PhaseInv' /\ JobInv' /\ MutexInv'
    BY <2>1, <2>2
    DEF IInv, TypeOK, PhaseInv, JobInv, MutexInv, Quiescent, Spawned
  <2>4. CountInv' /\ FrameIsOurs' /\ DistanceInv' /\ MovedInv'
    BY <2>1, <2>2
    DEF IInv, CountInv, Unfinished, FrameIsOurs, DistanceInv, MovedInv, Quiescent, Spawned
  <2>5. SlicesKept' /\ ListIsRight'
    BY <2>1, <2>2 DEF IInv, SlicesKept, Found, Slot, ListIsRight, RowPrecedes
  <2> QED BY <2>3, <2>4, <2>5 DEF IInv
<1> QED BY <1>1, <1>2, <1>3, <1>4, <1>5, <1>6, <1>7, <1>8 DEF Next, MainStep

\* The inductive invariant holds in every reachable state.
THEOREM Invariance == Spec => []IInv
BY InitIInv, NextIInv, PTL DEF Spec

\* Whatever the number of rows, threads and jobs, the variables keep their
\* types: the jobs write inside line_map and distance, and the counter of
\* unfinished jobs stays between zero and the number of jobs.
THEOREM TypeCorrect == Spec => []TypeOK
<1>1. IInv => TypeOK
  BY DEF IInv
<1> QED BY <1>1, Invariance, PTL

\* No job uses the stack frame of rofi_view_refilter_real after the main
\* thread has passed the wait.
THEOREM FrameSafe == Spec => []FrameIsOurs
<1>1. IInv => FrameIsOurs
  BY DEF IInv
<1> QED BY <1>1, Invariance, PTL

\* What a job found stays in line_map, in order, until it is moved.
THEOREM SlicesSafe == Spec => []SlicesKept
<1>1. IInv => SlicesKept
  BY DEF IInv
<1> QED BY <1>1, Invariance, PTL

\* A finished pass shows the matching rows, each once, in the right order.
THEOREM ListCorrect == Spec => []ListIsRight
<1>1. IInv => ListIsRight
  BY DEF IInv
<1> QED BY <1>1, Invariance, PTL
-----------------------------------------------------------------------------
\* A step that neither starts nor ends a pass is invisible in Filter.
LEMMA HiddenSteps ==
  ASSUME IInv,
         MainLock \/ MainWait \/ MainWake \/ MainPass \/ SpuriousWakeup
           \/ Spawn \/ Compact \/ \E i \in Jobs : JobStep(i)
  PROVE  UNCHANGED Abstract!vars
<1>1. UNCHANGED <<numLines, match, dist, sort>>
  BY DEF request, MainLock, MainWait, MainWake, MainPass, SpuriousWakeup, Spawn,
         Compact, JobStep, Take, Match, Skip, Lock, CountDown, Unlock
<1>2. ~Quiescent /\ ~Quiescent'
  <2>1. CASE \E i \in Jobs : JobStep(i)
    <3>1. PICK i \in Jobs : JobStep(i)
      BY <2>1
    <3>2. jobs[i].st \in {"queued", "scan", "held", "signalled"}
      BY <3>1 DEF JobStep, Take, Match, Skip, Scanning, Lock, CountDown, Unlock
    <3>3. pc \in {"spawn", "run", "lock", "check", "wait"}
      BY <3>2 DEF IInv, TypeOK, PhaseInv, FrameIsOurs, Spawned
    <3>4. pc' = pc \/ pc' \in {"lock", "compact"}
      BY <3>1 DEF JobStep, Take, Match, Skip, Lock, CountDown, Unlock
    <3> QED BY <3>3, <3>4 DEF Quiescent
  <2>2. CASE MainLock \/ MainWait \/ MainWake \/ MainPass \/ SpuriousWakeup
               \/ Spawn \/ Compact
    BY <2>2 DEF Quiescent, MainLock, MainWait, MainWake, MainPass, SpuriousWakeup,
                Spawn, Compact
  <2> QED BY <2>1, <2>2
<1> QED BY <1>1, <1>2 DEF Abstract!vars

\* Every step of the parallel filter is a step of Filter or stutters there.
LEMMA NextSimulates ==
  ASSUME IInv, IInv', [Next]_vars
  PROVE  [Abstract!Next]_(Abstract!vars)
<1>1. ASSUME NEW n \in 0 .. MaxLines, NEW rq \in Requests(n), Begin(n, rq)
      PROVE  Abstract!Next
  <2>1. Quiescent /\ ~Quiescent'
    BY <1>1 DEF Begin, Quiescent
  <2>2. rq \in Abstract!Requests(n)
    BY DEF Requests, Abstract!Requests, Abstract!RowsOf
  <2>3. /\ numLines' = n /\ match' = rq.match /\ dist' = rq.dist /\ sort' = rq.sort
    BY <1>1 DEF Begin
  <2>4. Abstract!Start(n, rq)
    BY <2>1, <2>2, <2>3 DEF Abstract!Start, Abstract!Nothing
  <2>5. rq \in Abstract!Requests(n) /\ n \in 0 .. MaxLines
    BY <2>2
  <2> QED BY <2>4, <2>5 DEF Abstract!Next
<1>2. ASSUME NEW n \in 0 .. MaxLines, ShowAll(n)
      PROVE  Abstract!Next
  <2>1. Quiescent /\ Quiescent'
    BY <1>2 DEF ShowAll, Quiescent
  <2>2. /\ numLines' = n /\ match' = 0 .. n - 1 /\ dist' = Zeros(n) /\ sort' = FALSE
        /\ lineMap' = [r \in 0 .. n - 1 |-> r] /\ filtered' = n
    BY <1>2 DEF ShowAll
  <2>3. [k \in 0 .. filtered' - 1 |-> lineMap'[k]] = [k \in 0 .. n - 1 |-> k]
    BY <2>2
  <2>4. Abstract!ShowAll(n)
    BY <2>1, <2>2, <2>3 DEF Abstract!ShowAll, Abstract!RowsOf, Zeros
  <2> QED BY <2>4 DEF Abstract!Next
<1>3. ASSUME Complete
      PROVE  Abstract!Next
  <2>1. /\ ~Quiescent /\ Quiescent' /\ pc' = "idle" /\ filtered' = filtered
        /\ UNCHANGED <<numLines, match, dist, sort>>
    BY <1>3 DEF Complete, Quiescent, request
  <2>2. /\ filtered \in 0 .. numLines /\ filtered \in Nat /\ numLines \in Nat
        /\ lineMap' \in [0 .. numLines - 1 -> 0 .. numLines - 1]
    <3>1. numLines \in 0 .. MaxLines /\ filtered \in 0 .. numLines
      BY DEF IInv, TypeOK
    <3>2. lineMap' \in [Rows' -> Rows'] /\ Rows' = 0 .. numLines - 1
      BY <2>1 DEF IInv, TypeOK, Rows
    <3> QED BY <3>1, <3>2, ParallelFilterAssumption
  <2>3. /\ {lineMap'[k] : k \in 0 .. filtered' - 1} = match'
        /\ \A a, b \in 0 .. filtered' - 1 :
             a < b => Abstract!Precedes(lineMap'[a], lineMap'[b], dist', sort')
    BY <2>1 DEF IInv, ListIsRight, RowPrecedes, Abstract!Precedes
  <2> DEFINE list == [k \in 0 .. filtered' - 1 |-> lineMap'[k]]
  <2>4. \A k \in 0 .. filtered' - 1 : list[k] = lineMap'[k]
    OBVIOUS
  <2>5. list \in [0 .. filtered - 1 -> 0 .. numLines - 1]
    <3>1. \A k \in 0 .. filtered - 1 : k \in 0 .. numLines - 1
      BY <2>2
    <3>2. \A k \in 0 .. filtered - 1 : lineMap'[k] \in 0 .. numLines - 1
      BY <2>2, <3>1
    <3> QED BY <2>1, <3>2
  <2>6. Abstract!IsListing(list, filtered', match', dist', sort')
    BY <2>3, <2>4 DEF Abstract!IsListing
  <2>7. Abstract!Finish
    BY <2>1, <2>2, <2>5, <2>6 DEF Abstract!Finish, Abstract!RowsOf
  <2> QED BY <2>7 DEF Abstract!Next
<1>4. CASE UNCHANGED vars
  BY <1>4 DEF vars, request, Abstract!vars, Quiescent
<1>5. CASE MainLock \/ MainWait \/ MainWake \/ MainPass \/ SpuriousWakeup
             \/ Spawn \/ Compact \/ \E i \in Jobs : JobStep(i)
  BY <1>5, HiddenSteps
<1> QED BY <1>1, <1>2, <1>3, <1>4, <1>5 DEF Next, MainStep

\* The parallel filter implements the safety part of Filter: each of its
\* steps starts a pass, ends it with the list that was asked for, shows all
\* rows, or is not seen from outside.
THEOREM Implements == Spec => Abstract!Init /\ [][Abstract!Next]_(Abstract!vars)
<1>1. Init => Abstract!Init
  <2> SUFFICES ASSUME Init PROVE Abstract!Init
    OBVIOUS
  <2>1. Quiescent /\ filtered = 0
    BY DEF Init, Quiescent
  <2>2. [k \in 0 .. filtered - 1 |-> lineMap[k]] = [k \in {} |-> 0]
    BY <2>1
  <2> QED BY <2>1, <2>2 DEF Init, Abstract!Init, Abstract!Nothing, Abstract!RowsOf, Zeros
<1> QED BY <1>1, Invariance, NextSimulates, PTL DEF Spec
=============================================================================
