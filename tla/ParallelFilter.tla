--------------------------- MODULE ParallelFilter ---------------------------
(***************************************************************************)
(* The parallel filter of a view (source/view.c).  The main thread cuts    *)
(* the rows of the mode into jobs, pushes all but the first to the thread  *)
(* pool, runs the first one itself, and waits until a counter under a      *)
(* mutex says that all jobs are over.  Each job writes the rows that match *)
(* at the front of its own slice of line_map; the main thread then moves   *)
(* the slices together and sorts the result if asked.  The jobs, the       *)
(* counter, the mutex and the condition live on the stack of the main      *)
(* thread: no job may touch them once it has passed the wait.              *)
(***************************************************************************)
EXTENDS Integers, FiniteSets

CONSTANTS
  MaxLines,        \* bound on the number of rows of a mode
  Threads,         \* config.threads: threads of the pool
  RowsPerJob,      \* rows that are worth a job (500)
  JobsPerThread,   \* cap on the jobs per pool thread (4)
  Distances        \* what the scorers may return

ASSUME ParallelFilterAssumption ==
  /\ MaxLines \in Nat
  /\ Threads \in Nat \ {0}
  /\ RowsPerJob \in Nat \ {0}
  /\ JobsPerThread \in Nat \ {0}
  /\ Distances \subseteq Int
  /\ 0 \in Distances

VARIABLES
  numLines,   \* state->num_lines
  match,      \* rows for which mode_token_match answers TRUE
  dist,       \* what the scorer answers for each row
  sort,       \* config.sort
  pc,         \* where the main thread is
  next,       \* loop variable i of the main thread
  jobs,       \* states[]: the jobs of the current pass
  lineMap,    \* state->line_map
  distance,   \* state->distance
  count,      \* jobs that are not over, protected by mutex
  mutex,      \* holder of the mutex
  waiting,    \* the main thread sleeps in g_cond_wait
  filtered    \* j, then state->filtered_lines

request == <<numLines, match, dist, sort>>
sync == <<count, mutex, waiting>>
vars == <<request, pc, next, jobs, lineMap, distance, sync, filtered>>

\* Holders of the mutex other than the jobs.
Free == -1
Main == -2

Rows == 0 .. numLines - 1
Zeros(n) == [r \in 0 .. n - 1 |-> 0]

Lesser(a, b) == IF a < b THEN a ELSE b
Greater(a, b) == IF a > b THEN a ELSE b

\* nt: how many jobs n rows are cut into.
JobCount(n) == Lesser(Greater(1, n \div RowsPerJob), Threads * JobsPerThread)
JobsOf(n) == 0 .. JobCount(n) - 1
Jobs == JobsOf(numLines)

\* steps: rows of a slice.
Steps(n) == (n + JobCount(n)) \div JobCount(n)

\* Job i examines the rows from SliceStart(n, i) up to SliceStop(n, i) - 1:
\* none when the slices before it already cover all n rows.
SliceStart(n, i) == i * Steps(n)

SliceStop(n, i) == Lesser(n, SliceStart(n, i + 1))

NewJob(i) ==
  [st |-> IF i > 0 THEN "queued" ELSE "scan",
   start |-> SliceStart(numLines, i), stop |-> SliceStop(numLines, i),
   cur |-> SliceStart(numLines, i), count |-> 0]

\* The part of the stack frame that states[i] will use.
Unspawned == [st |-> "none", start |-> 0, stop |-> 0, cur |-> 0, count |-> 0]

\* Mutant: only the jobs that are pushed to the pool are counted.
PendingPushed(n) == JobCount(n) - 1

\* What the counter of unfinished jobs starts from.
Pending(n) == JobCount(n)

-----------------------------------------------------------------------------
\* What a pass is asked: the rows that match, their distances, sorting.
Requests(n) ==
  [match : SUBSET (0 .. n - 1), dist : [0 .. n - 1 -> Distances], sort : BOOLEAN]

Quiescent == pc \in {"start", "idle"}

Init ==
  /\ numLines \in 0 .. MaxLines
  /\ match = {} /\ dist = Zeros(numLines) /\ sort = FALSE
  /\ pc = "start" /\ next = 0
  /\ jobs = [i \in Jobs |-> Unspawned]
  /\ lineMap = Zeros(numLines) /\ distance = Zeros(numLines)
  /\ count = 0 /\ mutex = Free /\ waiting = FALSE
  /\ filtered = 0

\* rofi_view_refilter_real with text to match, up to the jobs.  Reloading
\* the rows gives fresh arrays; without it they keep what the previous pass
\* left in them.
Begin(n, rq) ==
  /\ Quiescent
  /\ \/ lineMap' = Zeros(n) /\ distance' = Zeros(n)
     \/ n = numLines /\ UNCHANGED <<lineMap, distance>>
  /\ numLines' = n
  /\ match' = rq.match /\ dist' = rq.dist /\ sort' = rq.sort
  /\ pc' = "spawn" /\ next' = 0
  /\ jobs' = [i \in JobsOf(n) |-> Unspawned]
  /\ count' = Pending(n) /\ mutex' = Free /\ waiting' = FALSE
  /\ filtered' = 0

\* rofi_view_refilter_real without text: every row is shown.
ShowAll(n) ==
  /\ Quiescent
  /\ \/ distance' = Zeros(n)
     \/ n = numLines /\ UNCHANGED distance
  /\ numLines' = n
  /\ match' = 0 .. n - 1 /\ dist' = Zeros(n) /\ sort' = FALSE
  /\ lineMap' = [r \in 0 .. n - 1 |-> r]
  /\ filtered' = n
  /\ pc' = "idle" /\ next' = 0
  /\ jobs' = [i \in JobsOf(n) |-> Unspawned]
  /\ count' = 0 /\ mutex' = Free /\ waiting' = FALSE

-----------------------------------------------------------------------------
\* The main thread fills states[next] and, but for job 0, pushes it.
Spawn ==
  /\ pc = "spawn"
  /\ jobs' = [jobs EXCEPT ![next] = NewJob(next)]
  /\ next' = next + 1
  /\ pc' = IF next + 1 < JobCount(numLines) THEN "spawn" ELSE "run"
  /\ UNCHANGED <<request, lineMap, distance, sync, filtered>>

\* Jobs that occupy a thread of the pool.
InPool == {k \in Jobs \ {0} : jobs[k].st \in {"scan", "held", "signalled"}}

\* A thread of the pool takes a job.  The jobs of a pass have one priority
\* and any of them may come first.
Take(i) ==
  /\ jobs[i].st = "queued"
  /\ Cardinality(InPool) < Threads
  /\ jobs' = [jobs EXCEPT ![i].st = "scan"]
  /\ UNCHANGED <<request, pc, next, lineMap, distance, sync, filtered>>

\* Writes v at position k of an array, whether the position exists or not.
Put(array, k, v) ==
  [x \in DOMAIN array \cup {k} |-> IF x = k THEN v ELSE array[x]]

Scanning(i) ==
  /\ jobs[i].st = "scan"
  /\ i = 0 => pc = "run"

\* Mutant: a job stores what it finds from the front of line_map.
MatchAtFront(i) ==
  LET job == jobs[i] IN
  /\ Scanning(i) /\ job.cur < job.stop
  /\ job.cur \in match
  /\ lineMap' = Put(lineMap, job.count, job.cur)
  /\ distance' = IF sort THEN Put(distance, job.cur, dist[job.cur]) ELSE distance
  /\ jobs' = [jobs EXCEPT ![i].cur = @ + 1, ![i].count = @ + 1]
  /\ UNCHANGED <<request, pc, next, sync, filtered>>

\* filter_elements, one turn of the loop: the row matches or it does not.
Match(i) ==
  LET job == jobs[i] IN
  /\ Scanning(i) /\ job.cur < job.stop
  /\ job.cur \in match
  /\ lineMap' = Put(lineMap, job.start + job.count, job.cur)
  /\ distance' = IF sort THEN Put(distance, job.cur, dist[job.cur]) ELSE distance
  /\ jobs' = [jobs EXCEPT ![i].cur = @ + 1, ![i].count = @ + 1]
  /\ UNCHANGED <<request, pc, next, sync, filtered>>

Skip(i) ==
  /\ Scanning(i) /\ jobs[i].cur < jobs[i].stop
  /\ jobs[i].cur \notin match
  /\ jobs' = [jobs EXCEPT ![i].cur = @ + 1]
  /\ UNCHANGED <<request, pc, next, lineMap, distance, sync, filtered>>

\* filter_elements, after the loop: lock, count down and signal, unlock.
Lock(i) ==
  /\ Scanning(i) /\ jobs[i].cur >= jobs[i].stop
  /\ mutex = Free
  /\ mutex' = i
  /\ jobs' = [jobs EXCEPT ![i].st = "held"]
  /\ UNCHANGED <<request, pc, next, lineMap, distance, count, waiting, filtered>>

\* Mutant: the last step of a job does not wake the main thread.
CountDownSilently(i) ==
  /\ jobs[i].st = "held"
  /\ count' = count - 1
  /\ jobs' = [jobs EXCEPT ![i].st = "signalled"]
  /\ UNCHANGED <<request, pc, next, lineMap, distance, mutex, waiting, filtered>>

CountDown(i) ==
  /\ jobs[i].st = "held"
  /\ count' = count - 1
  /\ waiting' = FALSE
  /\ jobs' = [jobs EXCEPT ![i].st = "signalled"]
  /\ UNCHANGED <<request, pc, next, lineMap, distance, mutex, filtered>>

\* Back in rofi_view_refilter_real after job 0, the main thread waits only
\* if it pushed other jobs.
Unlock(i) ==
  /\ jobs[i].st = "signalled"
  /\ mutex' = Free
  /\ jobs' = [jobs EXCEPT ![i].st = "over"]
  /\ IF i = 0
     THEN /\ pc' = IF JobCount(numLines) > 1 THEN "lock" ELSE "compact"
          /\ next' = 0
     ELSE UNCHANGED <<pc, next>>
  /\ UNCHANGED <<request, lineMap, distance, count, waiting, filtered>>

-----------------------------------------------------------------------------
MainLock ==
  /\ pc = "lock" /\ mutex = Free
  /\ mutex' = Main
  /\ pc' = "check"
  /\ UNCHANGED <<request, next, jobs, lineMap, distance, count, waiting, filtered>>

\* g_cond_wait gives the mutex back while the main thread sleeps.
MainWait ==
  /\ pc = "check" /\ count > 0
  /\ mutex' = Free /\ waiting' = TRUE
  /\ pc' = "wait"
  /\ UNCHANGED <<request, next, jobs, lineMap, distance, count, filtered>>

\* g_cond_wait may return without a signal.
SpuriousWakeup ==
  /\ pc = "wait" /\ waiting
  /\ waiting' = FALSE
  /\ UNCHANGED <<request, pc, next, jobs, lineMap, distance, count, mutex, filtered>>

\* Mutant: a thread that wakes up does not look at the counter again.
MainWakeTrusting ==
  /\ pc = "wait" /\ ~waiting /\ mutex = Free
  /\ pc' = "compact"
  /\ UNCHANGED <<request, next, jobs, lineMap, distance, sync, filtered>>

MainWake ==
  /\ pc = "wait" /\ ~waiting /\ mutex = Free
  /\ mutex' = Main
  /\ pc' = "check"
  /\ UNCHANGED <<request, next, jobs, lineMap, distance, count, waiting, filtered>>

\* All jobs are over: unlock, and clear the mutex and the condition.
MainPass ==
  /\ pc = "check" /\ count <= 0
  /\ mutex' = Free
  /\ pc' = "compact"
  /\ UNCHANGED <<request, next, jobs, lineMap, distance, count, waiting, filtered>>

\* memmove of n elements from position src to position dst.
Moved(array, dst, src, n) ==
  [k \in DOMAIN array |->
    IF k \in dst .. dst + n - 1 THEN array[src + (k - dst)] ELSE array[k]]

\* What slice next holds is moved up to the rows found so far.
Compact ==
  LET job == jobs[next] IN
  /\ pc = "compact" /\ next < JobCount(numLines)
  /\ lineMap' = IF filtered # job.start
                THEN Moved(lineMap, filtered, job.start, job.count)
                ELSE lineMap
  /\ filtered' = filtered + job.count
  /\ next' = next + 1
  /\ UNCHANGED <<request, pc, jobs, distance, sync>>

\* Mutant: rows at the same distance may come in any order.
SortedByDistance(map, n, order) ==
  /\ order \in [0 .. n - 1 -> 0 .. n - 1]
  /\ \A a, b \in 0 .. n - 1 : a # b => order[a] # order[b]
  /\ \A a, b \in 0 .. n - 1 :
       a < b => distance[map[order[a]]] <= distance[map[order[b]]]

\* lev_sort under a stable sort: by distance, ties in the order they had.
SortedBy(map, n, order) ==
  /\ order \in [0 .. n - 1 -> 0 .. n - 1]
  /\ \A a, b \in 0 .. n - 1 :
       a < b => \/ distance[map[order[a]]] < distance[map[order[b]]]
                \/ /\ distance[map[order[a]]] = distance[map[order[b]]]
                   /\ order[a] < order[b]

\* Sort if asked; then the list is ready to be shown.
Complete ==
  /\ pc = "compact" /\ next = JobCount(numLines)
  /\ IF sort
     THEN \E order \in [0 .. filtered - 1 -> 0 .. filtered - 1] :
            /\ SortedBy(lineMap, filtered, order)
            /\ lineMap' = [k \in Rows |-> IF k < filtered THEN lineMap[order[k]]
                                          ELSE lineMap[k]]
     ELSE UNCHANGED lineMap
  /\ pc' = "idle"
  /\ UNCHANGED <<request, next, jobs, distance, sync, filtered>>

-----------------------------------------------------------------------------
JobStep(i) ==
  Take(i) \/ Match(i) \/ Skip(i) \/ Lock(i) \/ CountDown(i) \/ Unlock(i)

MainStep ==
  Spawn \/ MainLock \/ MainWait \/ MainWake \/ MainPass \/ Compact \/ Complete

Next ==
  \/ \E n \in 0 .. MaxLines : \E rq \in Requests(n) : Begin(n, rq)
  \/ \E n \in 0 .. MaxLines : ShowAll(n)
  \/ \E i \in Jobs : JobStep(i)
  \/ MainStep
  \/ SpuriousWakeup

\* The threads are scheduled fairly; the mutex is handed to whoever asks
\* often enough (a job asks for it once per pass).
Fairness ==
  /\ WF_vars(MainStep)
  /\ \A i \in 0 .. Threads * JobsPerThread : SF_vars(i \in Jobs /\ JobStep(i))

Spec == Init /\ [][Next]_vars /\ Fairness

-----------------------------------------------------------------------------
JobTypes(n) ==
  [st : {"none", "queued", "scan", "held", "signalled", "over"},
   start : Nat, stop : 0 .. n, cur : Nat, count : 0 .. n]

\* Every variable has its type; in particular no job writes outside the
\* arrays of the view and the counter does not fall below zero.
TypeOK ==
  /\ numLines \in 0 .. MaxLines
  /\ match \in SUBSET Rows /\ dist \in [Rows -> Distances] /\ sort \in BOOLEAN
  /\ pc \in {"start", "spawn", "run", "lock", "check", "wait", "compact", "idle"}
  /\ next \in 0 .. JobCount(numLines)
  /\ jobs \in [Jobs -> JobTypes(numLines)]
  /\ lineMap \in [Rows -> Rows] /\ distance \in [Rows -> Distances]
  /\ count \in 0 .. JobCount(numLines)
  /\ mutex \in Jobs \cup {Free, Main}
  /\ waiting \in BOOLEAN
  /\ filtered \in 0 .. numLines

\* The jobs, the counter, the mutex and the condition are on the stack of
\* rofi_view_refilter_real: once the main thread has passed the wait
\* (view.c:831-839) every job is out of filter_elements.
FrameIsOurs ==
  pc \in {"compact", "idle"} => \A i \in Jobs : jobs[i].st \in {"over", "none"}

\* What job i has found so far, in the order of the rows: its slice of
\* line_map holds exactly the rows it examined that match, whatever the
\* other jobs wrote in the meantime (view.c:458-460).
Slot(i) == jobs[i].start .. jobs[i].start + jobs[i].count - 1

Found(i) ==
  /\ {lineMap[k] : k \in Slot(i)} = match \cap (jobs[i].start .. jobs[i].cur - 1)
  /\ \A a, b \in Slot(i) : a < b => lineMap[a] < lineMap[b]

\* No job overwrites what another one found, and the slices that are not
\* moved yet survive the moves of those before them (view.c:841-848).
SlicesKept ==
  \A i \in Jobs :
    /\ jobs[i].st # "none"
    /\ pc = "compact" => i >= next
    /\ pc # "idle"
    => Found(i)

\* The pass shows exactly the rows that match, each once, in the order of
\* the mode or sorted by distance: see Filter.
RowPrecedes(a, b) ==
  IF sort THEN dist[a] < dist[b] \/ (dist[a] = dist[b] /\ a < b) ELSE a < b

ListIsRight ==
  pc = "idle" =>
    /\ {lineMap[k] : k \in 0 .. filtered - 1} = match
    /\ \A a, b \in 0 .. filtered - 1 : a < b => RowPrecedes(lineMap[a], lineMap[b])

Spawned(i) == jobs[i].st # "none"

\* Where the main thread is and which jobs it has spawned; job 0 is its own.
PhaseInv ==
  /\ pc = "start" => \A i \in Jobs : ~Spawned(i)
  /\ pc = "spawn" => /\ next < JobCount(numLines)
                     /\ \A i \in Jobs : Spawned(i) <=> i < next
  /\ pc \in {"run", "lock", "check", "wait", "compact"} =>
       \A i \in Jobs : Spawned(i)
  /\ pc \in {"lock", "check", "wait"} => next = 0 /\ jobs[0].st = "over"
  /\ jobs[0].st # "queued"
  /\ jobs[0].st \in {"held", "signalled"} => pc = "run"
  /\ pc \in {"spawn", "run"} => jobs[0].st # "over"
  /\ ~(Quiescent \/ pc = "compact") => filtered = 0

\* A job stays in its slice.
JobInv ==
  \A i \in Jobs : LET job == jobs[i] IN
    Spawned(i) =>
      /\ job.start = SliceStart(numLines, i)
      /\ job.stop = SliceStop(numLines, i)
      /\ job.start <= job.cur
      /\ job.start < job.cur => job.cur <= job.stop
      /\ job.count <= job.cur - job.start
      /\ job.st \in {"held", "signalled", "over"} => job.stop <= job.cur
      /\ job.st = "queued" => job.cur = job.start

\* The mutex has one holder.
MutexInv ==
  /\ \A i \in Jobs : jobs[i].st \in {"held", "signalled"} <=> mutex = i
  /\ mutex = Main <=> pc = "check"

\* The counter counts the jobs that did not count down yet.
Unfinished == {i \in Jobs : jobs[i].st \notin {"signalled", "over"}}
CountInv == ~Quiescent => count = Cardinality(Unfinished)

\* Distances are known for the matching rows that were examined.
DistanceInv ==
  sort /\ ~Quiescent =>
    \A i \in Jobs : Spawned(i) =>
      \A r \in match : r \in jobs[i].start .. jobs[i].cur - 1 => distance[r] = dist[r]

\* The slices moved so far hold the matching rows of these slices.
MovedInv ==
  pc = "compact" =>
    /\ filtered <= SliceStart(numLines, next)
    /\ {lineMap[k] : k \in 0 .. filtered - 1}
         = match \cap (0 .. SliceStart(numLines, next) - 1)
    /\ \A a, b \in 0 .. filtered - 1 : a < b => lineMap[a] < lineMap[b]
    /\ sort => \A k \in 0 .. filtered - 1 : distance[lineMap[k]] = dist[lineMap[k]]

\* The inductive invariant behind FrameIsOurs, SlicesKept and ListIsRight.
IInv ==
  /\ TypeOK /\ PhaseInv /\ JobInv /\ MutexInv /\ CountInv
  /\ FrameIsOurs /\ SlicesKept /\ DistanceInv /\ MovedInv /\ ListIsRight

Abstract == INSTANCE Filter WITH
  lines <- numLines,
  busy  <- ~Quiescent,
  shown <- IF Quiescent THEN [k \in 0 .. filtered - 1 |-> lineMap[k]]
           ELSE [k \in {} |-> 0]

\* The parallel filter implements Filter: what it shows is what one pass
\* over the rows in order would show, and a pass that starts ends.
FilterSpec == Abstract!Spec

\* No wakeup is lost: the main thread, and with it the user interface,
\* always gets out of the wait (view.c:832-836).
PassEnds == pc = "spawn" ~> pc = "idle"
=============================================================================
