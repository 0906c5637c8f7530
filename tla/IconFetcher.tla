----------------------------- MODULE IconFetcher -----------------------------
(***************************************************************************)
(* Loading icons (source/rofi-icon-fetcher.c): the main thread draws the   *)
(* rows of a page and asks for the icon of each one (the _get_icon of the  *)
(* modes); threads of the pool load them and ask for a reload, which draws *)
(* the page again.  A change of the page replaces the pool                 *)
(* (page_changed_callback of source/view.c): the jobs that the old pool    *)
(* did not begin are dropped.  Entries are shared without a lock: only the *)
(* order of the accesses protects them.                                    *)
(*                                                                         *)
(* All icons have one size, so an entry is known by its name.              *)
(***************************************************************************)
EXTENDS Integers, FiniteSets, Sequences, SequencesExt

CONSTANTS
  Pages,       \* the rows of each page
  Icons,       \* for each row, the names of its icon: the first, its fallbacks
  Missing,     \* names for which there is no icon
  Threads,     \* config.threads
  Kinds,       \* how a mode asks, see below
  MaxChanges,  \* bound: changes of the page
  Prompt       \* the timer of a reload does not run out before g_timeout_add returned

\* "caches": drun and run keep the uid of the entry and ask only once.
\* "queries": the file browser asks again whenever it draws a row.
\* "fallback": dmenu and script keep the uid until the icon is known to be missing.
ASSUME IconFetcherAssumption ==
  /\ Icons \in Seq(Seq(STRING) \ {<<>>})
  /\ Pages \in Seq(SUBSET DOMAIN Icons) /\ Pages # <<>>
  /\ Threads \in Nat \ {0} /\ MaxChanges \in Nat
  /\ Kinds \subseteq {"caches", "queries", "fallback"} /\ Kinds # {}
  /\ Prompt \in BOOLEAN

Rows == DOMAIN Icons
Names == UNION {ToSet(Icons[r]) : r \in Rows}
Pools == 0 .. MaxChanges

VARIABLES
  kind,     \* the kind of the mode
  page,     \* page that is shown
  todo,     \* rows of the page that are still to be drawn
  torn,     \* row that is drawn, whose surface was NULL a moment ago
  uid,      \* is icon_fetch_uid of the row set?
  index,    \* icon_fallback_index of each row
  shows,    \* rows drawn with an icon
  entries,  \* names that were asked for
  started,  \* names whose query_started is set
  surface,  \* names whose surface is there
  done,     \* names whose query_done is set
  pool,     \* tpool: how often it was replaced
  queue,    \* jobs of each pool
  worker,   \* what each thread of each pool does
  sources,  \* timers for a reload
  armed     \* is idle_timeout not 0?

drawing == <<page, todo, torn, uid, index, shows>>
entry == <<entries, started, surface, done>>
timer == <<sources, armed>>
vars == <<kind, drawing, entry, pool, queue, worker, timer>>

Slots == Pools \X (1 .. Threads)
Idle == [step |-> "idle", name |-> ""]

Init ==
  /\ kind \in Kinds
  /\ page = 1 /\ todo = Pages[1] /\ torn = 0
  /\ uid = [r \in Rows |-> FALSE] /\ index = [r \in Rows |-> 0] /\ shows = {}
  /\ entries = {} /\ started = {} /\ surface = {} /\ done = {}
  /\ pool = 0 /\ queue = [g \in Pools |-> <<>>]
  /\ worker = [s \in Slots |-> Idle]
  /\ sources = 0 /\ armed = FALSE

-----------------------------------------------------------------------------
Push(n) == queue' = [queue EXCEPT ![pool] = Append(@, n)]

\* Mutant: what is not loaded yet is pushed again.
QueryUntilDone(n) ==
  /\ entries' = entries \cup {n}
  /\ started' = IF n \in entries THEN started ELSE started \cup {n}
  /\ IF n \in entries /\ n \in done THEN UNCHANGED queue ELSE Push(n)

\* rofi_icon_fetcher_query: a new entry is pushed to the pool, and so is one
\* whose job was dropped (each time: nothing marks it as started again).
Query(n) ==
  /\ entries' = entries \cup {n}
  /\ started' = IF n \in entries THEN started ELSE started \cup {n}
  /\ IF n \in entries /\ n \in started THEN UNCHANGED queue ELSE Push(n)

Draws(r, found) ==
  /\ todo' = todo \ {r}
  /\ shows' = IF found THEN shows \cup {r} ELSE shows \ {r}

\* Mutant: the uid of the last name is kept when there is no other name.
QueryFallbackKept(r, k) ==
  /\ index' = [index EXCEPT ![r] = k]
  /\ uid' = [uid EXCEPT ![r] = TRUE]
  /\ IF k < Len(Icons[r]) THEN Query(Icons[r][k + 1])
     ELSE UNCHANGED <<entries, started, queue>>
  /\ Draws(r, FALSE)

\* The name at the fallback index of row r is asked for, if there is one.
QueryFallback(r, k) ==
  /\ index' = [index EXCEPT ![r] = k]
  /\ uid' = [uid EXCEPT ![r] = k < Len(Icons[r])]
  /\ IF k < Len(Icons[r]) THEN Query(Icons[r][k + 1])
     ELSE UNCHANGED <<entries, started, queue>>
  /\ Draws(r, FALSE)

\* _get_icon of drun and run, of the file browser, and of dmenu and script.
DrawCaching(r) ==
  /\ kind = "caches"
  /\ IF uid[r] THEN UNCHANGED <<entries, started, queue>> ELSE Query(Icons[r][1])
  /\ uid' = [uid EXCEPT ![r] = TRUE]
  /\ Draws(r, Icons[r][1] \in surface)
  /\ UNCHANGED <<torn, index>>

DrawQuerying(r) ==
  /\ kind = "queries"
  /\ Query(Icons[r][1])
  /\ uid' = [uid EXCEPT ![r] = TRUE]
  /\ Draws(r, Icons[r][1] \in surface)
  /\ UNCHANGED <<torn, index>>

DrawFallback(r) ==
  /\ kind = "fallback"
  /\ IF ~uid[r] THEN QueryFallback(r, index[r]) /\ UNCHANGED torn
     ELSE IF Icons[r][index[r] + 1] \in surface
     THEN Draws(r, TRUE) /\ UNCHANGED <<torn, uid, index, entries, started, queue>>
     ELSE torn' = r /\ UNCHANGED <<todo, shows, uid, index, entries, started, queue>>

\* The threads and the timer run between the two reads of
\* rofi_icon_fetcher_get_ex, the surface first and query_done then.
DrawFallbackEnds ==
  /\ torn # 0 /\ torn' = 0
  /\ IF Icons[torn][index[torn] + 1] \in done
     THEN QueryFallback(torn, index[torn] + 1)
     ELSE Draws(torn, FALSE) /\ UNCHANGED <<uid, index, entries, started, queue>>
  /\ UNCHANGED <<kind, page, surface, done, pool, worker, timer>>

\* The rows are drawn in their order.
Draw ==
  /\ torn = 0
  /\ \E r \in todo :
       /\ \A other \in todo : r <= other
       /\ DrawCaching(r) \/ DrawQuerying(r) \/ DrawFallback(r)
  /\ UNCHANGED <<kind, page, surface, done, pool, worker, timer>>

MainIdle == todo = {} /\ torn = 0

\* Mutant: the timer is not removed (G_SOURCE_CONTINUE).
ReloadContinues ==
  /\ MainIdle /\ sources > 0
  /\ Prompt => \A s \in Slots : worker[s].step # "store"
  /\ armed' = FALSE
  /\ todo' = Pages[page]
  /\ UNCHANGED <<kind, page, torn, uid, index, shows, entry, pool, queue, worker, sources>>

\* rofi_view_reload_idle, and the page is drawn again.
ReloadFires ==
  /\ MainIdle /\ sources > 0
  /\ Prompt => \A s \in Slots : worker[s].step # "store"
  /\ sources' = sources - 1 /\ armed' = FALSE
  /\ todo' = Pages[page]
  /\ UNCHANGED <<kind, page, torn, uid, index, shows, entry, pool, queue, worker>>

\* The page is drawn again for another reason: a key, the mouse, the cursor.
Redraw ==
  /\ MainIdle
  /\ todo' = Pages[page]
  /\ UNCHANGED <<kind, page, torn, uid, index, shows, entry, pool, queue, worker, timer>>

\* scroll_per_page and page_changed_callback: another page is drawn, with
\* another pool.
PageChanges ==
  /\ MainIdle /\ pool < MaxChanges
  /\ page' \in DOMAIN Pages \ {page}
  /\ todo' = Pages[page']
  /\ pool' = pool + 1
  /\ UNCHANGED <<kind, torn, uid, index, shows, entry, queue, worker, timer>>

-----------------------------------------------------------------------------
\* A thread of the pool that is in use takes the first job.
Take(s) ==
  LET g == s[1] IN
  /\ g = pool /\ worker[s] = Idle /\ queue[g] # <<>>
  /\ worker' = [worker EXCEPT ![s] = [step |-> "load", name |-> Head(queue[g])]]
  /\ queue' = [queue EXCEPT ![g] = Tail(@)]
  /\ UNCHANGED <<kind, drawing, entry, pool, timer>>

At(s, step) == worker[s].step = step
Goto(s, step) == worker' = [worker EXCEPT ![s].step = step]

\* rofi_icon_fetcher_worker writes the surface of an icon that it found ...
Load(s) ==
  /\ At(s, "load") /\ Goto(s, "mark")
  /\ surface' = IF worker[s].name \in Missing THEN surface
                ELSE surface \cup {worker[s].name}
  /\ UNCHANGED <<kind, drawing, entries, started, done, pool, queue, timer>>

\* Mutant: an icon that is not found is not marked as done.
MarkFound(s) ==
  /\ At(s, "mark") /\ Goto(s, "check")
  /\ done' = IF worker[s].name \in surface THEN done \cup {worker[s].name} ELSE done
  /\ UNCHANGED <<kind, drawing, entries, started, surface, pool, queue, timer>>

\* ... and then, that the query is done.
Mark(s) ==
  /\ At(s, "mark") /\ Goto(s, "check")
  /\ done' = done \cup {worker[s].name}
  /\ UNCHANGED <<kind, drawing, entries, started, surface, pool, queue, timer>>

\* rofi_view_reload: read idle_timeout, add a timer, store its number.
Check(s) ==
  /\ At(s, "check")
  /\ IF armed THEN worker' = [worker EXCEPT ![s] = Idle] ELSE Goto(s, "arm")
  /\ UNCHANGED <<kind, drawing, entry, pool, queue, timer>>

Arm(s) ==
  /\ At(s, "arm") /\ Goto(s, "store")
  /\ sources' = sources + 1
  /\ UNCHANGED <<kind, drawing, entry, pool, queue, armed>>

Store(s) ==
  /\ At(s, "store")
  /\ worker' = [worker EXCEPT ![s] = Idle]
  /\ armed' = TRUE
  /\ UNCHANGED <<kind, drawing, entry, pool, queue, sources>>

\* The last thread of an old pool frees it, and its jobs with it:
\* rofi_icon_fetch_thread_pool_entry_remove.
Drop(g) ==
  /\ g < pool /\ queue[g] # <<>>
  /\ \A s \in Slots : s[1] = g => worker[s] = Idle
  /\ queue' = [queue EXCEPT ![g] = <<>>]
  /\ started' = started \ ToSet(queue[g])
  /\ UNCHANGED <<kind, drawing, entries, surface, done, pool, worker, timer>>

Work(s) == Take(s) \/ Load(s) \/ Mark(s) \/ Check(s) \/ Arm(s) \/ Store(s)

Next ==
  \/ Draw \/ DrawFallbackEnds \/ ReloadFires \/ Redraw \/ PageChanges
  \/ \E s \in Slots : Work(s)
  \/ \E g \in Pools : Drop(g)

\* The main loop and the threads run, and a timer that ran out goes before the
\* idle sources that redraw; nobody has to turn the page or press a key.
Fairness ==
  /\ WF_vars(Draw) /\ WF_vars(DrawFallbackEnds) /\ SF_vars(ReloadFires)
  /\ \A s \in Slots : WF_vars(Work(s))
  /\ \A g \in Pools : WF_vars(Drop(g))

Spec == Init /\ [][Next]_vars /\ Fairness

-----------------------------------------------------------------------------
Steps == {"idle", "load", "mark", "check", "arm", "store"}

\* The variables have their types.
TypeOK ==
  /\ kind \in Kinds /\ page \in DOMAIN Pages /\ todo \subseteq Pages[page]
  /\ torn \in {0} \cup Rows
  /\ uid \in [Rows -> BOOLEAN] /\ index \in [Rows -> Nat] /\ shows \subseteq Rows
  /\ \A r \in Rows : index[r] <= Len(Icons[r]) /\ (uid[r] => index[r] < Len(Icons[r]))
  /\ started \cup surface \cup done \subseteq entries /\ entries \subseteq Names
  /\ pool \in Pools /\ queue \in [Pools -> Seq(Names)]
  /\ worker \in [Slots -> [step : Steps, name : Names \cup {""}]]
  /\ sources \in Nat /\ armed \in BOOLEAN

\* Jobs for the icon n that are not done, in the queues and in the threads.
Waits(n, g, i) == i \in 1 .. Len(queue[g]) /\ queue[g][i] = n
Loads(n, s) == worker[s].name = n /\ worker[s].step \in {"load", "mark"}

\* At most one job loads n, and if there is none the query is done.
OneJob(n) ==
  /\ \A g, h \in Pools : \A i \in 1 .. Len(queue[g]) : \A k \in 1 .. Len(queue[h]) :
       Waits(n, g, i) /\ Waits(n, h, k) => g = h /\ i = k
  /\ \A s, t \in Slots : Loads(n, s) /\ Loads(n, t) => s = t
  /\ \A s \in Slots, g \in Pools : \A i \in 1 .. Len(queue[g]) :
       ~(Loads(n, s) /\ Waits(n, g, i))
  /\ \/ n \in done
     \/ \E s \in Slots : Loads(n, s)
     \/ \E g \in Pools : \E i \in 1 .. Len(queue[g]) : Waits(n, g, i)

\* Nothing but query_started keeps two threads from loading one icon at the
\* same time, and writing its surface twice: as long as it is set there is at
\* most one job, and if there is none the query is done.
OneJobWhileStarted == \A n \in started : OneJob(n)

\* Why it holds: there are jobs only for names that were asked for, and only
\* dmenu and script go on to a fallback, while the uid of the row is set.
KnownNames ==
  /\ \A g \in Pools : \A i \in 1 .. Len(queue[g]) : queue[g][i] \in entries
  /\ \A s \in Slots : worker[s].step # "idle" => worker[s].name \in entries
FallbackInv ==
  /\ kind # "fallback" => \A r \in Rows : index[r] = 0
  /\ torn # 0 => kind = "fallback" /\ uid[torn]
IInv == TypeOK /\ KnownNames /\ FallbackInv /\ OneJobWhileStarted

\* A job was dropped.
Dropped == entries # started

\* What row r waits for is there, or there is nothing to wait for.  A row with
\* fallbacks is drawn with its icon only the second time it is drawn, and goes
\* on to the next name only then: it settles when the query is done.
Settled(r) ==
  \/ r \in shows
  \/ kind # "fallback" /\ Icons[r][1] \in Missing
  \/ kind = "fallback" /\ (index[r] = Len(Icons[r]) \/ Icons[r][index[r] + 1] \in done)

\* Unless a job is dropped, a row of the page does not wait for its icon for
\* ever: what a thread has loaded is drawn by the reload it asks for.
RowsSettle ==
  \A r \in Rows : r \in Pages[page] ~> (Settled(r) \/ r \notin Pages[page] \/ Dropped)

\* Nothing is loaded or about to be reloaded.
Quiet ==
  /\ sources = 0 /\ \A s \in Slots : worker[s] = Idle
  /\ \A g \in Pools : queue[g] = <<>>

\* Unless a job is dropped, loading ends: the reload that draws the rows again
\* does not start what leads to the next reload.
FetchingEnds == <>[](Dropped \/ Quiet)

\* A row whose icon exists gets it: a job that was dropped is queried again.
IconsCome ==
  \A r \in Rows : (r \in Pages[page] /\ Icons[r][1] \notin Missing) ~>
                    (r \in shows \/ r \notin Pages[page])
=============================================================================
