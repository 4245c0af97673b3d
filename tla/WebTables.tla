------------------------------- MODULE WebTables -------------------------------
(***************************************************************************)
(* The two tables of the web application, /runs (runs-table.tsx,           *)
(* runs-filters.tsx, bulk-actions.tsx) and /queues (queues-table.tsx), in  *)
(* one browser tab, while the rows they list change.                       *)
(*                                                                         *)
(* What is on show is the cached answer to a query, made of the URL; a     *)
(* URL without a cursor is debounced first on /runs.  Pausing live updates *)
(* queries under another key, which no event invalidates.  Answers stay in *)
(* the cache: a stay is shorter than the five minutes they are kept.       *)
(***************************************************************************)
EXTENDS Listings

CONSTANTS
  StartTable,  \* the rows when the tab is opened
  JobIdOf,     \* the jobId of a row, which rows of two queues may share
  MaxClicks,   \* bound on what the user does
  MaxChanges,  \* bound on the changes of the rows
  MaxFaults    \* bound on failed requests

(* jobStatusEnum                                                           *)
Statuses ==
  { "active", "completed", "failed", "waiting", "delayed", "prioritized", "waiting-children",
    "unknown" }

Row == [status : Statuses \union {None}, duration : Nat]

ASSUME WebTablesAssumption ==
  /\ StartTable \in [Rows -> Row]
  /\ DOMAIN JobIdOf = Rows
  /\ {MaxClicks, MaxChanges, MaxFaults} \subseteq Nat

VARIABLES
  table,      \* job_runs
  url,        \* the query in the address bar
  debounced,  \* what it was 300 ms ago
  history,    \* cursorHistoryRef
  paused,     \* liveUpdatesPaused
  cache,      \* the answers the query client holds
  fetching,   \* is the query on show being fetched?
  selected,   \* selectedJobIds
  bulk,       \* an action under way: what it does, to which rows, if on the selection
  way,        \* the URLs the Next button was clicked through, from a first page
  left,       \* on /runs, the URLs that were left forward and not come back to,
              \* since the table was mounted and its filters were chosen
  touched,    \* the rows that have changed since the tab was opened
  clicks, changes, faults

pageVars == <<url, debounced, history, paused, way, left>>
dataVars == <<cache, fetching>>
tableVars == <<table, touched, changes>>
vars == <<tableVars, pageVars, dataVars, selected, bulk, clicks, faults>>

Runs == [page |-> "runs", queue |-> 0, status |-> "all", sortBy |-> "createdAt", desc |-> TRUE,
         cursor |-> NoCursor, dir |-> "next"]

QueueTable == [page |-> "queues", sortBy |-> "waitingJobs", desc |-> TRUE,
               cursor |-> NoCursor, dir |-> "next"]

NoBulk == [does |-> None, rows |-> <<>>, bulk |-> TRUE, here |-> TRUE]

FirstPage(u) == [u EXCEPT !.cursor = NoCursor, !.dir = "next"]

OnRuns == url.page = "runs"

(* queryFilters                                                            *)
QueryFilters(u, late) ==
  IF u.page = "queues" \/ u.cursor # NoCursor \/ u.dir = "prev" THEN u ELSE late

Query == QueryFilters(url, debounced)

(* Mutant of QueryKey: pausing leaves the key alone.                       *)
LiveQueryKey(p, q) == [frozen |-> FALSE, query |-> q]

QueryKey(p, q) == [frozen |-> p, query |-> q]

Key == QueryKey(paused, Query)

Loaded == Key \in DOMAIN cache

Data == cache[Key]

-----------------------------------------------------------------------------
(* TanStack Query.                                                         *)

(* The query client keeps an answer under its key.                         *)
Put(answers, key, answer) ==
  [k \in DOMAIN answers \union {key} |-> IF k = key THEN answer ELSE answers[k]]

(* A query comes on show: paused, it starts from the live answer and is    *)
(* never stale; live, it is fetched unless it was less than 30 s ago.      *)
Show(p, q) ==
  LET key == QueryKey(p, q)
      live == QueryKey(FALSE, q) IN
  IF key.frozen /\ key \notin DOMAIN cache /\ live \in DOMAIN cache
    THEN cache' = Put(cache, key, cache[live]) /\ fetching' = FALSE
    ELSE /\ UNCHANGED cache
         /\ fetching' \in (IF key \notin DOMAIN cache THEN {TRUE}
                           ELSE IF key.frozen THEN {FALSE} ELSE BOOLEAN)

ShowIfOther(p, q) == IF QueryKey(p, q) = Key THEN UNCHANGED dataVars ELSE Show(p, q)

Fetch ==
  /\ fetching
  /\ cache' = Put(cache, Key, ReadPage(table, Query))
  /\ fetching' = FALSE
  /\ UNCHANGED <<tableVars, pageVars, selected, bulk, clicks, faults>>

(* The request fails, and its retry; the listing refuses a sixth caller.   *)
FetchFails ==
  /\ fetching
  /\ faults < MaxFaults
  /\ faults' = faults + 1
  /\ fetching' = FALSE
  /\ UNCHANGED <<tableVars, pageVars, cache, selected, bulk, clicks>>

(* The query on show is invalidated, by an event or by a bulk action, and  *)
(* has been fetched again.                                                 *)
Refetched == cache' = Put(cache, Key, ReadPage(table, Query))

Refresh ==
  /\ ~Key.frozen
  /\ ~fetching
  /\ Refetched
  /\ UNCHANGED <<tableVars, pageVars, fetching, selected, bulk, clicks, faults>>

(* useDebounce                                                             *)
Settle ==
  /\ debounced # url
  /\ debounced' = url
  /\ ShowIfOther(paused, QueryFilters(url, url))
  /\ UNCHANGED <<tableVars, url, history, paused, way, left, selected, bulk, clicks, faults>>

-----------------------------------------------------------------------------
(* The buttons of both tables.                                             *)

Click == clicks < MaxClicks /\ clicks' = clicks + 1

(* A button, and the one that confirms.                                    *)
ClickTwice == clicks + 1 < MaxClicks /\ clicks' = clicks + 2

Elsewhere == <<tableVars, debounced, paused, bulk, faults>>

(* setUrlFilters, and the selection is dropped.                            *)
Go(u) ==
  /\ url' = u
  /\ selected' = {}
  /\ ShowIfOther(paused, QueryFilters(u, debounced))

ClickNext ==
  /\ Click
  /\ ~fetching /\ Loaded
  /\ Data.next # NoCursor
  /\ LET u == [url EXCEPT !.cursor = Data.next, !.dir = "next"] IN
       /\ Go(u)
       /\ way' = IF url.cursor = NoCursor THEN (IF Query = url THEN <<url, u>> ELSE <<>>)
                 ELSE IF way # <<>> THEN Append(way, u) ELSE <<>>
  /\ history' = IF OnRuns THEN Append(history, url.cursor) ELSE history
  /\ left' = IF OnRuns THEN Append(left, url) ELSE left
  /\ UNCHANGED Elsewhere

(* On /queues what comes before the page is cut anew: the way is lost.     *)
TurnBack ==
  /\ way' = IF OnRuns /\ Len(way) > 2 THEN Front(way) ELSE <<>>
  /\ left' = IF OnRuns /\ left # <<>> THEN Front(left) ELSE left

(* Mutant of ClickPrevious: the first cursor ever is the one gone back to. *)
ClickPreviousOldest ==
  /\ Click
  /\ ~fetching /\ Loaded
  /\ Data.prev # NoCursor
  /\ IF OnRuns /\ history # <<>>
       THEN /\ Go([url EXCEPT !.cursor = Head(history), !.dir = "next"])
            /\ history' = Tail(history)
       ELSE /\ Go([url EXCEPT !.cursor = Data.prev, !.dir = "prev"])
            /\ UNCHANGED history
  /\ TurnBack
  /\ UNCHANGED Elsewhere

(* /runs goes back to where Next was clicked, as long as it remembers.     *)
ClickPrevious ==
  /\ Click
  /\ ~fetching /\ Loaded
  /\ Data.prev # NoCursor
  /\ IF OnRuns /\ history # <<>>
       THEN /\ Go([url EXCEPT !.cursor = Last(history), !.dir = "next"])
            /\ history' = Front(history)
       ELSE /\ Go([url EXCEPT !.cursor = Data.prev, !.dir = "prev"])
            /\ UNCHANGED history
  /\ TurnBack
  /\ UNCHANGED Elsewhere

(* With nothing before what is on show, Previous leads to the first page;  *)
(* to the handler that is a move forward.  On /queues it is disabled.      *)
ClickPreviousToFirst ==
  /\ Click
  /\ OnRuns
  /\ ~fetching
  /\ url.cursor # NoCursor
  /\ Loaded => Data.prev = NoCursor
  /\ Go(FirstPage(url))
  /\ history' = Append(history, url.cursor)
  /\ way' = <<>>
  /\ left' = Append(left, url)
  /\ UNCHANGED Elsewhere

(* handleFiltersChange, other than to turn a page.                         *)
ChangeFilters(u) ==
  /\ Click
  /\ OnRuns
  /\ Go(FirstPage(u))
  /\ history' = <<>>
  /\ way' = <<>> /\ left' = <<>>
  /\ UNCHANGED Elsewhere

FilterByStatus(status) == ChangeFilters([url EXCEPT !.status = status])

(* Newest or longest first, and the other way round at the second click.   *)
Sorted(u, by) ==
  FirstPage([u EXCEPT !.sortBy = by, !.desc = ~(u.sortBy = by /\ u.desc)])

SortRuns == ChangeFilters(Sorted(url, "durationMs"))

SortQueues(by) ==
  /\ Click
  /\ url.page = "queues"
  /\ Go(Sorted(url, by))
  /\ way' = <<>>
  /\ UNCHANGED <<history, left, Elsewhere>>

TogglePaused ==
  /\ Click
  /\ OnRuns
  /\ paused' = ~paused
  /\ ShowIfOther(~paused, Query)
  /\ way' = <<>>
  /\ UNCHANGED <<tableVars, url, debounced, history, left, selected, bulk, faults>>

(* A table is mounted: by a click on a queue, or as the tab reloads the    *)
(* URL, its cursor included; a reload empties the cache.  The request of a *)
(* bulk action goes on without it.                                         *)
Mount(u) ==
  /\ url' = u
  /\ debounced' = u
  /\ history' = <<>>
  /\ paused' = FALSE
  /\ selected' = {}
  /\ bulk' = IF bulk = NoBulk THEN bulk ELSE [bulk EXCEPT !.here = FALSE]
  /\ way' = <<>> /\ left' = <<>>

OpenQueue(queue) ==
  /\ Click
  /\ url.page = "queues" /\ Loaded
  /\ \E i \in DOMAIN Data.items : Data.items[i].id = queue
  /\ LET u == [Runs EXCEPT !.queue = queue] IN Mount(u) /\ Show(FALSE, u)
  /\ UNCHANGED <<tableVars, faults>>

Reload ==
  /\ Click
  /\ Mount(url)
  /\ cache' = <<>>
  /\ fetching' = TRUE
  /\ touched' = {}
  /\ UNCHANGED <<table, changes, faults>>

-----------------------------------------------------------------------------
(* Selecting rows and acting on them.                                      *)

OnShow == IF Loaded THEN Data.items ELSE <<>>

SelectedJobs == SelectSeq(OnShow, LAMBDA item : JobIdOf[item.id] \in selected)

Cancellable(item) == item.status \in {"active", "waiting", "delayed"}

Replayable(item) == item.status \in {"completed", "failed"}

(* A row is ticked by its jobId.                                           *)
SelectJob(item) ==
  /\ Click
  /\ selected' = IF JobIdOf[item.id] \in selected THEN selected \ {JobIdOf[item.id]}
                 ELSE selected \union {JobIdOf[item.id]}
  /\ UNCHANGED <<tableVars, pageVars, dataVars, bulk, faults>>

SelectAll ==
  /\ Click
  /\ selected' = {JobIdOf[item.id] : item \in ToSet(OnShow)}
  /\ UNCHANGED <<tableVars, pageVars, dataVars, bulk, faults>>

(* The button and its dialog count the jobs the action is meant for; the   *)
(* request names all that are selected.                                    *)
ConfirmBulk(does) ==
  /\ ClickTwice
  /\ bulk = NoBulk
  /\ \E item \in ToSet(SelectedJobs) :
       IF does = "replay" THEN Replayable(item) ELSE Cancellable(item)
  /\ bulk' = [does |-> does, bulk |-> TRUE, here |-> TRUE,
              rows |-> [i \in DOMAIN SelectedJobs |-> SelectedJobs[i].id]]
  /\ UNCHANGED <<tableVars, pageVars, dataVars, selected, faults>>

(* RunActions: the buttons of one row.                                     *)
ConfirmOne(does, item) ==
  /\ ClickTwice
  /\ bulk = NoBulk
  /\ IF does = "replay" THEN Replayable(item) ELSE Cancellable(item)
  /\ bulk' = [does |-> does, bulk |-> FALSE, here |-> TRUE, rows |-> <<item.id>>]
  /\ UNCHANGED <<tableVars, pageVars, dataVars, selected, faults>>

WriteRow(r, row) == table' = [table EXCEPT ![r] = row] /\ touched' = touched \union {r}

(* The route takes the jobs one by one.  A job that has finished is run    *)
(* again; a replay of one that has not, which retry() refuses, is added    *)
(* next to it.  A job that has not finished is cancelled.                  *)
BulkStep ==
  /\ bulk.rows # <<>>
  /\ LET r == Head(bulk.rows)
         finished == table[r].status \in {"completed", "failed"} IN
       CASE bulk.does = "replay" /\ finished -> WriteRow(r, [status |-> "waiting", duration |-> 0])
         [] bulk.does = "replay" /\ ~finished ->
              \/ \E copy \in Rows \ Present(table) :
                   QueueOf[copy] = QueueOf[r] /\ WriteRow(copy, [status |-> "waiting", duration |-> 0])
              \/ /\ \A copy \in Rows \ Present(table) : QueueOf[copy] # QueueOf[r]
                 /\ UNCHANGED <<table, touched>>
         [] bulk.does = "cancel" /\ ~finished -> WriteRow(r, [table[r] EXCEPT !.status = "failed"])
         [] OTHER -> UNCHANGED <<table, touched>>
  /\ bulk' = [bulk EXCEPT !.rows = Tail(@)]
  /\ UNCHANGED <<changes, pageVars, dataVars, selected, clicks, faults>>

(* onSuccess; an action on one row leaves the selection alone.             *)
BulkDone ==
  /\ bulk # NoBulk
  /\ bulk.rows = <<>>
  /\ bulk' = NoBulk
  /\ IF bulk.here /\ ~Key.frozen THEN Refetched ELSE UNCHANGED cache
  /\ selected' = IF bulk.here /\ bulk.bulk THEN {} ELSE selected
  /\ UNCHANGED <<tableVars, pageVars, fetching, clicks, faults>>

(* The job is gone: the rest is skipped and everything stays selected.     *)
BulkFails ==
  /\ bulk.rows # <<>>
  /\ faults < MaxFaults
  /\ faults' = faults + 1
  /\ bulk' = NoBulk
  /\ UNCHANGED <<tableVars, pageVars, dataVars, selected, clicks>>

-----------------------------------------------------------------------------
(* Ingestion: a row appears, however old its job is, or moves on.          *)
Moved(row) ==
  CASE row = Absent -> {[row EXCEPT !.status = "waiting"]}
    [] row.status = "waiting" -> {[row EXCEPT !.status = "active"]}
    [] row.status = "active" -> {[status |-> "completed", duration |-> d] : d \in 1..2}
    [] OTHER -> {}

Change(r) ==
  /\ changes < MaxChanges
  /\ changes' = changes + 1
  /\ \E row \in Moved(table[r]) : WriteRow(r, row)
  /\ UNCHANGED <<pageVars, dataVars, selected, bulk, clicks, faults>>

-----------------------------------------------------------------------------
Init ==
  /\ table = StartTable
  /\ url \in {Runs, QueueTable}
  /\ debounced = url
  /\ history = <<>>
  /\ paused = FALSE
  /\ cache = <<>>
  /\ fetching = TRUE
  /\ selected = {}
  /\ bulk = NoBulk
  /\ way = <<>> /\ left = <<>>
  /\ touched = {}
  /\ clicks = 0 /\ changes = 0 /\ faults = 0

User ==
  \/ ClickNext \/ ClickPrevious \/ ClickPreviousToFirst
  \/ \E status \in {"all", "completed"} : OnRuns /\ status # url.status /\ FilterByStatus(status)
  \/ OnRuns /\ SortRuns
  \/ \E by \in {"waitingJobs", "activeJobs", "pressure"} : SortQueues(by)
  \/ TogglePaused
  \/ \E queue \in Queues : OpenQueue(queue)
  \/ Reload
  \/ OnRuns /\ SelectAll
  \/ OnRuns /\ \E item \in ToSet(OnShow) : SelectJob(item)
  \/ OnRuns /\ \E does \in {"replay", "cancel"} :
       ConfirmBulk(does) \/ \E item \in ToSet(OnShow) : ConfirmOne(does, item)

Next ==
  \/ User
  \/ Fetch \/ FetchFails \/ Refresh \/ Settle
  \/ BulkStep \/ BulkDone \/ BulkFails
  \/ \E r \in Rows : Change(r)

Spec == Init /\ [][Next]_vars

-----------------------------------------------------------------------------
(* The entries of the list that have been the same since the tab opened.   *)
Steady ==
  {item \in Items(table, url) :
     \A r \in touched : IF OnRuns THEN r # item.id ELSE QueueOf[r] # item.id}

Shown(u) ==
  LET key == QueryKey(paused, u) IN
  IF key \in DOMAIN cache THEN {item.id : item \in ToSet(cache[key].items)} ELSE {}

(* Whoever clicks Next from the first page to the last has seen every row  *)
(* that was there all along: rows that come, go or move, and equal sort    *)
(* values, hide none of the others (jobs.ts: getCursorComparison;          *)
(* queues.ts: getCursorComparison).                                        *)
WalkShowsAll ==
  LET pages == IF way = <<>> THEN {url} ELSE ToSet(way) IN
  (Query = url /\ Loaded /\ Data.next = NoCursor /\ (way = <<>> => url.cursor = NoCursor))
    => {item.id : item \in Steady} \subseteq UNION {Shown(u) : u \in pages}

(* Previous leads back to the page that was last left forward, by the same *)
(* filters, through refreshes and pauses, from wherever the walk began     *)
(* since the table was mounted and its filters were chosen; if that page   *)
(* had been reached forward, for the history keeps cursors, not            *)
(* directions (runs-table.tsx: handleFiltersChange).                       *)
PreviousComesBack ==
  [][OnRuns /\ ClickPrevious /\ left # <<>> /\ Last(left).dir = "next" => url' = Last(left)]_vars

(* While live updates are paused the page on show does not change under    *)
(* the user's hands (runs-table.tsx: jobs/table-paused).                   *)
FrozenWhilePaused ==
  [][paused /\ paused' /\ Query' = Query /\ Loaded => Key' \in DOMAIN cache' /\ Data' = Data]_vars

=============================================================================
