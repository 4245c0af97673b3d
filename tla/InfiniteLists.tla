----------------------------- MODULE InfiniteLists -----------------------------
(***************************************************************************)
(* The two lists of the web application that grow as one scrolls: the logs *)
(* on the page of a run ([id]/page.tsx, listJobLogs) and the names in the  *)
(* queue selector (queue-selector.tsx, api/queues/name).  Both are an      *)
(* infinite query: pages read one after the other, all read again when the *)
(* query is invalidated or the window gets the focus, and put on show when *)
(* the last one is in.  The pages of logs are cut by offset, those of      *)
(* queues start at the name the page before them ended at.                 *)
(*                                                                         *)
(* Entries are numbered in the order of the list: (ts, log_seq), or name.  *)
(***************************************************************************)
EXTENDS OrderBy, SequencesExt

CONSTANTS
  Entries,       \* the log lines or the queues there may come to be
  PageSize,      \* 100 logs, 20 queues
  MaxTouched,    \* bound on the entries that come or go
  MaxListFaults  \* bound on requests that fail and events that are lost

ASSUME InfiniteListsAssumption ==
  /\ IsFiniteSet(Entries) /\ Entries \subseteq Nat \ {0}
  /\ PageSize \in Nat \ {0} /\ {MaxTouched, MaxListFaults} \subseteq Nat

VARIABLES
  list,     \* which of the two
  stored,   \* the rows of job_logs for this run, or of queues
  disturbed,  \* the entries that have come or gone since the list was opened
  pages,    \* the pages on show
  fetch,    \* the fetch under way
  error,    \* the last one failed
  due,      \* the job-log-refresh events that are still to reach the browser
  missed,   \* one of them has led to no complete fetch
  listFaults

storeVars == <<list, stored, disturbed>>
listVars == <<storeVars, pages, fetch, error, due, missed, listFaults>>

Logs == list = "logs"

Listed(entries) == InOrder(entries, {p \in entries \X entries : p[1] < p[2]})

(* An answer is the one element of a sequence.                             *)
NotRead == <<>>
Idle == [whole |-> FALSE, got |-> <<>>, total |-> NotRead, rows |-> NotRead]

Fetching == fetch # Idle

(* getNextPageParam; the first page starts at 0, or null.                  *)
NextParam(got) == IF got = <<>> THEN 0 ELSE Last(got).next

-----------------------------------------------------------------------------
(* The two routes.                                                         *)

(* The count and the rows are two queries; listJobLogs starts both at once,*)
(* the listing of names takes them in turn and its caller drops the count. *)
ReadTotal ==
  /\ Fetching /\ fetch.total = NotRead
  /\ Logs \/ fetch.rows # NotRead
  /\ fetch' = [fetch EXCEPT !.total = <<Cardinality(stored)>>]
  /\ UNCHANGED <<storeVars, pages, error, due, missed, listFaults>>

FirstOf(rows, limit) == SubSeq(rows, 1, IF Len(rows) < limit THEN Len(rows) ELSE limit)

(* Mutant of RowsFrom: a page starts after the name it should start with.  *)
RowsAfter(param) ==
  IF Logs THEN LET all == Listed(stored) IN SubSeq(all, param + 1, Len(all))
          ELSE Listed({e \in stored : e > param})

(* OFFSET, or WHERE name >= cursor.                                        *)
RowsFrom(param) ==
  IF Logs THEN LET all == Listed(stored) IN SubSeq(all, param + 1, Len(all))
          ELSE Listed({e \in stored : e >= param})

(* A page of queues takes one row more, which the next page starts with.   *)
ReadRows ==
  /\ Fetching /\ fetch.rows = NotRead
  /\ LET rows == RowsFrom(NextParam(fetch.got))
         limit == IF Logs THEN PageSize ELSE PageSize + 1 IN
       fetch' = [fetch EXCEPT !.rows = <<FirstOf(rows, limit)>>]
  /\ UNCHANGED <<storeVars, pages, error, due, missed, listFaults>>

PageRead ==
  LET param == NextParam(fetch.got)
      rows == Head(fetch.rows) IN
  IF Logs
    THEN [ rows |-> rows,
           next |-> IF Head(fetch.total) > param + PageSize THEN param + PageSize ELSE 0 ]
    ELSE [ rows |-> FirstOf(rows, PageSize),
           next |-> IF Len(rows) > PageSize THEN Last(rows) ELSE 0 ]

-----------------------------------------------------------------------------
(* TanStack's infinite query.                                              *)

FetchAll == fetch' = [Idle EXCEPT !.whole = TRUE]

FetchNext == fetch' = [Idle EXCEPT !.got = pages]

(* A page has been read: the fetch goes on as long as it has read fewer    *)
(* than there are on show and there is a next one.                         *)
Answer ==
  /\ Fetching /\ fetch.total # NotRead /\ fetch.rows # NotRead
  /\ LET got == Append(fetch.got, PageRead) IN
       IF fetch.whole /\ Len(got) < Len(pages) /\ PageRead.next # 0
         THEN /\ fetch' = [fetch EXCEPT !.got = got, !.total = NotRead, !.rows = NotRead]
              /\ UNCHANGED <<pages, error>>
         ELSE /\ pages' = got
              /\ fetch' = Idle
              /\ error' = FALSE
  /\ UNCHANGED <<storeVars, due, missed, listFaults>>

AnswerLost ==
  /\ Fetching
  /\ listFaults < MaxListFaults
  /\ listFaults' = listFaults + 1
  /\ fetch' = Idle
  /\ error' = TRUE
  /\ UNCHANGED <<storeVars, pages, due, missed>>

(* The loader at the end of the list comes in sight (useInfiniteScroll).   *)
(* The waterfall shows none beside an error, and asks again even while the *)
(* next page is being fetched; what is under way is given up.              *)
LoadMore ==
  /\ NextParam(pages) # 0
  /\ IF Logs THEN ~error ELSE ~(Fetching /\ ~fetch.whole)
  /\ FetchNext
  /\ missed' = (missed \/ (Fetching /\ fetch.whole))
  /\ UNCHANGED <<storeVars, pages, error, due, listFaults>>

Focus ==
  /\ ~Fetching
  /\ FetchAll
  /\ missed' = FALSE
  /\ UNCHANGED <<storeVars, pages, error, due, listFaults>>

(* Mutant of LogRefresh: an event does not disturb a fetch under way.      *)
LogRefreshIfIdle ==
  /\ due > 0
  /\ due' = due - 1
  /\ IF Fetching THEN UNCHANGED <<fetch, missed>> ELSE FetchAll /\ missed' = FALSE
  /\ UNCHANGED <<storeVars, pages, error, listFaults>>

(* invalidateQueries(["jobs/logs", ...]): all is read again, whatever is   *)
(* under way, except that the first page keeps being waited for.           *)
LogRefresh ==
  /\ due > 0
  /\ due' = due - 1
  /\ IF pages = <<>> /\ Fetching
       THEN missed' = TRUE /\ UNCHANGED fetch
       ELSE missed' = FALSE /\ FetchAll
  /\ UNCHANGED <<storeVars, pages, error, listFaults>>

(* The WebSocket was not connected.                                        *)
LogRefreshLost ==
  /\ due > 0
  /\ listFaults < MaxListFaults
  /\ listFaults' = listFaults + 1
  /\ due' = due - 1
  /\ missed' = TRUE
  /\ UNCHANGED <<storeVars, pages, fetch, error>>

-----------------------------------------------------------------------------
(* Ingestion: lines come in any order of their ts; queues come and go.     *)
Touch(e) ==
  /\ Cardinality(disturbed) < MaxTouched \/ e \in disturbed
  /\ disturbed' = disturbed \union {e}

InsertLog(e) ==
  /\ Logs
  /\ e \notin stored
  /\ Touch(e)
  /\ stored' = stored \union {e}
  /\ due' = due + 1
  /\ UNCHANGED <<list, pages, fetch, error, missed, listFaults>>

ChangeQueue(e) ==
  /\ ~Logs
  /\ Touch(e)
  /\ stored' = IF e \in stored THEN stored \ {e} ELSE stored \union {e}
  /\ UNCHANGED <<list, pages, fetch, error, due, missed, listFaults>>

-----------------------------------------------------------------------------
ListInit ==
  /\ list \in {"logs", "queues"}
  /\ stored \in SUBSET Entries
  /\ disturbed = {}
  /\ pages = <<>>
  /\ fetch = [Idle EXCEPT !.whole = TRUE]
  /\ error = FALSE
  /\ due = 0
  /\ missed = FALSE
  /\ listFaults = 0

ListNext ==
  \/ ReadTotal \/ ReadRows \/ Answer \/ AnswerLost
  \/ LoadMore \/ Focus
  \/ LogRefresh \/ LogRefreshLost
  \/ \E e \in Entries : InsertLog(e) \/ ChangeQueue(e)

-----------------------------------------------------------------------------
Scrolled == FlattenSeq([i \in DOMAIN pages |-> pages[i].rows])

(* Once the events are in and have been answered, the waterfall shows the  *)
(* first lines of the run, each once and none left out, down to where it   *)
(* offers to load more: lines that came late, before others that were      *)
(* already paged past, and the two queries of a page make no difference    *)
(* (listJobLogs; page.tsx: getNextPageParam).  What it leaves out on       *)
(* purpose: an event that was lost, that came while the first page was     *)
(* being read, or whose refetch was given up for the next page.            *)
LogsShownInOrder ==
  (Logs /\ pages # <<>> /\ ~Fetching /\ ~error /\ due = 0 /\ ~missed)
    => /\ IsPrefix(Scrolled, Listed(stored))
       /\ NextParam(pages) = 0 => Scrolled = Listed(stored)

(* Who has scrolled the selector to its end has seen every queue that was  *)
(* there all along, whichever queues came and went between two pages       *)
(* (api/queues/name: gte(name, cursor)).                                   *)
SelectorShowsAll ==
  (~Logs /\ pages # <<>> /\ NextParam(pages) = 0) => stored \ disturbed \subseteq ToSet(Scrolled)

=============================================================================
