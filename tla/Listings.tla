------------------------------- MODULE Listings -------------------------------
(***************************************************************************)
(* How a page of a long table is read: listJobs (packages/core/src/jobs.ts)*)
(* and listQueues (packages/core/src/queues.ts).  A cursor holds the sort  *)
(* columns of the first or last row of a page; the next page is what       *)
(* sorts after it, the previous one what sorts before.                     *)
(*                                                                         *)
(* Rows and queues are numbered in the order of (jobId, id) and of name.   *)
(***************************************************************************)
EXTENDS OrderBy, SequencesExt

CONSTANTS
  Rows,      \* the rows job_runs may come to hold
  Created,   \* their createdAt, which several rows may share
  QueueOf,   \* their queue
  Queues,
  Pressure,  \* of each queue: its pressure over the hours that are complete
  Limit      \* rows of a page

ASSUME ListingsAssumption ==
  /\ Rows \subseteq Nat \ {0} /\ Queues \subseteq Nat \ {0}
  /\ IsFiniteSet(Rows) /\ IsFiniteSet(Queues)
  /\ Created \in [Rows -> Nat] /\ QueueOf \in [Rows -> Queues]
  /\ Pressure \in [Queues -> Nat]
  /\ Limit \in Nat \ {0}

None == "none"

(* null; ids start at 1.                                                   *)
NoCursor == [id |-> 0]

(* durationMs is 0 where it is not known yet: every use coalesces it.      *)
Absent == [status |-> None, duration |-> 0]

Present(table) == {r \in Rows : table[r] # Absent}

-----------------------------------------------------------------------------
(* What is listed.                                                         *)

JobItems(table, q) ==
  {[id |-> r, duration |-> table[r].duration, status |-> table[r].status] :
     r \in {p \in Present(table) :
              /\ q.queue \in {0, QueueOf[p]}
              /\ q.status \in {"all", table[p].status}}}

Count(table, queue, status) ==
  Cardinality({r \in Rows : QueueOf[r] = queue /\ table[r].status = status})

QueueItems(table, q) ==
  {[ id          |-> queue,
     waitingJobs |-> Count(table, queue, "waiting"),
     activeJobs  |-> Count(table, queue, "active"),
     pressure    |-> IF q.sortBy = "pressure" THEN Pressure[queue] ELSE 0 ] : queue \in Queues}

-----------------------------------------------------------------------------
(* The order of the list.                                                  *)

LexLess(a, b) ==
  \E i \in DOMAIN a : a[i] < b[i] /\ \A k \in 1..(i - 1) : a[k] = b[k]

SortColumns(q, item) ==
  IF q.sortBy = "durationMs"
    THEN <<item.duration, Created[item.id], item.id>>
    ELSE <<Created[item.id], item.id>>

JobBefore(q, a, b) ==
  IF q.desc THEN LexLess(SortColumns(q, b), SortColumns(q, a))
            ELSE LexLess(SortColumns(q, a), SortColumns(q, b))

(* Ties are in the order of the name, whatever the direction.              *)
QueueBefore(q, a, b) ==
  \/ IF q.desc THEN a[q.sortBy] > b[q.sortBy] ELSE a[q.sortBy] < b[q.sortBy]
  \/ a[q.sortBy] = b[q.sortBy] /\ a.id < b.id

Before(q, a, b) == IF q.page = "runs" THEN JobBefore(q, a, b) ELSE QueueBefore(q, a, b)

Items(table, q) == IF q.page = "runs" THEN JobItems(table, q) ELSE QueueItems(table, q)

-----------------------------------------------------------------------------
(* Mutant of Beyond: rows as old as the cursor's are taken for shown.      *)
BeyondInTime(q, item) ==
  \/ q.cursor = NoCursor
  \/ /\ q.page = "runs" => Created[item.id] # Created[q.cursor.id]
     /\ IF q.dir = "next" THEN Before(q, q.cursor, item) ELSE Before(q, item, q.cursor)

Beyond(q, item) ==
  \/ q.cursor = NoCursor
  \/ IF q.dir = "next" THEN Before(q, q.cursor, item) ELSE Before(q, item, q.cursor)

Nearer(q, a, b) == IF q.dir = "next" THEN Before(q, a, b) ELSE Before(q, b, a)

(* LIMIT of the rows beyond the cursor, the nearest first.                 *)
Fetched(table, q, limit) ==
  LET items == {item \in Items(table, q) : Beyond(q, item)}
      sorted == InOrder(items, {p \in items \X items : Nearer(q, p[1], p[2])})
  IN  SubSeq(sorted, 1, IF Len(sorted) < limit THEN Len(sorted) ELSE limit)

(* One row more than the page tells whether there is another one.          *)
ReadPage(table, q) ==
  LET rows == Fetched(table, q, Limit + 1)
      hasExtra == Len(rows) > Limit
      kept == IF hasExtra THEN Front(rows) ELSE rows
      items == IF q.dir = "prev" THEN Reverse(kept) ELSE kept
      hasNewerPage == IF q.dir = "next" THEN q.cursor # NoCursor ELSE hasExtra
      hasOlderPage == IF q.dir = "prev" THEN q.cursor # NoCursor ELSE hasExtra
  IN  [ items |-> items,
        next  |-> IF hasOlderPage /\ items # <<>> THEN Last(items) ELSE NoCursor,
        prev  |-> IF hasNewerPage /\ items # <<>> THEN Head(items) ELSE NoCursor ]

=============================================================================
