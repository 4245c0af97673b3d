# Formal model of Better Bull Board

TLA+ modules for the parts of Better Bull Board where order, failure and concurrency decide
whether the board shows the truth: from the event of a BullMQ worker to the row in Postgres and on
to the page in a browser. TLC checks small instances; TLAPS proves the central guarantees for
every value of the constants.

Paths below are relative to the repository; `ingest` stands for `apps/ingest/src`, `client` for
`packages/client/src`, `core` for `packages/core/src`, `app` for `apps/app/src`.

## 1. The system

```
 BullMQ worker (client) --XADD--> Redis streams --XREADGROUP/XAUTOCLAIM--> ingest replicas
   processJob, waiting master,    bbb:worker:jobs, bbb:worker:logs            |  upsert, insert
   logger, cancellation                                                       v
 BullMQ in Redis  <--getJobs, getState-- reconciler, queue poller --upsert--> Postgres
        ^                                                    rollups, tags,   ^  |
        |                                                    retention -------+  |
        +---- pause, resume, delete, cancel, replay (core) ----- app, MCP -------+-- queries
                                                                  |
 browser <--WebSocket, throttled-- ingest <--Redis pub/sub "refresh"
   tables, lists, form, dashboard
```

App and ingest are both replicated; nothing but Redis (streams, locks, pub/sub) and Postgres is
shared between replicas.

| Component | State it keeps | Operations | What is hard | What makes it correct |
|---|---|---|---|---|
| Job event producers (`client/worker.ts`, `client/lib/job-events.ts`) | the worker's copy of the job | `processJob` emits *active*, runs the job, emits *terminal*; the master's handler emits *waiting* | three awaits between looking at the job and XADD; stalled jobs run twice; XADD may throw | a late or repeated event never makes up or undoes the end of a job |
| Waiting-event master (`client/lib/master.ts`, timer in `worker.ts`) | a Redis lock per queue; a listener | acquire, renew, give up; subscribe, unsubscribe | GET and PEXPIRE are separate calls; a timer works across awaits | one master that listens, in the end |
| Log producers (`client/lib/logger.ts`, `log-events.ts`, `index.ts`) | log clock, publishes under way | publish, console relay, flush | two loggers, process exit, a console that is patched once | order; nothing dropped at the end of a job |
| Job cancellation (`client/lib/cancellation.ts`, `core/mutations.ts`) | a pub/sub channel per job id | ping, pong, throw; remove a waiting job | time-outs, the job's own progress, several callers | a job that was told stops; one that was not is not marked |
| Stream ingestion (`ingest/sync/job-stream.ts`, `log-stream.ts`, `stream-consumers.ts`) | Redis: stream, group cursor, pending list; replica: its batch | start-up, claim, read, upsert, ack, delete | crashes between steps, a claim that races a slow owner, clean-up of old consumers | an event is acknowledged and deleted only once stored; every event is stored |
| Row format and upsert (`ingest/sync/job-format.ts`, `job-upsert.ts`) | `job_runs` | format, deduplicate, merge, skip old rows | reordered, repeated, late events | terminal rows and tags survive |
| Reconciler (`ingest/repeats/reconcile-jobs.ts`) | where it is in its tick; a Redis lock per queue | list, load, read states, upsert; look stale rows up, rewrite them or mark them unknown | every value is stale by the time it is written | it repairs, and never harms |
| Log buffer (`ingest/sync/log-buffer.ts`) | `job_logs`, buffered lines | persist, buffer, resolve | a row that appears, or expires, meanwhile | every line reaches its job |
| Queue poller (`ingest/repeats/queues.ts`) and mutations (`core/mutations.ts`) | `queues`, `job_schedulers` | scan, poll, pause, resume, delete | a poll and a mutation that overlap; a scan cut short | the board ends up agreeing with BullMQ |
| Maintenance (`ingest/repeats/*.ts`), `ingest/lib/distributed-lock.ts` | rollups, tags, Redis locks | hourly rollup, tag refresh, retention | replicas that die with the lock | rollups equal what they summarise; old runs stay gone |
| Live updates (`ingest/lib/websocket-server.ts`, `ingest-events.ts`, `app/hooks/use-websocket.tsx`) | sockets, throttle timers, subscriptions, cached queries | publish, broadcast, reconnect, invalidate | the last event of a burst, reconnects, fetches under way | a page catches up with the tables |
| MCP authorization (`app/lib/mcp/oauth.ts`), MCP server (`packages/mcp`) | clients, codes, tokens | register, approve, exchange, refresh, revoke, call a tool | two exchanges at once, roll-backs | a code is used once, a rotated token is dead, rights do not grow |
| Tables of runs and queues (`app/app/runs/_components`, `app/app/queues`), `core/jobs.ts`, `core/queues.ts` | URL, cursors, selection, cached pages | sort, filter, next, previous, pause, bulk actions | rows come, go and move between two pages | a walk misses nothing; previous goes back |
| Lists that grow (`app/app/runs/[id]`, queue selector) | pages read so far | fetch the next page, refresh | offsets and cursors over a list that changes | complete and in order in the end |
| Form that creates a run (`app/app/runs/create`) | fields of the form | select a queue, prefill, submit | answers that are late or cached | data of the queue selected |
| Dashboard and charts (`app/app/api/dashboard`, `app/app/api/queues/table`) | none | sum rollups and the present hour | the boundary between the two | each run is counted once |
| Schema, health server, migrations, rendering | - | - | - | - |

`PROJECT.json` lists the components with their status, and the hazards: every point of this code
where something can go wrong that a test would hardly reach, with the properties aimed at it or,
where there is none, the reason.

## 2. The modules

```
 DurableDelivery  abstract: what delivery promises
    ^ implemented by
 StreamIngestion  the consumer-group loop        StreamIngestionProofs (TLAPS)
    |
    | taken at its promise
    v
 JobRuns          format and merge of a row
    ^ EXTENDS
    |-- JobPipeline       workers, BullMQ, upserts, reconciler    JobPipelineProofs (TLAPS)
    |-- JobCancellation   callers, job processes, BullMQ, events   JobCancellationProofs (TLAPS)

 LogPipeline      lines of a job: process, stream, replicas, buffer   LogPipelineProofs (TLAPS)
 QueueBoard       poller, mutations and BullMQ    QueueBoardProofs (TLAPS)
 MasterElection   the waiting-event master and its subscription
 OAuthTokens      requests of the MCP clients     OAuthTokensProofs (TLAPS)

 LiveUpdates      tables, events, socket, page                    BrowserProofs (TLAPS)
 OrderBy   <--EXTENDS--  Listings  <--  WebTables  <--  CreateRun      is about both
           <--EXTENDS--  InfiniteLists  <--  BrowserTab  -->  CreateRun
 Maintenance  <--EXTENDS--  Dashboard             MaintenanceProofs (TLAPS)
```

`MC*` modules give constants their values for TLC where a `.cfg` cannot, and name symmetries.

### DurableDelivery

Three variables: the `log` of appended payloads, the ids `stored` in the database, the ids
`settled`, which nobody will be handed again. Storing may repeat; settling requires that the entry
is stored or cannot be parsed; in the end every entry is settled.

### StreamIngestion

One replica is a *process life*, because `instance.ts` draws a fresh UUID at start: a restarted
replica is another element of `Consumers` and never inherits its former pending list. All of
`Consumers` start `down`, so they may start together, overlap, or follow one another after a
crash.

| State | Code |
|---|---|
| `log`, `deleted` | the stream; an id is a position, `XDEL` puts it in `deleted` |
| `lastDelivered` | last-delivered-id of the group, `NoGroup` before `XGROUP CREATE` |
| `owner`, `idle` | the pending entries list, and which of its entries have passed `JOB_SYNC_PENDING_IDLE_MS` |
| `pc`, `batch` | where a replica is in `startJobStreamIngestion`, and the ids in its hands |
| `stale` | the consumers `cleanupStaleConsumers` has listed and is about to delete |
| `stored` | ids whose rows are committed |

Each Redis or Postgres call is an action: `EnsureGroup`, `FindStaleConsumers`, `DeleteConsumer`,
`EndCleanup`, `ClaimPending`/`ClaimNothing`, `ReadNew`/`ReadNothing`, `AckInvalid`, `DelInvalid`,
`Store`, `Ack`, `Del`. `Fail` is a call that throws (a call that takes effect and loses its reply
is that call followed by `Fail`); `Crash` is the death of the process. `log-stream.ts` has the
same control with another payload and another write; it is the same model.

`LiveLookStale` says what the Redis server counts as the idle time of a consumer. From 7.2 on it
is the time since the last command, and a live consumer sends one every five seconds. Before, it
is the time since the last *entry received*, so that an hour without events makes every live
consumer look stale. With `LiveLookStale = TRUE` TLC finds `SettledIsStored` violated: a consumer
that was idle when `XINFO CONSUMERS` listed it is handed an entry, its upsert fails, and
`DELCONSUMER` drops the entry with it.

### JobRuns

`getStatusFromSnapshot`, `bullStateToPersistedStatus`, `formatJobRun`, the deduplication within a
batch, and the merge of `onConflictDoUpdate` as operators. Of a job's JSON, two bits matter: is
`finishedOn` set, is `failedReason` non-empty. `startedAt`, `result`, `backtrace` and the other
plain columns behave like `finished`, the column that stands for them: they are overwritten.

### JobPipeline

| State | Code |
|---|---|
| `bull`, `notices` | BullMQ's record of a job (external), and its *waiting* queue events |
| `worker` | a worker's place in `processJob`, and its own copy of the job |
| `checking`, `sending` | the awaits of `onMessage`: after `getJob`, after `isWaiting` |
| `log`, `settled` | the stream, at the level of `DurableDelivery` |
| `jobRuns` | the table |
| `rec` | a reconciler's place in its tick, with what it has read so far |

`UpsertBatch` upserts any set of at most `BatchSize` unsettled entries and settles any part of it:
that is what `StreamIngestion` is shown to guarantee, whatever its replicas do. It covers batches
formed out of order (a claimed entry overtakes or is overtaken), repeated upserts, and the upsert
of a replica whose entry another one settles: of the two, the later one is taken as the settling
one. Upsert and settling are one step, because acknowledging touches nothing the rest of the model
reads.

Every read of the reconciler is a step: the ids, each job, each state, the rows, each lookup, each
write. A job may be added, promoted, picked up, finished or dropped between any two.

BullMQ is modelled from how this code uses it. `removeOnComplete`/`removeOnFail` is a choice per
job (`Removal`). A stalled job goes back to *waiting* or, past `maxStalledCount`, to *failed*,
with no event from any worker. The worker that lost it fails to move it and still emits its
report.

### LogPipeline

| State | Code |
|---|---|
| `proc` | a child process: its job, the log clock (`lastTs`, `counter`), the set of publishes its console relay waits for |
| `pending`, `stream`, `sent` | XADDs without an answer; the stream; all it ever had |
| `row` | does the job's row exist, has it expired |
| `sync` | a replica's place in `persistLogEvents`: rows it resolved, chunk it inserts, lines it buffers |
| `buffer`, `solver`, `lock` | `job_log_buffer`, a replica's place in `resolveBufferedJobLogs`, and its Redis lock |
| `jobLogs` | `job_logs` with its unique key (job, ts, seq) and its foreign key |

Publishing, reading the ids of the rows, each INSERT of a chunk, each DELETE and the lock's expiry
are steps. `failed` is a ghost: the lines whose XADD has failed, which the code logs and gives up.
The patch of the console happens once per process, with the set of the first job: this
is why `FirstJobFlushed` speaks of the first job. The order of XADDs of one process, which its
lines do not depend on, is left open.

### QueueBoard

`tick` is a replica's place in `ingestQueuesUnsafe` (scan, rows of missing queues, queues, end),
`task` its place with each queue (isPaused, select, insert or update, list schedulers, prune,
upsert), `user` a user's place in `pauseQueue`, `resumeQueue` and `deleteQueue`. A scan reads the
queues part by part while they come and go, and may stop early. A write finds the row as it then
is: `born` tells two rows of one name apart. `deepEqual` of `utils.ts` is modelled as it is,
including what it says of two dates (`Ends`).

### OAuthTokens

`requests` holds what a request has read so far. The exchange of a code and the refresh of a token
are transactions: `ClaimCode`/`ClaimToken` is the conditional UPDATE, which locks the row and waits
for a lock another transaction holds; `CommitExchange`/`CommitRefresh` issues the new token and
commits; `RefuseExchange` and `RollBack` end it without effect. Approval, revocation and a call of
the MCP server are single statements. Tokens are their own secrets and challenges their verifiers.

### MasterElection

`owner` is the Redis key, `election` a worker's place in `onlyMaster` (GET, then PEXPIRE or SET NX),
`sub` the variables of `waitingJobsEvent`. The timer subscribes and unsubscribes across awaits, so
several openings may wait at once (`MaxOpening`); one closing ends within the two seconds to the
next check. A handler attached to a listener that has become null kills the process.

### JobCancellation

`call` is a caller's place in `cancelJob` (the job, its state, removing it or shaking hands with its
process until it answers or time is up, the row, its update), `child` the process of a job (`heard`
once it is told to stop), `pings` and `pongs` the messages under way. The events the worker emits go
through `stream` to `jobRuns`, with the merge of `JobRuns`. `Replay` is `replayJob`.

### LiveUpdates

| State | Code |
|---|---|
| `version` | the rows, counted by their changes |
| `unsent`, `channel`, `server`, `throttle` | publishes under way; Redis pub/sub; the server's subscription; `sendThrottled` per key |
| `link`, `wire` | the socket with its attempts and its retry timer; messages on it |
| `queries` | per query: what is shown, and the fetch under way with what it has read |
| `unreached` | ghost: the queries an event has not reached since they were last read, because it was lost or sent while not connected, or whose fetch has failed |
| `swallowed` | ghost: the queries an event did reach, but during their first fetch after that had read the tables: the query client cancels a fetch only if there is something to go back to |

### OrderBy, Listings, WebTables, CreateRun, InfiniteLists, BrowserTab

`OrderBy` is ORDER BY: the element at place *i* is the one that *i* - 1 others come before. (The
library's `SetToSortSeq` rests on TLC's `SortSeq`, of which TLAPS knows no definition.)
`Listings` is `listJobs` and `listQueues` as operators: sort columns, the comparison with a cursor,
and `ReadPage` with its next and previous cursors. `WebTables` is a tab on one of the
tables: the URL, its debounced copy, the history of cursors in a ref, the query client's cache,
the selection and the bulk actions. `CreateRun` adds the form with the effect that prefills it;
`InfiniteLists` is a list that is read page by page, by offset (logs) or by name (selector);
`BrowserTab` is a tab that is on any of them. `way`, `left`, `touched`, `disturbed` and `missed` are
ghosts that only properties read: the pages walked from a first page, the URLs left forward on
/runs wherever the walk began, the rows and entries that changed, the events that led to no fetch.
`left` starts anew where the code's history does: when the table is mounted and when the filters
change. `way` ends where a walk does: on /queues *previous* cuts the pages before the
present one anew, so what was walked before is no longer what the buttons lead back to
(`TurnBack`).

### Maintenance, Dashboard

Time goes by half hours. `due` are the timers that have fired, `phase` says how far a replica's
hourly timers are from the full hour, `lock` is the key a dead replica leaves behind and until when
it may live. `Run`, `Skip` and `Fail` are what becomes of a task that is due; `Create`, `Upsert` and
`Written` a run whose event is on its way, with the retention cut-off asked before the row is
written.

A lock that a cron tick takes on the half hour (55 minutes for rollups, 29 for tags) is gone just
before the next tick that wants it. Two locks are taken at any other minute (`AtAnyMinute`): that of
retention (30 minutes, `setInterval` from whenever the process started) and that of the refresh of
tags at start-up (`fresh` are the replicas that were started in this half hour). These reach into
the next half hour, where they may make any task skip, or expire before it (`Expire`), because
within a half hour the order of minutes is open.

`spoiled` is a ghost: the tasks that failed, were missed, or may meet such a lock, and when.

`Dashboard` is the run graph of the summary and the chart of a queue as functions of the tables. A
request takes its dates in the half hour `at` and sends its statements one by one (`Promise.all`, no
transaction); so the operators say what *one* statement counts in the state in which it is carried
out, which may be later than `at` (`Requests`). Nothing is said of two statements of one request
together, except what holds in whatever states they are carried out.

## 3. The runs

| Run | Instance | Shows |
|---|---|---|
| `stream_ingestion` | two lives, two entries in batches of two, fair | nothing is acknowledged (`SettledIsStored`) or deleted (`DeletedIsDone`) before it is stored; clean-up drops no pending entry (`CleanupDropsNothing`); every step implements `DurableDelivery` (`DeliversDurably`); every entry is settled in the end (`EventuallySettled`) |
| `pipeline` | a job kept or dropped, two workers, four events, one fault | `TypeOK`; a terminal row tells how the job ended (`TerminalIsTrue`) and stays terminal (`FinishedStaysFinished`); *unknown* means BullMQ has dropped the job (`UnknownMeansGone`); tags survive (`TagsSurvive`) |
| `pipeline_liveness` | a job kept, tried twice, three events, fair | `FinishedJobsSettle`: the row of a finished job comes to say so even if its last event is never sent |
| `reconcile_mark` | a job dropped when it ends | violates `ReconcileOnlyRepairs` (section 4) |
| `logs` | a process with two runs of one job, two lines, chunks of one, one fault, fair | `TypeOK`; a line that left the stream is in `job_logs` or the buffer (`LogsAreKept`) and arrives (`LogsArrive`); no line for a job that is gone (`NoneShownForGoneJobs`); when the first job of a process ends each of its lines has reached the stream or its XADD has failed (`FirstJobFlushed`) |
| `queue_board` | one queue with a scheduler, two replicas, a user, one change, one fault, fair | ticks that are in time do not overlap (`OneTickInTime`); queues that are there keep their rows (`PresentQueuesKept`); the board comes to agree with BullMQ (`BoardSettles`) |
| `oauth` | two clients, a code, three tokens, two requests at once, one fault | one live token per approval (`OneLivePerGrant`); nothing is used up without a token for it (`SpentIsIssued`); rights never grow (`GrantKept`) |
| `master_election` | two workers, three faults, two subscriptions at once, fair | `ElectionSettles`: in the end one worker is master and listens, and no other |
| `cancellation` | a job of two attempts, two callers, three calls, one fault, fair | a job that was not told to stop is not marked failed (`UnheardNotFailed`); an answered cancellation ends the attempt it reached, and the job if that was its last (`CancelWorks`) |
| `live_updates` | two kinds of changes, one query, two changes, one fault, fair | a page that is behind is about to be told (`BehindOnlyForAWhile`) and catches up (`PageCatchesUp`), unless an event was lost, sent while it was not connected or swallowed by a first fetch, or a fetch failed; the socket comes to rest (`ConnectedOrGaveUp`) |
| `browser_tab` | tables of five runs or three queues in pages of two, four clicks; lists of five entries; one change, one failure | a walk forward misses no row that stayed (`WalkShowsAll`); *previous* goes back to the page last left forward, if that was reached forward (`PreviousComesBack`); a paused table is frozen (`FrozenWhilePaused`); logs are in order (`LogsShownInOrder`), the selector is complete (`SelectorShowsAll`), the form has data of its queue once the queue's last run is known (`DataIsForTheQueue`) |
| `dashboard` | two replicas that start at any minute, a job, three hours, one fault | rollups and tags are complete in time (`HoursAreCounted`, `TagsAreListed`); expired runs stay gone (`OldRunsStayGone`); the statement of the run graph counts each run once, in its place, and misses none of a rolled-up hour (`RunGraphCountsOnce`); so do the two statements of a queue's chart, on either side of the present hour (`ChartCountsOnce`) |

### Bounds, and why they are enough

- `Consumers`: two lives have a crash, a restart under a new name, and a replica that cleans up or
  claims what the other one holds. Two entries with `BatchSize` 2 give batches of one and two,
  mixed well-formed and malformed, and a claim that splits a batch. No symmetry, because of
  liveness. What is proved needs no bound.
- `MaxEntries` of `JobPipeline`: *waiting*, *active* and *terminal* of one job, and one event more
  of a second worker or a second *waiting*. When the bound is reached a worker stands still, like
  one whose XADD hangs; nothing is assumed of workers, so this weakens no result. `BatchSize` 2:
  the deduplication within a batch needs two rows of a job. One job: rows are keyed by job, and
  no operation relates two of them except that they share a batch or a tick, of which one job's
  part is modelled. One reconciler: the lock keeps it alone while a tick is shorter than two
  intervals.
- `MaxFaults` (`MaxLosses` in `LiveUpdates`): one stalled job, dead process, failed statement or lost message, wherever it hurts
  most; three where two of them are needed to get two workers out of step and a third to bring
  them back (`MasterElection`).
- `LogPipeline`: two runs of a job in one process, because its console is patched in the first of
  them; two lines in batches of two and chunks of one, so that a batch may fail half way and a
  buffer be read while it grows; one `MaxClock` tick, so that lines share a millisecond or do not.
- `QueueBoard`: two replicas that may overlap once a lock has expired, and a user whose mutation
  takes two steps between theirs; a queue may also be there or not at the start, with any
  scheduler. With two queues, tasks of a replica differ in nothing but their rows.
- `OAuthTokens`: three rows of tokens for one code give a chain of two refreshes, or two requests
  that race for one token; the second client is the one that tries what is not its own. A
  time-to-live of one and a clock of one give a code or token that has expired or has not.
- `MasterElection`: `MaxOpening` 2 lets a second subscription start while the first is not ready.
- `JobCancellation`: two callers and three calls give two cancellations at once and a replay; two
  attempts give a job that is cancelled and retried, and one whose last attempt is cancelled.
- `LiveUpdates`: two kinds of changes that concern one query have a throttle each, so that the
  events of a burst leave in another order than they came; `MaxAttempts` 1 gives up at once.
- `BrowserTab`: five rows in pages of two make three pages, with two rows that share their sort
  key on a page boundary; four clicks walk to the end and back by two pages, or change sort,
  filter or page size on the way. Two of five entries of a list come or go.
- `Dashboard`: `MaxTime` 4 half hours go from before one full hour to after a second one, with a
  retention of an hour, so that a job is counted, listed, deleted and may come back late; one fault
  of either replica leaves a lock in the way of the other. `Periods` 4 and 8 with a `LongPeriod` of 8
  and a `Day` of 4 are drawn by the hour and by the day. `MaxWait` 1 lets statements be carried out
  in the hour after their request.

Deadlock is checked, except in `logs`, `cancellation`, `browser_tab` and `dashboard`: a process
has printed its lines, a call has returned, a user has clicked, three hours are over, and what is
modelled may really stop there. `pipeline`, `oauth` and `dashboard` use symmetries of sets whose
members differ in name only; runs with liveness use none.

`TypeOK` is checked in `pipeline` and `logs`, where a mutant shows that it can fail for a reason of
the code. In the other modules it is not checked by a run: in `StreamIngestion`, `QueueBoard`,
`OAuthTokens`, `JobCancellation`, `LiveUpdates` and `Maintenance` it is proved, in `MasterElection`
it documents the state.

### Fairness

- `StreamIngestion`: the loop of a live process goes on (`WF` of `Step`); thirty seconds pass
  (`WF` of `BecomeIdle`); and the same kind of call is not refused for ever (`SF` of receiving, of
  the upsert, of acknowledging), although any call may fail any number of times. At least one life
  is left running, which is what the orchestrator is for.
- `JobPipeline`: entries go on being upserted *and settled*, which is what `EventuallySettled` and
  `SettledIsStored` say of the replicas; the reconciler's `setInterval` keeps firing. **Nothing**
  is assumed of BullMQ, of workers, or of the master: a worker may die before its last event,
  which is what reconciliation is for.
- `LogPipeline`: replicas go on reading the stream and resolving the buffer on their timer, and
  Redis drops a lock past its TTL. Nothing is assumed of the process that prints.
- `QueueBoard`: the timer of every replica goes on, mutations end, Redis drops a lock past its
  TTL. Workers, users and what fails are free.
- `MasterElection`: timers and commands of a live worker go on, Redis drops the key of one that is
  gone, a dead process is started again.
- `JobCancellation`: events are ingested, a process that starts gets to listen, hears what it is
  sent and then throws, a call goes on. A run of a job need not end.
- `LiveUpdates`: everything but the user, who need not look at the window.

Two of these runs leave a case out on purpose. In `logs` every job may get a row (`Rowless = {}`):
with `LogsArrive` a job that never does can keep the lines of others waiting (section 4). And the
tasks of `Maintenance` end within the TTL of their lock; work that outlives it is in `QueueBoard`.

`MaxFaults` bounds what may fail; a liveness property says what holds once it no longer does.

## 4. Findings

**The reconciler overwrites finished rows** (`ingest/repeats/reconcile-jobs.ts:109`, run
`reconcile_mark`). The row is selected as non-terminal; the job ends, its *terminal* event is
upserted, BullMQ drops the job; `getJob` finds nothing; the unconditional UPDATE turns *completed*
into *unknown*, for good. `README.md:24` says that stale rows are repaired.

Other weaknesses break nothing that the repository promises in so many words, and are listed among
the hazards with a note. Each can be seen in a model by giving a constant another value:

| Weakness | Set |
|---|---|
| Before Redis 7.2, clean-up may delete a live consumer together with an entry it was just handed (`stream-consumers.ts`) | `LiveLookStale = TRUE` |
| A failure with an empty message is recorded as completed; a success that carries the reason of an earlier attempt as failed (`job-format.ts`) | `ReasonTellsOutcome = FALSE` |
| Within a batch the last event of a job wins, even if it is older news; between batches an older event clears `finishedAt` and the result of a finished row, whose status alone is protected (`job-upsert.ts`) | any `JobPipeline` |
| Two processes that log for one job in the same millisecond use the same place in its log, and one line is dropped (`logger.ts`) | two `Procs` |
| Buffered lines of a job that never gets a row keep the head of the buffer (`log-buffer.ts`) | `Rowless # {}` |
| A changed end date of a scheduler is never written, because `deepEqual` finds any two dates equal; two queues with a scheduler of one name take its row from each other (`utils.ts`, `queues.ts`) | two `Ends`; two `Queues` |
| A cancellation reaches every job of that id, of whatever queue (`cancellation.ts`) | two `Queues` |

These are in the models as they are, and the properties say so in their statements:

| Weakness | Where |
|---|---|
| A cancelled job with attempts left is retried, because `CancellationError` is no `UnrecoverableError`; its row says *failed* until the job ends for good (`cancellation.ts`, `mutations.ts`) | `CancelWorks` speaks of the attempt; of the job only if it was the last one |
| An event that comes when the first fetch of its query has read the tables and not ended is swallowed, although the page is connected (`use-websocket.tsx`) | `swallowed`, excused in `BehindOnlyForAWhile` and `PageCatchesUp` |
| A queue without runs leaves the data of the queue selected before in the form, under the words that it was prefilled from this one (`create/page.tsx:59-68`, `127-128`) | `DataIsForTheQueue` says nothing of such a queue |
| *Previous* keeps cursors but no directions: a page that was reached backwards, or opened with such a URL, is read forward when one comes back to it, which is another page (`runs-table.tsx:151-160`) | `PreviousComesBack` asks for a page reached forward |
| The lock of a replica that dies in retention, or in its first refresh of tags, makes the task of the next half hour skip; an expired run may stay for an hour longer (`clear-data.ts:19`, `job-tags.ts:66`) | `spoiled`, in `OldRunsStayGone` and `TagsAreListed` |
| The three statements of a summary may see three states of the rollups, so that its figures disagree for a moment (`summary/handler.ts:175-179`) | nothing is stated of them together |
| A run that is completed after its hour was rolled up stays counted as not completed (`dashboard-rollups.ts`) | `inHourDone`, in `HoursAreCounted` and `ChartCountsOnce` |

## 5. Proofs

TLAPS checks the following for every value of the constants that the named assumptions allow.

`StreamIngestionProofs` (assumption `IngestionAssumption`):

| Theorem | Statement | Assumes |
|---|---|---|
| `TypeCorrect` | `Spec => []TypeOK` | |
| `DeletedOnlyWhenDone` | `Spec => []DeletedIsDone` | |
| `AcknowledgedIsStored` | `Spec => []SettledIsStored` | `~LiveLookStale` |
| `CleanupIsHarmless` | `Spec => CleanupDropsNothing` | `~LiveLookStale` |
| `ImplementsPromise` | `Spec => DeliversDurably` | `~LiveLookStale` |

The argument is a tower of inductive invariants, each `Init => I` and `I /\ [Next]_vars => I'`:

- `TypeInv` adds to `TypeOK` that the group exists once a replica is past start-up. Without it a
  replica could move a cursor that is not there.
- `DoneInv` adds what a replica's place in the loop says of its batch: nothing malformed is left
  from `store` on, all of it is stored from `ack` on, all of it is settled at `del`.
  `DeletedIsDone` alone is not inductive, because `Del` trusts these facts about its batch. They
  survive the other replicas because `Settled` and `stored` only ever grow (lemma `SettledGrows`),
  which needs that a claim takes pending entries only.
- `StoredInv` adds that whoever is on a clean-up list is dead and has nothing pending. That fact
  is stable because nothing is ever delivered to a dead process, and it is exactly what
  `LiveLookStale` breaks. Then `Settled` grows by acknowledgement only (lemma
  `SettledOnlyByXack`), and what is acknowledged is stored.

`ImplementsPromise` maps each step to a step of `DurableDelivery`, under `StoredInv`: `Xadd` to
`Append1`, `Store` to `StoreSome`, acknowledgements to `SettleSome`, the rest to stuttering.
`DeletedOnlyWhenDone` needs no assumption about Redis: clean-up may then lose an entry, but XDEL
never reaches it.

`OAuthTokensProofs` (assumption `OAuthAssumption`):

| Theorem | Statement |
|---|---|
| `TypeCorrect` | `Spec => []TypeOK` |
| `OneLiveToken` | `Spec => []OneLivePerGrant` |
| `NothingBurnt` | `Spec => []SpentIsIssued` |
| `GrantsDoNotGrow` | `Spec => []GrantKept` |

- `TypeInv` adds to `TypeOK` that a request has found its code or token in the table.
- `LockInv` adds what row locks are for: a transaction that has claimed a code or a token finds it
  unchanged when it commits, and is alone with it (`CodesHeld`, `TokensHeld`); tokens exist only
  for codes that are used (`Backed`).
- `TokensInv` is both properties of the tokens together, because neither is inductive alone: the
  one live token of a code is the one that nothing has replaced.
- `KeptInv` adds that every row still says what its code said, and that the tool a request is in
  has the scope of its token.

`QueueBoardProofs` (assumption `BoardAssumption`):

| Theorem | Statement |
|---|---|
| `TypeCorrect` | `Spec => []TypeOK` |
| `OneTick` | `Spec => []OneTickInTime` |
| `QueuesKept` | `Spec => PresentQueuesKept` |

- `LockInv`: who polls and is not late holds the lock, and who is about to delete rows has seen
  every queue that was there throughout its scan. The release of a late replica is harmless,
  because it compares the owner first.
- `TypeInv` adds the types, of which the tables are the part that takes an argument: a scheduler's
  row names the present row of its queue, because deleting the one takes the other along and a
  write looks for it (`Referred`); and only schedulers that were listed are written (`Listed`).

`JobPipelineProofs` (assumption `PipelineAssumption`):

| Theorem | Statement | Assumes |
|---|---|---|
| `TypeCorrect` | `Spec => []TypeOK` | |
| `TerminalTrue` | `Spec => []TerminalIsTrue` | `ReasonTellsOutcome` |
| `FinishedStays` | `Spec => FinishedStaysFinished` | `ReasonTellsOutcome` |
| `UnknownGone` | `Spec => []UnknownMeansGone` | |
| `TagsKept` | `Spec => TagsSurvive` | |

`ReasonTellsOutcome` says that a finished job has a `failedReason` exactly if it failed. Without it
`TerminalIsTrue` is false: `JobPipeline.cfg` with the constant FALSE shows it.

- None of this is inductive by itself: a row is made of a snapshot that some process took long
  ago. `Inv` therefore says that everything under way is true (`Tells`): the copy of every worker,
  every event at the master, every entry of the stream, every snapshot and row a reconciler holds
  says that its job has finished only if it has, and then how.
- These facts are stable because the end of a job is (`Moves`): once BullMQ has an outcome it keeps
  it, and a job that is removed stays removed (lemma `EndsStayTrue`). So the order, the age and the
  number of deliveries do not matter.
- A reconciler looks a job up in one step and marks the row in another. What it holds at `mark` is
  a job that was there once, since it has a row, and was gone: gone for good.
- Its first lemmas, about `JobRuns`, supply what the code of the row does with these truths: a formatted row ends a
  job only if its state or snapshot does, of a batch the latest row of each job is taken, and a
  merge makes up no status, takes no terminal one back and keeps tags.

`LogPipelineProofs` (assumption `LogAssumption`):

| Theorem | Statement |
|---|---|
| `TypeHolds` | `Spec => []TypeOK` |
| `FirstJobIsFlushed` | `Spec => []FirstJobFlushed` |
| `ShownJobsHaveRows` | `Spec => []NoneShownForGoneJobs` |
| `EveryKeyIsKept` | `Spec => []KeysAreKept` |
| `LinesOfOneProcessAreKept` | `Spec => [](OneProcessPerJob => LogsAreKept)` |

- `ProcInv`: in its first job a process awaits all of its own lines, each of them is on its way, was
  sent or has failed, and the log clock is not ahead of the wall clock.
- `KeptInv` follows a line from the stream to the table. Before the ACK every line of a batch is
  kept, that is in the buffer or in job_logs under its key (`Handled`). Before a resolver deletes
  rows of the buffer each of them is listed (`MovedOn`). That is stable although the lock may run
  out and two resolvers may have the same rows: what is listed stays listed until its job expires,
  and a resolver deletes only rows it has read.
- That is about keys. Two lines of one key are one to the unique index, so `LogsAreKept` needs
  that lines differ in their keys. `ClockInv` proves it of the log clock of one process, however
  many lines a millisecond has: none printed is after its last place, and no two share one.
  `OneProcessPerJob` is needed: attempts of one job in two processes can share a key (a hazard
  no property covers).

`BrowserProofs` (assumptions `LiveUpdatesAssumption`, `ListingsAssumption`,
`WebTablesAssumption`, `CreateRunAssumption`, `InfiniteListsAssumption`):

| Theorem | Statement |
|---|---|
| `TypeHolds` | `LiveSpec => []TypeOK` |
| `BehindIsTold` | `LiveSpec => []BehindOnlyForAWhile` |
| `DataFitsTheQueue` | `BrowserSpec => []DataIsForTheQueue` |
| `PausedPageFrozen` | `BrowserSpec => FrozenWhilePaused` |
| `WalkMissesNothing` | `BrowserSpec => []WalkShowsAll` |
| `PreviousUndoesNext` | `BrowserSpec => PreviousComesBack` |
| `SelectorLosesNone` | `BrowserSpec => []SelectorShowsAll` |
| `WaterfallLosesNone` | `BrowserSpec => []LogsShownInOrder` |

They hold for any number of rows, queues, lines, clicks and failures, and for every size of a page.

- `TypeOK` of the live updates has the part of the throttle that takes an argument: an event is
  pending exactly while its timer is set (`Timed`), so no pending event is forgotten.
- `BehindInv` adds `FetchInv`: a query shows no more than its last fetch read, which read no more
  than there is. Then each step either leaves why a query is told (`Told`) or replaces it: a change
  by the event published, an event received by a fetch asked for, a fetch that read too early by
  the event that came after it, or, in a first fetch, by `swallowed`.
- `FormInv`: an answer is kept under the queue it was asked for (`Answers`), the effect reads the
  answer of the queue in the form, and data of a run is of the queue it was put there for
  (`RunIsOfQueue`). So it does not matter that answers come late or in another order. What the queue
  before left stays only while the selected one has no answer, or no run.
- `PausedInv`: nothing that is on show is being fetched while the page is paused. The frozen copy
  has a key of its own; bulk actions and answers write under other keys.
- `TabInv` is behind `WalkShowsAll`. `CacheInv`: every page read forward that the query
  client keeps has all rows that were never touched, from its cursor to where the next page starts
  (`Complete`). It survives every change of the table, because that only makes the set of untouched
  rows smaller, and this is why an old page of the cache does no harm. `WayInv`: each page of the
  way ends at the cursor the next one starts at, later cursors lie beyond earlier ones, and the
  history in the ref has the same cursors. Neither is enough alone: that a walk to the end shows
  every row follows because the rows are cut at the same cursors they are continued from. This
  needs that the order of the rows is total (lemmas on `LexLess`; the id breaks ties) and that
  sorting by rank gives every row one place (`SortsBy`).
- The proof failed at first on /queues. A walk of three pages, *previous* and again forward reads a
  page whose predecessor was cut elsewhere, and TLC found `WalkShowsAll`, as it was then, violated
  on an instance with three pages of queues. The code promises nothing there: the ghost `way` was
  wrong, not the program, and ends now as described in section 2.
- `LeftInv`: the history in the ref holds the cursors of `left`, URL by URL, and all of them are by
  the filters of the present one. It needs no first page to start from, which is why
  `PreviousUndoesNext` holds after a reload at a cursor as well.
- `ListInv` is `ListType` with one part per list. `SelectorInv`: the pages, and those of a fetch
  under way, have every steady name up to where they end (`Covers`), because a page is asked for
  by the name that comes next. `LogsInv`: as long as no event is missing, each page is the slice of
  the stored lines at its offset and starts where the one before it ends (`Chained`); appended, they
  are the first lines, in order. The lemmas on appending (`FlatIs` and those after it) and `UpTo`
  replace the induction that the library states with an operator.

`JobCancellationProofs` (assumption `CancellationAssumption`):

| Theorem | Statement | Assumes |
|---|---|---|
| `TypeHolds` | `Spec => []TypeOK` | |
| `FailedRowsWereTold` | as long as no process has died, a row says failed only if `ChannelTold` | |
| `TimedOutLeavesTheRow` | `Spec => []UnheardNotFailed` | an id belongs to one job |

- A job is `Told` if its process has heard that it is to stop, an attempt of it failed, or it is
  completed or removed; that is stable while no process dies (`Keeps`). `Inv` says that every
  answer on its way, every caller past the handshake, every event and every row that say failed go
  back to a job that is told.
- The handshake does not know jobs, only the channel, which is named after the id. So in general
  the job that was told is one of the same id (`ChannelTold`). With ids that belong to one job it
  is the job itself, and `UnheardNotFailed` follows; with two queues that share ids it is false,
  which is the hazard of the channel's name.

`MaintenanceProofs` (assumption `MaintenanceAssumption`: the jobs are finitely many; for the dashboard
`DashboardAssumption`: periods are whole days, and a day is whole hours):

| Theorem | Statement |
|---|---|
| `TypeHolds` | `Spec => []TypeOK` |
| `FullHoursCount` | `Spec => []HoursAreCounted` |
| `RecentTagsListed` | `Spec => []TagsAreListed` |
| `OldRunsAreGone` | `Spec => []OldRunsStayGone` |
| `GraphCountsEachOnce` | `Spec => []RunGraphCountsOnce` |
| `ChartCountsEachOnce` | `Spec => []ChartCountsOnce` |

- `LocksTell`: a lock without a replica is evidence of a task that was not done in this half hour,
  or that is counted as one that may meet it; it lasts into the next half hour at most, or, that of
  the rollups, through the hour, in whose second half none is due. So whoever skips a task because
  of a lock skips one that is in `spoiled` (lemma `RunOrSpoiled`). This is where the TTLs matter.
- `RowsKept`: no old run is being upserted, and what was stored in time is there until it is old.
- `HoursDone` and `TagsDone` are the properties with the replica that is about to do the task.
- `RunsGone`: each replica deletes on the half of the hour it was started in. While an old run is
  stored and retention is not spoiled, replicas whose half it is have it to do; if it was not
  spoiled in the half hour before either, no replica is left whose half that was, and one is up.
- `RollupsKept`: a rollup counts only runs that were created in its hour and queue, because creation
  times do not change. From it a sum over rows is the *number of the runs they count*
  (`SumCountsRuns`): no two rows share a run. This is what makes *once* more than an upper bound.
- The rest is about boundaries. Each time of the window has its place in the graph and in the chart,
  whether these go by hours or by days (`PlacesCover`, from `FloorFits`: `bucketFrom` is cut down to
  the interval, so the steps from it hit the buckets cut down alike); the rows of a place hold runs
  created there and no others (`RunsOfPlace`); a run of an hour that was rolled up is in its rollup
  (`SummarisedIsCounted`, from `HoursDone`). The two statements of a chart take rows and runs on
  different sides of the request's hour, which is fixed when the request comes; so it does not
  matter that a rollup may be committed between them.

Every safety invariant and action property of the runs is stated by a theorem. Only model-checked:

- all liveness, which needs fairness and ENABLED, and with it `MasterElection`;
- the finding's property, which the code violates.

## 6. Not modelled, and why

- Deadlock retries of the upserts and the chain of inserts within a process (`log-buffer.ts`):
  they repeat or delay a statement that had no effect.
- Which queues a reconciler's tick covers, its paging, and the LIMIT of the stale-row query; the
  expiry of the reconcile lock (one can set two `Reconcilers`); job ids that are used again.
- Retention is modelled with the rollups (`Maintenance`), not in `JobPipeline`, and cancellation
  and replay in `JobCancellation`: `TerminalIsTrue` speaks of jobs nobody cancels (`cancelJob`
  writes *failed* before BullMQ does) or replays.
- Queries: filters by text, tag and date, reading a single job. They select rows and keep no state.
- Web: rendering; the cancel button and the search of the selector; garbage collection of the
  query cache after five minutes; of the dashboard its durations, failures, pressure and rankings,
  which are sums over the same rows. `AUTO_DELETE_POSTGRES_DATA` is taken to be set.
- Statistics of a scan, shutdown hooks, log messages.
- Schema declarations beyond the keys and foreign keys the modules use, health server, migrations
  and remaining routes: I/O without a protocol of its own.
- Demo programs, and code nothing imports (`ingest/repeats/stalled.ts`, `ingest/channels/job.ts`).

## 7. What is left

- `MasterElection`: that at most one worker forwards events is not an invariant (a key may expire
  under a slow master); a bound on how long two can needs clocks the model does not have.
- `JobPipeline` takes the stream at its promise (`UpsertBatch`); that `StreamIngestion` keeps the
  promise is proved of `DurableDelivery`, not as one formula over both modules.
