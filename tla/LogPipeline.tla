----------------------------- MODULE LogPipeline -----------------------------
(***************************************************************************)
(* A line a job prints, from console.log to the table job_logs.  A child   *)
(* process of the worker numbers its lines and appends them to a Redis     *)
(* stream without waiting (packages/client: logger.ts, index.ts).  An      *)
(* ingest replica inserts the lines whose job has a row and buffers the    *)
(* others in Postgres; a resolver, under a Redis lock, moves them on once  *)
(* the row exists (apps/ingest/src/sync: log-stream.ts, log-buffer.ts).    *)
(*                                                                         *)
(* The stream is taken at DurableDelivery: an entry may be handed to any   *)
(* replica at any time until it is acknowledged.                           *)
(***************************************************************************)
EXTENDS Naturals, FiniteSets, FiniteSetsExt

CONSTANTS
  Jobs,
  Procs,         \* child processes; none restarts under its name
  Rowless,       \* jobs that never get a row: expired, or their events lost
  Replicas,
  Resolvers,     \* the replicas whose resolver is looked at
  StreamBatch,   \* JOB_LOG_SYNC_BATCH_SIZE
  BufferBatch,   \* JOB_LOG_BUFFER_BATCH_SIZE
  ChunkSize,     \* 500, the rows of one INSERT
  MaxClock,      \* bound on the time, in milliseconds
  MaxLogs,       \* bound on the lines of a process
  MaxCalls,      \* bound on the jobs a process is given
  MaxFaults,     \* bound on failed calls and dead processes
  NoJob, Nobody

ASSUME LogAssumption ==
  /\ Rowless \subseteq Jobs
  /\ {StreamBatch, BufferBatch, ChunkSize} \subseteq Nat \ {0}
  /\ {MaxLogs, MaxCalls, MaxFaults} \subseteq Nat /\ MaxClock \in Nat \ {0}
  /\ NoJob \notin Jobs /\ Nobody \notin Resolvers

VARIABLES
  clock,     \* Date.now() when the last line was printed
  proc,      \* each process: its place in patch(), its job, lastTs and counter
  pending,   \* lines whose XADD has not been answered
  failed,    \* and those for which it has failed
  sent,      \* every line the stream has had
  stream,    \* those not yet acknowledged and deleted
  row,       \* the row of each job in job_runs
  jobLogs,   \* job_logs
  buffer,    \* job_log_buffer: lines with the INSERT that brought them
  inserts,   \* the number of those INSERTs, which stands for created_at
  sync,      \* where the stream loop of each replica is
  solver,    \* where the resolver of each replica is
  lock,      \* bbb:job-log-buffer-resolver-lock
  faults

procVars == <<clock, proc, pending, failed>>
tables == <<jobLogs, buffer, inserts>>
vars == <<procVars, sent, stream, row, tables, sync, solver, lock, faults>>

(* A line; its text is the n-th line of process p.                         *)
Text == Procs \X (1..MaxLogs)

Line == [job : Jobs, ts : 1..MaxClock, seq : 0..MaxLogs - 1, text : Text]

(* Within a job the unique indexes of both tables tell lines apart by this. *)
Key(l) == <<l.job, l.ts, l.seq>>

Fault == faults < MaxFaults /\ faults' = faults + 1

-----------------------------------------------------------------------------
(* packages/client.                                                        *)

StartJob(p, j) ==
  /\ proc[p].at \in {"idle", "done"}
  /\ proc[p].calls < MaxCalls
  /\ proc' = [proc EXCEPT ![p].at = "run", ![p].job = j, ![p].calls = @ + 1]
  /\ UNCHANGED <<clock, pending, failed, sent, stream, row, tables, sync, solver, lock, faults>>

(* Mutant of NextSeq: the first line of a millisecond is counted too.      *)
SeqFromOne(p, now) == IF now = proc[p].lastTs THEN proc[p].counter + 1 ELSE 1

(* nextLogTimestamp                                                        *)
NextSeq(p, now) == IF now = proc[p].lastTs THEN proc[p].counter + 1 ELSE 0

PrintLine(p, now) ==
  LET l == [job |-> proc[p].job, ts |-> now, seq |-> NextSeq(p, now),
            text |-> <<p, proc[p].lines + 1>>] IN
  /\ proc[p].at = "run"
  /\ proc[p].lines < MaxLogs
  /\ clock' = now
  /\ proc' = [proc EXCEPT ![p].lastTs = l.ts, ![p].counter = l.seq, ![p].lines = @ + 1]
  /\ pending' = pending \union {l}
  /\ UNCHANGED <<failed, sent, stream, row, tables, sync, solver, lock, faults>>

XaddDone(l) ==
  /\ l \in pending
  /\ pending' = pending \ {l}
  /\ sent' = sent \union {l}
  /\ stream' = stream \union {l}
  /\ UNCHANGED <<clock, proc, failed, row, tables, sync, solver, lock, faults>>

(* The error is caught and printed.                                        *)
XaddFails(l) ==
  /\ l \in pending
  /\ Fault
  /\ pending' = pending \ {l}
  /\ failed' = failed \union {l}
  /\ UNCHANGED <<clock, proc, sent, stream, row, tables, sync, solver, lock>>

Own(p) == {l \in pending : l.text[1] = p}

(* Mutant of Awaited: flushConsoleRelay is left out.                       *)
NothingAwaited(p) == {}

(* The relay is installed once and keeps the set of the first job of the   *)
(* process: the others find their own set empty.                           *)
Awaited(p) == IF proc[p].calls = 1 THEN Own(p) ELSE {}

RunReturns(p) ==
  /\ proc[p].at = "run"
  /\ proc' = [proc EXCEPT ![p].at = "flush", ![p].awaits = Awaited(p)]
  /\ UNCHANGED <<clock, pending, failed, sent, stream, row, tables, sync, solver, lock, faults>>

Flushed(p) ==
  /\ proc[p].at = "flush"
  /\ proc[p].awaits \intersect pending = {}
  /\ proc' = [proc EXCEPT ![p].at = "done", ![p].job = NoJob, ![p].awaits = {}]
  /\ UNCHANGED <<clock, pending, failed, sent, stream, row, tables, sync, solver, lock, faults>>

(* Nothing is flushed when run throws.                                     *)
RunThrows(p) ==
  /\ proc[p].at = "run"
  /\ proc' = [proc EXCEPT ![p].at = "idle", ![p].job = NoJob]
  /\ UNCHANGED <<clock, pending, failed, sent, stream, row, tables, sync, solver, lock, faults>>

ProcDies(p) ==
  /\ proc[p].at # "dead"
  /\ Fault
  /\ proc' = [proc EXCEPT ![p].at = "dead", ![p].job = NoJob, ![p].awaits = {}]
  /\ pending' = pending \ Own(p)
  /\ UNCHANGED <<clock, failed, sent, stream, row, tables, sync, solver, lock>>

-----------------------------------------------------------------------------
(* job_runs: what the job events and clear-data.ts do to a row.            *)

RowAppears(j) ==
  /\ row[j] = "none" /\ j \notin Rowless
  /\ row' = [row EXCEPT ![j] = "live"]
  /\ UNCHANGED <<procVars, sent, stream, tables, sync, solver, lock, faults>>

(* Its logs go with it, and no upsert brings an expired row back.          *)
RowExpires(j) ==
  /\ row[j] = "live"
  /\ row' = [row EXCEPT ![j] = "expired"]
  /\ jobLogs' = {l \in jobLogs : l.job # j}
  /\ UNCHANGED <<procVars, sent, stream, buffer, inserts, sync, solver, lock, faults>>

-----------------------------------------------------------------------------
(* The two INSERTs: of the lines that share a key one is kept, the oldest. *)

OnePerKey(L) == {CHOOSE l \in L : Key(l) = k : k \in {Key(l) : l \in L}}

NewTo(T, L) == OnePerKey({l \in L : \A m \in T : Key(m) # Key(l)})

Resolved(L) == {l \in L : row[l.job] = "live"}

Chunk(S, n) == kSubset(IF Cardinality(S) < n THEN Cardinality(S) ELSE n, S)

(* Mutant of InsertChunk: job_logs does not reference job_runs.            *)
InsertUnchecked(todo, C) ==
  /\ C \in Chunk(todo, ChunkSize)
  /\ jobLogs' = jobLogs \union NewTo(jobLogs, C)
  /\ UNCHANGED <<buffer, inserts>>

(* A chunk of insertResolvedLogs, in which every row must be there still.  *)
InsertChunk(todo, C) ==
  /\ C \in Chunk(todo, ChunkSize)
  /\ C = Resolved(C)
  /\ jobLogs' = jobLogs \union NewTo(jobLogs, C)
  /\ UNCHANGED <<buffer, inserts>>

Buffered == {b.line : b \in buffer}

-----------------------------------------------------------------------------
(* log-stream.ts and persistLogEvents.                                     *)

Waiting == [at |-> "wait", batch |-> {}, todo |-> {}, rest |-> {}]

Holding(B) == [at |-> "resolve", batch |-> B, todo |-> {}, rest |-> {}]

Receive(r, B) ==
  /\ sync[r].at = "wait"
  /\ B \subseteq stream
  /\ Cardinality(B) \in 1..StreamBatch
  /\ sync' = [sync EXCEPT ![r] = Holding(B)]
  /\ UNCHANGED <<procVars, sent, stream, row, tables, solver, lock, faults>>

ResolveJobRunIds(r) ==
  LET found == Resolved(sync[r].batch) IN
  /\ sync[r].at = "resolve"
  /\ sync' = [sync EXCEPT ![r].at = "insert", ![r].todo = found,
                          ![r].rest = sync[r].batch \ found]
  /\ UNCHANGED <<procVars, sent, stream, row, tables, solver, lock, faults>>

InsertResolvedLogs(r) ==
  /\ sync[r].at = "insert"
  /\ sync[r].todo # {}
  /\ \E C \in SUBSET sync[r].todo :
       InsertChunk(sync[r].todo, C) /\ sync' = [sync EXCEPT ![r].todo = @ \ C]
  /\ UNCHANGED <<procVars, sent, stream, row, solver, lock, faults>>

BufferUnresolvedLogs(r) ==
  LET new == NewTo(Buffered, sync[r].rest) IN
  /\ sync[r].at = "insert" /\ sync[r].todo = {}
  /\ buffer' = buffer \union {[line |-> l, at |-> inserts] : l \in new}
  /\ inserts' = IF new = {} THEN inserts ELSE inserts + 1
  /\ sync' = [sync EXCEPT ![r].at = "ack"]
  /\ UNCHANGED <<procVars, sent, stream, row, jobLogs, solver, lock, faults>>

AckAndDelete(r) ==
  /\ sync[r].at = "ack"
  /\ stream' = stream \ sync[r].batch
  /\ sync' = [sync EXCEPT ![r] = Waiting]
  /\ UNCHANGED <<procVars, sent, row, tables, solver, lock, faults>>

(* A row in todo is gone: the foreign key makes the INSERT fail.           *)
InsertRejected(r) ==
  /\ sync[r].at = "insert"
  /\ sync[r].todo # Resolved(sync[r].todo)
  /\ sync' = [sync EXCEPT ![r] = Waiting]
  /\ UNCHANGED <<procVars, sent, stream, row, tables, solver, lock, faults>>

FailSync(r) ==
  /\ sync[r].at # "wait"
  /\ Fault
  /\ sync' = [sync EXCEPT ![r] = Waiting]
  /\ UNCHANGED <<procVars, sent, stream, row, tables, solver, lock>>

-----------------------------------------------------------------------------
(* resolveBufferedJobLogs and the timer that calls it.                     *)

At(at) == [at |-> at, rows |-> {}, todo |-> {}]

Resting == At("rest")

AcquireLock(r) ==
  /\ solver[r].at = "rest"
  /\ lock = Nobody
  /\ lock' = r
  /\ solver' = [solver EXCEPT ![r].at = "select"]
  /\ UNCHANGED <<procVars, sent, stream, row, tables, sync, faults>>

(* ORDER BY created_at LIMIT JOB_LOG_BUFFER_BATCH_SIZE                     *)
Oldest(S) ==
  /\ S \in Chunk(buffer, BufferBatch)
  /\ \A b \in S : \A c \in buffer \ S : b.at <= c.at

SelectBuffered(r) ==
  /\ solver[r].at = "select"
  /\ \E S \in SUBSET buffer :
       /\ Oldest(S)
       /\ solver' = [solver EXCEPT ![r].at = IF S = {} THEN "release" ELSE "resolve",
                                   ![r].rows = S]
  /\ UNCHANGED <<procVars, sent, stream, row, tables, sync, lock, faults>>

(* Mutant of ResolveBuffered: whatever was selected is deleted.            *)
ResolveButKeepAll(r) ==
  LET found == {b \in solver[r].rows : row[b.line.job] = "live"} IN
  /\ solver[r].at = "resolve"
  /\ solver' = [solver EXCEPT ![r].at = "insert", ![r].todo = {b.line : b \in found}]
  /\ UNCHANGED <<procVars, sent, stream, row, tables, sync, lock, faults>>

ResolveBuffered(r) ==
  LET found == {b \in solver[r].rows : row[b.line.job] = "live"} IN
  /\ solver[r].at = "resolve"
  /\ solver' = [solver EXCEPT ![r].at = "insert", ![r].rows = found,
                              ![r].todo = {b.line : b \in found}]
  /\ UNCHANGED <<procVars, sent, stream, row, tables, sync, lock, faults>>

InsertBuffered(r) ==
  /\ solver[r].at = "insert"
  /\ solver[r].todo # {}
  /\ \E C \in SUBSET solver[r].todo :
       InsertChunk(solver[r].todo, C) /\ solver' = [solver EXCEPT ![r].todo = @ \ C]
  /\ UNCHANGED <<procVars, sent, stream, row, sync, lock, faults>>

DeleteResolved(r) ==
  /\ solver[r].at = "insert" /\ solver[r].todo = {}
  /\ buffer' = buffer \ solver[r].rows
  /\ solver' = [solver EXCEPT ![r] = At("release")]
  /\ UNCHANGED <<procVars, sent, stream, row, jobLogs, inserts, sync, lock, faults>>

BufferedInsertRejected(r) ==
  /\ solver[r].at = "insert"
  /\ solver[r].todo # Resolved(solver[r].todo)
  /\ solver' = [solver EXCEPT ![r] = At("release")]
  /\ UNCHANGED <<procVars, sent, stream, row, tables, sync, lock, faults>>

(* RELEASE_LOCK_SCRIPT: only the owner's lock is deleted.                  *)
ReleaseLock(r) ==
  /\ solver[r].at = "release"
  /\ lock' = IF lock = r THEN Nobody ELSE lock
  /\ solver' = [solver EXCEPT ![r] = Resting]
  /\ UNCHANGED <<procVars, sent, stream, row, tables, sync, faults>>

(* A call throws, or the replica dies and leaves the lock to its TTL.      *)
FailSolver(r) ==
  /\ solver[r].at \in {"select", "resolve", "insert"}
  /\ Fault
  /\ \E at \in {"rest", "release"} : solver' = [solver EXCEPT ![r] = At(at)]
  /\ UNCHANGED <<procVars, sent, stream, row, tables, sync, lock>>

(* Mutant of LockExpires: SET NX without PX.                               *)
NeverExpires == FALSE /\ UNCHANGED vars

(* The TTL is two intervals; a run may take longer.                        *)
LockExpires ==
  /\ lock # Nobody
  /\ lock' = Nobody
  /\ UNCHANGED <<procVars, sent, stream, row, tables, sync, solver, faults>>

-----------------------------------------------------------------------------
Init ==
  /\ clock = 1
  /\ proc = [p \in Procs |-> [at |-> "idle", job |-> NoJob, calls |-> 0, lines |-> 0,
                               lastTs |-> 0, counter |-> 0, awaits |-> {}]]
  /\ pending = {} /\ failed = {} /\ sent = {} /\ stream = {}
  /\ row = [j \in Jobs |-> "none"]
  /\ jobLogs = {} /\ buffer = {} /\ inserts = 0
  /\ sync = [r \in Replicas |-> Waiting]
  /\ solver = [r \in Resolvers |-> Resting]
  /\ lock = Nobody
  /\ faults = 0

Work(p) ==
  \/ \E j \in Jobs : StartJob(p, j)
  \/ \E now \in clock..MaxClock : PrintLine(p, now)
  \/ RunReturns(p) \/ Flushed(p) \/ RunThrows(p) \/ ProcDies(p)

Sync(r) ==
  \/ \E B \in SUBSET stream : Receive(r, B)
  \/ ResolveJobRunIds(r) \/ InsertResolvedLogs(r) \/ InsertRejected(r)
  \/ BufferUnresolvedLogs(r) \/ AckAndDelete(r)

Resolve(r) ==
  \/ AcquireLock(r) \/ SelectBuffered(r) \/ ResolveBuffered(r) \/ InsertBuffered(r)
  \/ BufferedInsertRejected(r) \/ DeleteResolved(r) \/ ReleaseLock(r)

Next ==
  \/ \E p \in Procs : Work(p)
  \/ \E l \in pending : XaddDone(l) \/ XaddFails(l)
  \/ \E j \in Jobs : RowAppears(j) \/ RowExpires(j)
  \/ \E r \in Replicas : Sync(r) \/ FailSync(r)
  \/ \E r \in Resolvers : Resolve(r) \/ FailSolver(r)
  \/ LockExpires

(* The loops and the timers of the replicas go on, and Redis keeps TTLs.   *)
Fairness ==
  /\ \A r \in Replicas : WF_vars(Sync(r))
  /\ \A r \in Resolvers : WF_vars(Resolve(r))
  /\ WF_vars(LockExpires)

Spec == Init /\ [][Next]_vars

FairSpec == Spec /\ Fairness

-----------------------------------------------------------------------------
ProcState ==
  [at : {"idle", "run", "flush", "done", "dead"}, job : Jobs \union {NoJob},
   calls : 0..MaxCalls, lines : 0..MaxLogs, lastTs : 0..MaxClock, counter : 0..MaxLogs,
   awaits : SUBSET Line]

BufferRow == [line : Line, at : Nat]

SyncState ==
  [at : {"wait", "resolve", "insert", "ack"}, batch : SUBSET Line, todo : SUBSET Line,
   rest : SUBSET Line]

SolverState ==
  [at : {"rest", "select", "resolve", "insert", "release"}, rows : SUBSET BufferRow,
   todo : SUBSET Line]

(* Every variable has its type: lines on their way have been sent, those   *)
(* in a replica's hands are of its batch, and buffered lines are numbered. *)
TypeOK ==
  /\ clock \in 1..MaxClock
  /\ proc \in [Procs -> ProcState]
  /\ pending \union failed \subseteq Line /\ stream \subseteq sent /\ sent \subseteq Line
  /\ row \in [Jobs -> {"none", "live", "expired"}]
  /\ jobLogs \subseteq Line
  /\ buffer \subseteq BufferRow
  /\ inserts \in Nat /\ \A b \in buffer : b.at < inserts
  /\ sync \in [Replicas -> SyncState]
  /\ \A r \in Replicas : sync[r].todo \union sync[r].rest \subseteq sync[r].batch
  /\ solver \in [Resolvers -> SolverState]
  /\ \A r \in Resolvers : solver[r].at = "insert" =>
       \A l \in solver[r].todo : \E b \in solver[r].rows : b.line = l
  /\ lock \in Resolvers \union {Nobody}
  /\ faults \in 0..MaxFaults

(* A line that has left the stream is in job_logs or waits in the buffer,  *)
(* until its job expires: acknowledging, buffering, resolving and deleting *)
(* lose none between them, whatever fails (log-buffer.ts:                  *)
(* persistLogEvents, resolveBufferedJobLogs).                              *)
LogsAreKept ==
  \A l \in sent \ stream : l \in jobLogs \union Buffered \/ row[l.job] = "expired"

(* No line is shown for a job whose row is gone, although the row may      *)
(* expire between the reading of its id and the INSERT (schema.ts: the     *)
(* foreign key of job_logs).                                               *)
NoneShownForGoneJobs == \A l \in jobLogs : row[l.job] = "live"

(* When the first job of a process returns its result, each of its lines   *)
(* has reached the stream, or its XADD has failed and the line is given    *)
(* up; none may still be on its way (index.ts: flushConsoleRelay).         *)
FirstJobFlushed ==
  \A p \in Procs : proc[p].at = "done" /\ proc[p].calls = 1 =>
    \A n \in 1..proc[p].lines : \E l \in sent \union failed : l.text = <<p, n>>

(* A line that Redis has taken reaches job_logs once its job has a row,    *)
(* directly or through the buffer, unless the row expires (log-buffer.ts:  *)
(* autoResolveBufferedJobLogs).                                            *)
LogsArrive ==
  \A t \in Text :
    (\E l \in sent : l.text = t /\ row[l.job] = "live")
      ~> (\E l \in sent : l.text = t /\ (l \in jobLogs \/ row[l.job] = "expired"))

=============================================================================
