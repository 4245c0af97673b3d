----------------------------- MODULE JobPipeline -----------------------------
(***************************************************************************)
(* A job from queue.add to its row in Postgres.  BullMQ workers append job *)
(* events to a Redis stream (packages/client), ingest replicas upsert the  *)
(* events they are delivered, and a reconciler compares BullMQ with the    *)
(* table (apps/ingest/src/repeats/reconcile-jobs.ts).                      *)
(*                                                                         *)
(* The stream and its consumer groups are taken at their abstract          *)
(* specification, DurableDelivery, which StreamIngestion implements: an    *)
(* entry is upserted at least once, in a batch with any others, in any     *)
(* order, and again until it is settled.  Of an upsert and the settling of *)
(* what it wrote, which touches nothing else here, one step is made.       *)
(***************************************************************************)
EXTENDS Naturals, FiniteSets, Sequences, Functions, JobRuns

CONSTANTS
  Jobs,
  Workers,
  Reconcilers,     \* replicas holding the queue's reconcile lock, normally one
  MaxAttempts,     \* job.opts.attempts
  MaxEntries,      \* bound on the number of XADDs
  BatchSize,       \* COUNT of XREADGROUP and XAUTOCLAIM
  MaxFaults,       \* bound on failed calls, dead workers and stalled jobs
  Removal,         \* may removeOnComplete/removeOnFail of a job be set?
  ReasonTellsOutcome, \* has a finished job a failedReason iff it failed?
  NoJob, Nobody

ASSUME PipelineAssumption ==
  /\ NoJob \notin Jobs
  /\ Nobody \notin Workers
  /\ MaxAttempts \in Nat \ {0}
  /\ MaxEntries \in Nat
  /\ BatchSize \in Nat \ {0}
  /\ MaxFaults \in Nat
  /\ Removal \subseteq BOOLEAN /\ Removal # {}
  /\ ReasonTellsOutcome \in BOOLEAN

VARIABLES
  bull,      \* BullMQ's record of each job
  notices,   \* "waiting" queue events the master has yet to handle, per job
  checking,  \* waiting events whose handler has fetched the job
  sending,   \* waiting events whose handler has seen isWaiting and will XADD
  worker,    \* the job each worker is in, with its own copy of the job
  log,       \* the job events appended to the stream
  settled,   \* the entries that no ingest replica will upsert any more
  jobRuns,   \* the job_runs table
  rec,       \* where each reconciler is in its tick
  faults     \* failures so far

bullVars == <<bull, notices>>
masterVars == <<checking, sending>>
streamVars == <<log, settled>>
vars == <<bull, notices, checking, sending, worker, log, settled, jobRuns, rec, faults>>

JobEvent == [job : Jobs, phase : {"waiting", "active", "terminal"}, snap : Snapshot]

Event(j, phase, snap) == [job |-> j, phase |-> phase, snap |-> snap]

Xadd(e) ==
  /\ Len(log) < MaxEntries
  /\ log' = Append(log, e)
  /\ UNCHANGED settled

Fault == faults < MaxFaults /\ faults' = faults + 1

-----------------------------------------------------------------------------
(* BullMQ, as the code uses it.                                            *)

BullStates == {"none", "waiting", "delayed", "active", "completed", "failed", "removed"}

Fresh == [finished |-> FALSE, failed |-> FALSE]

Gone(j) == bull[j].state \in {"none", "removed"}

Notify(j) == notices' = [notices EXCEPT ![j] = @ + 1]

(* failedReason of a job that ends: an exception may have an empty message *)
(* and a success may carry the reason of an earlier attempt.               *)
Reasons(outcome, before) ==
  CASE outcome = "failed" -> {TRUE} \union {r \in {FALSE} : ~ReasonTellsOutcome}
    [] outcome = "completed" -> {FALSE} \union {r \in {before} : ~ReasonTellsOutcome}

Ended(j, outcome, failed) ==
  [bull[j] EXCEPT !.state = IF bull[j].drop THEN "removed" ELSE outcome,
                  !.snap = [finished |-> TRUE, failed |-> failed],
                  !.outcome = outcome, !.holder = Nobody]

AddJob(j) ==
  /\ bull[j].state = "none"
  /\ \E d \in Removal : bull' = [bull EXCEPT ![j].state = "waiting", ![j].drop = d]
  /\ Notify(j)
  /\ UNCHANGED <<masterVars, worker, streamVars, jobRuns, rec, faults>>

(* The delay of a retried job is over.                                     *)
Promote(j) ==
  /\ bull[j].state = "delayed"
  /\ bull' = [bull EXCEPT ![j].state = "waiting"]
  /\ Notify(j)
  /\ UNCHANGED <<masterVars, worker, streamVars, jobRuns, rec, faults>>

(* The lock of an active job has expired: it goes back to waiting or, past *)
(* maxStalledCount, to failed.  No worker emits an event for that.         *)
Stall(j) ==
  /\ bull[j].state = "active"
  /\ Fault
  /\ \/ /\ bull' = [bull EXCEPT ![j].state = "waiting", ![j].holder = Nobody]
        /\ Notify(j)
     \/ /\ bull' = [bull EXCEPT ![j] = Ended(j, "failed", TRUE)]
        /\ UNCHANGED notices
  /\ UNCHANGED <<masterVars, worker, streamVars, jobRuns, rec>>

(* The worker takes the job and loads its own copy of it.                  *)
PickUp(w, j) ==
  /\ worker[w].at = "idle"
  /\ bull[j].state = "waiting"
  /\ bull' = [bull EXCEPT ![j].state = "active", ![j].holder = w]
  /\ worker' = [worker EXCEPT ![w] = [at |-> "register", job |-> j, snap |-> bull[j].snap]]
  /\ UNCHANGED <<notices, masterVars, streamVars, jobRuns, rec, faults>>

-----------------------------------------------------------------------------
(* packages/client/src/worker.ts: processJob.                              *)

Idle == [at |-> "idle", job |-> NoJob, snap |-> Fresh]

ReportWith(w, snap) == worker' = [worker EXCEPT ![w].at = "report", ![w].snap = snap]

(* The active event, before super.processJob.                              *)
Register(w) ==
  /\ worker[w].at = "register"
  /\ Xadd(Event(worker[w].job, "active", worker[w].snap))
  /\ worker' = [worker EXCEPT ![w].at = "run"]
  /\ UNCHANGED <<bullVars, masterVars, jobRuns, rec, faults>>

(* super.processJob moves the job to completed or, its attempts used up,   *)
(* to failed.                                                              *)
Finish(w, outcome) ==
  LET j == worker[w].job IN
  /\ worker[w].at = "run"
  /\ bull[j].holder = w
  /\ outcome = "failed" => bull[j].tries + 1 = MaxAttempts
  /\ \E failed \in Reasons(outcome, bull[j].snap.failed) :
       /\ bull' = [bull EXCEPT ![j] = Ended(j, outcome, failed)]
       /\ ReportWith(w, [finished |-> TRUE, failed |-> failed])
  /\ UNCHANGED <<notices, masterVars, streamVars, jobRuns, rec, faults>>

(* The attempt failed and another one is due, at once or after a backoff.  *)
Retry(w) ==
  LET j == worker[w].job
      snap == [finished |-> FALSE, failed |-> TRUE] IN
  /\ worker[w].at = "run"
  /\ bull[j].holder = w
  /\ bull[j].tries + 1 < MaxAttempts
  /\ \E state \in {"waiting", "delayed"} :
       /\ bull' = [bull EXCEPT ![j].state = state, ![j].snap = snap, ![j].holder = Nobody,
                               ![j].tries = @ + 1]
       /\ IF state = "waiting" THEN Notify(j) ELSE UNCHANGED notices
  /\ ReportWith(w, snap)
  /\ UNCHANGED <<masterVars, streamVars, jobRuns, rec, faults>>

(* The job stalled and is no longer this worker's: moving it throws, after *)
(* failedReason was set on the worker's copy.                              *)
LoseJob(w) ==
  /\ worker[w].at = "run"
  /\ bull[worker[w].job].holder # w
  /\ ReportWith(w, [finished |-> FALSE, failed |-> TRUE])
  /\ UNCHANGED <<bullVars, masterVars, streamVars, jobRuns, rec, faults>>

(* The terminal event, in the finally block.                               *)
Report(w) ==
  /\ worker[w].at = "report"
  /\ Xadd(Event(worker[w].job, "terminal", worker[w].snap))
  /\ worker' = [worker EXCEPT ![w] = Idle]
  /\ UNCHANGED <<bullVars, masterVars, jobRuns, rec, faults>>

(* XADD throws, or the worker's process dies.                              *)
GiveUp(w) ==
  /\ worker[w].at # "idle"
  /\ Fault
  /\ worker' = [worker EXCEPT ![w] = Idle]
  /\ UNCHANGED <<bullVars, masterVars, streamVars, jobRuns, rec>>

-----------------------------------------------------------------------------
(* waitingJobsEvent: onMessage on the master worker, three awaits long.    *)

FetchWaiting(j) ==
  /\ notices[j] > 0
  /\ notices' = [notices EXCEPT ![j] = @ - 1]
  /\ checking' = IF Gone(j) THEN checking
                 ELSE checking \union {Event(j, "waiting", bull[j].snap)}
  /\ UNCHANGED <<bull, sending, worker, streamVars, jobRuns, rec, faults>>

CheckWaiting(e) ==
  /\ e \in checking
  /\ checking' = checking \ {e}
  /\ sending' = IF bull[e.job].state = "waiting" THEN sending \union {e} ELSE sending
  /\ UNCHANGED <<bullVars, worker, streamVars, jobRuns, rec, faults>>

SendWaiting(e) ==
  /\ e \in sending
  /\ Xadd(e)
  /\ sending' = sending \ {e}
  /\ UNCHANGED <<bullVars, checking, worker, jobRuns, rec, faults>>

(* XADD throws, or the master's process dies.                              *)
LoseWaiting(e) ==
  /\ e \in sending
  /\ Fault
  /\ sending' = sending \ {e}
  /\ UNCHANGED <<bullVars, checking, worker, streamVars, jobRuns, rec>>

-----------------------------------------------------------------------------
(* job-stream.ts: processMessages, and the settling of what it upserted.   *)

EventState(phase) == IF phase = "terminal" THEN None ELSE phase

RunOf(e) == FormatJobRun(e.snap, e.phase, EventState(e.phase), TRUE)

Unsettled == DOMAIN log \ settled

UpsertBatch(S) ==
  /\ S # {}
  /\ S \subseteq Unsettled
  /\ Cardinality(S) <= BatchSize
  /\ jobRuns' = UpsertJobRuns(jobRuns, LastRuns(S, [i \in S |-> log[i].job],
                                                   [i \in S |-> RunOf(log[i])]))
  /\ \E T \in SUBSET S : settled' = settled \union T
  /\ UNCHANGED <<bullVars, masterVars, worker, log, rec, faults>>

-----------------------------------------------------------------------------
(* reconcile-jobs.ts: reconcileQueue, one queue, in pages larger than it.  *)

(* At a stage with nothing in hand, and these jobs to go through.          *)
At(stage, jobs) == [at |-> stage, todo |-> jobs, got |-> <<>>, runs |-> <<>>]

Resting == At("rest", {})

(* job.getState()                                                          *)
GetState(j) == IF Gone(j) THEN "unknown" ELSE bull[j].state

(* A list of snapshots or rows, by their jobs, with another one.           *)
With(f, j, x) == [k \in DOMAIN f \union {j} |-> IF k = j THEN x ELSE f[k]]

(* The row made of the snapshot in hand and of the state the job has now.  *)
RunNow(r, j) == FormatJobRun(rec[r].got[j], "snapshot", PersistedState(GetState(j)), FALSE)

(* reconcileRetainedBullMqJobs: the ids of the jobs that have not finished. *)
Tick(r) ==
  /\ rec[r].at = "rest"
  /\ rec' = [rec EXCEPT ![r] = At("list", {j \in Jobs : bull[j].state \in Live})]
  /\ UNCHANGED <<bullVars, masterVars, worker, streamVars, jobRuns, faults>>

(* getJobs then loads each of them, unless it is gone by now ...           *)
FetchListed(r, j) ==
  /\ rec[r].at = "list"
  /\ j \in rec[r].todo
  /\ rec' = [rec EXCEPT ![r].todo = @ \ {j},
                        ![r].got = IF Gone(j) THEN @ ELSE With(@, j, bull[j].snap)]
  /\ UNCHANGED <<bullVars, masterVars, worker, streamVars, jobRuns, faults>>

(* ... and the state of each is asked for once all are loaded.             *)
ReadListedState(r, j) ==
  /\ rec[r].at = "list"
  /\ rec[r].todo = {}
  /\ j \in DOMAIN rec[r].got
  /\ rec' = [rec EXCEPT ![r].got = Restrict(@, DOMAIN @ \ {j}),
                        ![r].runs = With(@, j, RunNow(r, j))]
  /\ UNCHANGED <<bullVars, masterVars, worker, streamVars, jobRuns, faults>>

UpsertListed(r) ==
  /\ rec[r].at = "list"
  /\ rec[r].todo = {}
  /\ DOMAIN rec[r].got = {}
  /\ jobRuns' = UpsertJobRuns(jobRuns, rec[r].runs)
  /\ rec' = [rec EXCEPT ![r] = At("select", {})]
  /\ UNCHANGED <<bullVars, masterVars, worker, streamVars, faults>>

(* Mutant of SelectStale: the rows of active jobs are left to the workers. *)
SelectNotActive(r) ==
  /\ rec[r].at = "select"
  /\ rec' = [rec EXCEPT ![r].at = "look",
               ![r].todo = {j \in Jobs : jobRuns[j].status \in (Live \ {"active"})}]
  /\ UNCHANGED <<bullVars, masterVars, worker, streamVars, jobRuns, faults>>

(* reconcileMissingNonTerminalRows: the rows that have not finished.       *)
SelectStale(r) ==
  /\ rec[r].at = "select"
  /\ rec' = [rec EXCEPT ![r].at = "look",
               ![r].todo = {j \in Jobs : jobRuns[j].status \in Live \union {"unknown"}}]
  /\ UNCHANGED <<bullVars, masterVars, worker, streamVars, jobRuns, faults>>

(* queue.getJob, then on to the step it calls for.                         *)
Load(r, j, next) ==
  rec' = [rec EXCEPT ![r].at = next, ![r].todo = @ \ {j}, ![r].got = With(<<>>, j, bull[j].snap)]

(* Mutant of LookUp: the job is looked for among the active ones only.     *)
LookUpActive(r, j) ==
  /\ rec[r].at = "look"
  /\ j \in rec[r].todo
  /\ Load(r, j, IF bull[j].state = "active" THEN "lookState" ELSE "mark")
  /\ UNCHANGED <<bullVars, masterVars, worker, streamVars, jobRuns, faults>>

LookUp(r, j) ==
  /\ rec[r].at = "look"
  /\ j \in rec[r].todo
  /\ Load(r, j, IF Gone(j) THEN "mark" ELSE "lookState")
  /\ UNCHANGED <<bullVars, masterVars, worker, streamVars, jobRuns, faults>>

ReadState(r) ==
  /\ rec[r].at = "lookState"
  /\ \E j \in DOMAIN rec[r].got :
       rec' = [rec EXCEPT ![r].at = "write", ![r].got = <<>>,
                          ![r].runs = With(<<>>, j, RunNow(r, j))]
  /\ UNCHANGED <<bullVars, masterVars, worker, streamVars, jobRuns, faults>>

WriteRow(r) ==
  /\ rec[r].at = "write"
  /\ jobRuns' = UpsertJobRuns(jobRuns, rec[r].runs)
  /\ rec' = [rec EXCEPT ![r].at = "look", ![r].runs = <<>>]
  /\ UNCHANGED <<bullVars, masterVars, worker, streamVars, faults>>

(* UPDATE job_runs SET status = 'unknown' WHERE id = ...                   *)
MarkUnknown(r) ==
  /\ rec[r].at = "mark"
  /\ \E j \in DOMAIN rec[r].got : jobRuns' = [jobRuns EXCEPT ![j].status = "unknown"]
  /\ rec' = [rec EXCEPT ![r].at = "look", ![r].got = <<>>]
  /\ UNCHANGED <<bullVars, masterVars, worker, streamVars, faults>>

EndTick(r) ==
  /\ rec[r].at = "look"
  /\ rec[r].todo = {}
  /\ rec' = [rec EXCEPT ![r] = Resting]
  /\ UNCHANGED <<bullVars, masterVars, worker, streamVars, jobRuns, faults>>

(* A call throws, or the replica dies: the rest of the tick is skipped.    *)
FailTick(r) ==
  /\ rec[r].at # "rest"
  /\ Fault
  /\ rec' = [rec EXCEPT ![r] = Resting]
  /\ UNCHANGED <<bullVars, masterVars, worker, streamVars, jobRuns>>

-----------------------------------------------------------------------------
Init ==
  /\ bull = [j \in Jobs |-> [state |-> "none", drop |-> FALSE, snap |-> Fresh, tries |-> 0,
                              outcome |-> None, holder |-> Nobody]]
  /\ notices = [j \in Jobs |-> 0]
  /\ checking = {}
  /\ sending = {}
  /\ worker = [w \in Workers |-> Idle]
  /\ log = <<>>
  /\ settled = {}
  /\ jobRuns = [j \in Jobs |-> NoRow]
  /\ rec = [r \in Reconcilers |-> Resting]
  /\ faults = 0

Queue(j) == AddJob(j) \/ Promote(j) \/ Stall(j) \/ \E w \in Workers : PickUp(w, j)

Process(w) ==
  \/ Register(w) \/ Retry(w) \/ LoseJob(w) \/ Report(w) \/ GiveUp(w)
  \/ \E outcome \in Terminal : Finish(w, outcome)

Master ==
  \/ \E j \in Jobs : FetchWaiting(j)
  \/ \E e \in checking : CheckWaiting(e)
  \/ \E e \in sending : SendWaiting(e) \/ LoseWaiting(e)

Ingest == \E S \in SUBSET Unsettled : UpsertBatch(S)

(* What a tick does when nothing fails.                                    *)
Reconcile(r) ==
  \/ Tick(r) \/ UpsertListed(r) \/ SelectStale(r)
  \/ ReadState(r) \/ WriteRow(r) \/ MarkUnknown(r) \/ EndTick(r)
  \/ \E j \in Jobs : FetchListed(r, j) \/ ReadListedState(r, j) \/ LookUp(r, j)

Next ==
  \/ \E j \in Jobs : Queue(j)
  \/ \E w \in Workers : Process(w)
  \/ Master
  \/ Ingest
  \/ \E r \in Reconcilers : Reconcile(r) \/ FailTick(r)

(* Entries are upserted and settled until none is left (StreamIngestion:   *)
(* EventuallySettled and SettledIsStored), and the reconciler's timer      *)
(* keeps firing.  Nothing is assumed of BullMQ, the workers or the master. *)
Fairness ==
  /\ WF_vars(Ingest /\ settled' # settled)
  /\ \A r \in Reconcilers : WF_vars(Reconcile(r))

Spec == Init /\ [][Next]_vars

FairSpec == Spec /\ Fairness

-----------------------------------------------------------------------------
WorkerState ==
  [at : {"idle", "register", "run", "report"}, job : Jobs \union {NoJob}, snap : Snapshot]

RecStage == {"rest", "list", "select", "look", "lookState", "write", "mark"}

TypeOK ==
  /\ bull \in [Jobs -> [state : BullStates, drop : BOOLEAN, snap : Snapshot,
                        tries : 0..MaxAttempts - 1, outcome : Terminal \union {None},
                        holder : Workers \union {Nobody}]]
  /\ notices \in [Jobs -> Nat]
  /\ checking \subseteq JobEvent
  /\ sending \subseteq JobEvent
  /\ worker \in [Workers -> WorkerState]
  /\ log \in Seq(JobEvent)
  /\ settled \subseteq DOMAIN log
  /\ jobRuns \in [Jobs -> Run \union {NoRow}]
  /\ \A r \in Reconcilers :
       /\ rec[r].at \in RecStage
       /\ rec[r].todo \subseteq Jobs
       /\ \E G \in SUBSET Jobs : rec[r].got \in [G -> Snapshot]
       /\ \E R \in SUBSET Jobs : rec[r].runs \in [R -> Run]
  /\ faults \in 0..MaxFaults

(* A row that says completed or failed says what became of the job: no     *)
(* late, repeated or reordered event, no stalled worker's report and no    *)
(* reconciler that mixes an old snapshot with a new state makes one up     *)
(* (job-format.ts: getStatusFromSnapshot).                                 *)
TerminalIsTrue == \A j \in Jobs : IsTerminal(jobRuns[j]) => jobRuns[j].status = bull[j].outcome

(* Once a row shows the job's end no later upsert or reconciliation takes  *)
(* it back (job-upsert.ts: statusUpdateSql), as long as BullMQ keeps the   *)
(* job.                                                                    *)
FinishedStaysFinished ==
  [][\A j \in Jobs :
       ~bull[j].drop /\ IsTerminal(jobRuns[j]) => jobRuns'[j].status = jobRuns[j].status]_vars

(* Reconciliation, which knows no tags, never erases those of the row      *)
(* (job-upsert.ts: tagsUpdateSql).                                         *)
TagsSurvive == [][\A j \in Jobs : jobRuns[j].tagged => jobRuns'[j].tagged]_vars

(* A row is given up as unknown only when BullMQ has dropped the job       *)
(* (reconcile-jobs.ts: reconcileMissingNonTerminalRows).                   *)
UnknownMeansGone == \A j \in Jobs : jobRuns[j].status = "unknown" => Gone(j)

(* The row of a finished job that BullMQ keeps comes to say so, whatever   *)
(* events were lost, late or out of order (reconcile-jobs.ts:              *)
(* reconcileMissingNonTerminalRows).                                       *)
FinishedJobsSettle ==
  \A j \in Jobs :
    (bull[j].state \in Terminal /\ HasRow(jobRuns[j])) ~> IsTerminal(jobRuns[j])

(* Reconciliation only repairs: it never turns a row that shows how the    *)
(* job ended into one that does not.                                       *)
ReconcileOnlyRepairs ==
  [][\A r \in Reconcilers : \A j \in Jobs :
       MarkUnknown(r) /\ IsTerminal(jobRuns[j]) => IsTerminal(jobRuns'[j])]_vars

=============================================================================
