-------------------------- MODULE JobCancellation --------------------------
(***************************************************************************)
(* Cancelling and replaying jobs: cancelJob of packages/core removes a job *)
(* that waits, or calls on the process that runs it over Redis pub/sub     *)
(* until it answers (packages/client/src/lib/cancellation.ts), and then    *)
(* marks the row, while the events of the job go on to the table through   *)
(* ingestion (JobRuns) and other callers cancel or replay the same job.    *)
(***************************************************************************)
EXTENDS JobRuns, Sequences

CONSTANTS
  Queues,
  Ids,          \* ids of jobs, which are unique within their queue
  Callers,      \* requests to cancel, from the app or the MCP server
  MaxAttempts,  \* the option attempts of every job
  MaxCalls,     \* bound on the requests to cancel and to replay
  MaxFaults,    \* bound on the processes that die
  NoJob

ASSUME CancellationAssumption ==
  /\ NoJob \notin Queues \X Ids
  /\ MaxAttempts \in Nat \ {0}
  /\ {MaxCalls, MaxFaults} \subseteq Nat

VARIABLES
  bull,     \* the jobs in BullMQ
  child,    \* the process of each active job
  pings,    \* the processes a cancellation message is on its way to
  call,     \* where each caller is in cancelJob
  pongs,    \* the callers an answer is on its way to
  stream,   \* the rows of the events not ingested yet, oldest first
  jobRuns,  \* the table
  calls, faults

bullVars == <<bull, child, pings>>
callVars == <<call, pongs>>
vars == <<bullVars, callVars, stream, jobRuns, calls, faults>>

Jobs == Queues \X Ids

Id(j) == j[2]

StreamRow == [job : Jobs, run : Run]

BullStates == {"none", "waiting", "active", "completed", "failed", "removed"}

BullJob == [state : BullStates, tries : Nat]

Calls == [at : {"idle", "getJob", "getState", "remove", "shake", "row", "update"},
          job : Jobs \union {NoJob}, subscribed : BOOLEAN]

Idle == [at |-> "idle", job |-> NoJob, subscribed |-> FALSE]

Listening == {j \in Jobs : child[j] \in {"running", "heard"}}

Bound(count, max) == count < max

Emit(j, phase, finished, failed) ==
  stream' = Append(stream,
    [job |-> j, run |-> FormatJobRun([finished |-> finished, failed |-> failed], phase,
                                     IF phase = "terminal" THEN None ELSE phase, FALSE)])

-----------------------------------------------------------------------------
(* BullMQ and the workers.                                                 *)

AddJob(j) ==
  /\ bull[j].state = "none"
  /\ bull' = [bull EXCEPT ![j].state = "waiting"]
  /\ Emit(j, "waiting", FALSE, FALSE)
  /\ UNCHANGED <<child, pings, callVars, jobRuns, calls, faults>>

PickUp(j) ==
  /\ bull[j].state = "waiting"
  /\ bull' = [bull EXCEPT ![j].state = "active"]
  /\ child' = [child EXCEPT ![j] = "starting"]
  /\ Emit(j, "active", FALSE, FALSE)
  /\ UNCHANGED <<pings, callVars, jobRuns, calls, faults>>

(* registerCancellationListener is done: cancelable calls run.             *)
Listen(j) ==
  /\ child[j] = "starting"
  /\ child' = [child EXCEPT ![j] = "running"]
  /\ UNCHANGED <<bull, pings, callVars, stream, jobRuns, calls, faults>>

(* listener.quit, or the end of the process.                               *)
Stop(j) == child' = [child EXCEPT ![j] = "none"] /\ pings' = pings \ {j}

(* The attempt failed: another one is due, or the job has failed.          *)
FailAttempt(j) ==
  LET last == bull[j].tries + 1 >= MaxAttempts IN
  /\ bull' = [bull EXCEPT ![j].state = IF last THEN "failed" ELSE "waiting", ![j].tries = @ + 1]
  /\ Emit(j, "terminal", last, TRUE)

Return(j) ==
  /\ j \in Listening
  /\ bull' = [bull EXCEPT ![j].state = "completed"]
  /\ Emit(j, "terminal", TRUE, FALSE)
  /\ Stop(j)
  /\ UNCHANGED <<callVars, jobRuns, calls, faults>>

RunFails(j) ==
  /\ child[j] = "running"
  /\ FailAttempt(j)
  /\ Stop(j)
  /\ UNCHANGED <<callVars, jobRuns, calls, faults>>

(* The process dies with its worker: the job stalls and waits again.       *)
Stall(j) ==
  /\ bull[j].state = "active"
  /\ Bound(faults, MaxFaults)
  /\ faults' = faults + 1
  /\ bull' = [bull EXCEPT ![j].state = "waiting"]
  /\ Stop(j)
  /\ UNCHANGED <<callVars, stream, jobRuns, calls>>

(* replayJob: job.retry, which is for failed jobs. For any other job a     *)
(* copy is added, a job as AddJob adds it.                                 *)
Replay(j) ==
  /\ bull[j].state = "failed"
  /\ Bound(calls, MaxCalls)
  /\ calls' = calls + 1
  /\ bull' = [bull EXCEPT ![j].state = "waiting"]
  /\ Emit(j, "waiting", FALSE, FALSE)
  /\ UNCHANGED <<child, pings, callVars, jobRuns, faults>>

-----------------------------------------------------------------------------
(* The channels bbb:cancellation:<id> and bbb:cancellation:<id>:pong.      *)

SameChannel(i, j) == Id(i) = Id(j)

Answered(j) ==
  {u \in Callers : call[u].at = "shake" /\ call[u].subscribed /\ SameChannel(call[u].job, j)}

(* The process answers, and then throws.                                   *)
HearPing(j) ==
  /\ j \in pings
  /\ pings' = pings \ {j}
  /\ child' = [child EXCEPT ![j] = "heard"]
  /\ pongs' = pongs \union Answered(j)
  /\ UNCHANGED <<bull, call, stream, jobRuns, calls, faults>>

(* Mutant of Throw: somebody handles the error, and the run goes on.       *)
GoOn(j) ==
  /\ child[j] = "heard"
  /\ child' = [child EXCEPT ![j] = "running"]
  /\ UNCHANGED <<bull, pings, callVars, stream, jobRuns, calls, faults>>

(* The error is nobody's: the process ends and its attempt has failed.     *)
Throw(j) ==
  /\ child[j] = "heard"
  /\ FailAttempt(j)
  /\ Stop(j)
  /\ UNCHANGED <<callVars, jobRuns, calls, faults>>

-----------------------------------------------------------------------------
(* cancelJob.                                                              *)

Goto(u, at) == call' = [call EXCEPT ![u].at = at]

Cancel(u, j) ==
  /\ call[u] = Idle
  /\ bull[j].state # "none"
  /\ Bound(calls, MaxCalls)
  /\ calls' = calls + 1
  /\ call' = [call EXCEPT ![u] = [at |-> "getJob", job |-> j, subscribed |-> FALSE]]
  /\ UNCHANGED <<bullVars, pongs, stream, jobRuns, faults>>

GetJob(u) ==
  /\ call[u].at = "getJob"
  /\ Goto(u, IF bull[call[u].job].state \in {"none", "removed"} THEN "row" ELSE "getState")
  /\ UNCHANGED <<bullVars, pongs, stream, jobRuns, calls, faults>>

GetState(u) ==
  /\ call[u].at = "getState"
  /\ Goto(u, IF bull[call[u].job].state \in Terminal THEN "row" ELSE "remove")
  /\ UNCHANGED <<bullVars, pongs, stream, jobRuns, calls, faults>>

(* job.remove rejects if a worker holds the job.                           *)
Remove(u) ==
  LET j == call[u].job IN
  /\ call[u].at = "remove"
  /\ \/ /\ bull[j].state = "active"
        /\ Goto(u, "shake")
        /\ UNCHANGED bull
     \/ /\ bull[j].state # "active"
        /\ Goto(u, "row")
        /\ bull' = [bull EXCEPT ![j].state = "removed"]
  /\ UNCHANGED <<child, pings, pongs, stream, jobRuns, calls, faults>>

SubscribePong(u) ==
  /\ call[u].at = "shake"
  /\ ~call[u].subscribed
  /\ call' = [call EXCEPT ![u].subscribed = TRUE]
  /\ UNCHANGED <<bullVars, pongs, stream, jobRuns, calls, faults>>

(* Every 100 ms.                                                           *)
Ping(u) ==
  /\ call[u].at = "shake"
  /\ call[u].subscribed
  /\ pings' = pings \union {j \in Listening : SameChannel(call[u].job, j)}
  /\ UNCHANGED <<bull, child, callVars, stream, jobRuns, calls, faults>>

GetPong(u) ==
  /\ u \in pongs
  /\ pongs' = pongs \ {u}
  /\ call' = [call EXCEPT ![u].at = "row", ![u].subscribed = FALSE]
  /\ UNCHANGED <<bullVars, stream, jobRuns, calls, faults>>

(* Mutant of TimeOut: the promise resolves.                                *)
TimeOutQuietly(u) ==
  /\ call[u].at = "shake"
  /\ call' = [call EXCEPT ![u].at = "row", ![u].subscribed = FALSE]
  /\ pongs' = pongs \ {u}
  /\ UNCHANGED <<bullVars, stream, jobRuns, calls, faults>>

(* After ten seconds, whatever is on its way.                              *)
TimeOut(u) ==
  /\ call[u].at = "shake"
  /\ call' = [call EXCEPT ![u] = Idle]
  /\ pongs' = pongs \ {u}
  /\ UNCHANGED <<bullVars, stream, jobRuns, calls, faults>>

(* The transaction: a select, ...                                          *)
SelectRow(u) ==
  LET row == jobRuns[call[u].job] IN
  /\ call[u].at = "row"
  /\ call' = IF HasRow(row) /\ ~IsTerminal(row) THEN [call EXCEPT ![u].at = "update"]
             ELSE [call EXCEPT ![u] = Idle]
  /\ UNCHANGED <<bullVars, pongs, stream, jobRuns, calls, faults>>

(* ... and an update that does not look at the status again.               *)
UpdateRow(u) ==
  LET j == call[u].job IN
  /\ call[u].at = "update"
  /\ jobRuns' = [jobRuns EXCEPT ![j].status = "failed", ![j].error = TRUE]
  /\ call' = [call EXCEPT ![u] = Idle]
  /\ UNCHANGED <<bullVars, pongs, stream, calls, faults>>

-----------------------------------------------------------------------------
(* Ingestion, in the order of the stream.                                  *)
Ingest ==
  /\ stream # <<>>
  /\ jobRuns' = UpsertJobRuns(jobRuns, [j \in {Head(stream).job} |-> Head(stream).run])
  /\ stream' = Tail(stream)
  /\ UNCHANGED <<bullVars, callVars, calls, faults>>

Init ==
  /\ bull = [j \in Jobs |-> [state |-> "none", tries |-> 0]]
  /\ child = [j \in Jobs |-> "none"]
  /\ pings = {}
  /\ call = [u \in Callers |-> Idle]
  /\ pongs = {}
  /\ stream = <<>>
  /\ jobRuns = [j \in Jobs |-> NoRow]
  /\ calls = 0
  /\ faults = 0

Work(j) ==
  AddJob(j) \/ PickUp(j) \/ Listen(j) \/ Return(j) \/ RunFails(j) \/ Stall(j) \/ Replay(j)
    \/ HearPing(j) \/ Throw(j)

CancelJob(u) ==
  GetJob(u) \/ GetState(u) \/ Remove(u) \/ SubscribePong(u) \/ Ping(u) \/ GetPong(u)
    \/ TimeOut(u) \/ SelectRow(u) \/ UpdateRow(u)

Next ==
  \/ \E j \in Jobs : Work(j) \/ \E u \in Callers : Cancel(u, j)
  \/ \E u \in Callers : CancelJob(u)
  \/ Ingest

Spec == Init /\ [][Next]_vars

(* A process that starts gets to listen, hears what it is sent and then    *)
(* throws; a run need not end.                                             *)
FairSpec ==
  /\ Spec
  /\ WF_vars(Ingest)
  /\ \A j \in Jobs : WF_vars(Listen(j)) /\ WF_vars(HearPing(j)) /\ WF_vars(Throw(j))
  /\ \A u \in Callers : WF_vars(CancelJob(u))

-----------------------------------------------------------------------------
(* Every variable has its type; messages are on their way to processes     *)
(* that listen and to callers that wait.                                   *)
TypeOK ==
  /\ bull \in [Jobs -> BullJob]
  /\ child \in [Jobs -> {"none", "starting", "running", "heard"}]
  /\ \A j \in Jobs : child[j] # "none" <=> bull[j].state = "active"
  /\ pings \subseteq Listening
  /\ call \in [Callers -> Calls]
  /\ pongs \subseteq {u \in Callers : call[u].at = "shake"}
  /\ stream \in Seq(StreamRow)
  /\ jobRuns \in [Jobs -> Run \union {NoRow}]
  /\ calls \in 0..MaxCalls /\ faults \in 0..MaxFaults

(* A caller that timed out does not touch the row: as long as no process   *)
(* has died, a job on its first attempt that has not been told to stop is  *)
(* not recorded as failed, whoever tries to cancel it.                     *)
UnheardNotFailed ==
  \A j \in Jobs :
    faults = 0 /\ child[j] \in {"starting", "running"} /\ bull[j].tries = 0
      => jobRuns[j].status # "failed"

(* When a caller is answered, the attempt it reached comes to its end: it  *)
(* fails, unless it returns just before, and if it was the last one the    *)
(* job stops; unless its worker dies first.  A job with attempts left      *)
(* waits for the next one: the error of a cancellation is an error like    *)
(* any other (cancellation.ts: CancellationError; mutations.ts: cancelJob).*)
CancelWorks ==
  \A j \in Jobs, n \in 0 .. MaxAttempts + MaxCalls :
    /\ \E u \in pongs : call[u].job = j
    /\ child[j] = "heard" /\ bull[j].tries = n
    ~> \/ faults > 0
       \/ bull[j].state = "completed"
       \/ bull[j].tries > n /\ (n + 1 >= MaxAttempts => bull[j].state \notin {"waiting", "active"})

=============================================================================
