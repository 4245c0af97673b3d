----------------------------- MODULE QueueBoard -----------------------------
(***************************************************************************)
(* The tables queues and job_schedulers.  Once a minute an ingest replica, *)
(* under a Redis lock, scans Redis for queues, deletes the rows of missing *)
(* ones and brings the others up to date (apps/ingest/src/repeats/         *)
(* queues.ts); meanwhile a user pauses, resumes or deletes a queue         *)
(* (packages/core/src/mutations.ts) and workers come and go.               *)
(***************************************************************************)
EXTENDS Naturals, FiniteSets, TLC

CONSTANTS
  Queues,
  Keys,          \* scheduler keys
  Specs,         \* what a scheduler says besides its end: pattern, every, tz, ...
  Ends,          \* end dates of schedulers
  Pollers,       \* ingest replicas
  Users,
  Concurrency,   \* QUEUE_INGEST_CONCURRENCY
  MaxChanges,    \* bound on what workers and users do
  MaxFaults,     \* bound on failed calls, dead replicas and incomplete scans
  None, Nobody

VARIABLES
  bull,        \* BullMQ: is the queue there, is it paused, its schedulers
  queues,      \* the table queues, by its unique name
  schedulers,  \* the table job_schedulers, by its unique key
  born,        \* how many rows a queue has had, which tells their ids apart
  tick,        \* where each replica is in ingestQueues
  task,        \* where each replica is with each queue
  user,        \* where each user is in a mutation
  lock,        \* bbb:queues-ingest-lock
  changes, faults

tables == <<queues, schedulers, born>>
vars == <<bull, tables, tick, task, user, lock, changes, faults>>

Sched == [spec : Specs, end : Ends \union {None}]

Queue == [here : BOOLEAN, paused : BOOLEAN, scheds : [Keys -> Sched \union {None}]]

Row == [id : Nat, paused : BOOLEAN]

SchedRow == [queue : Queues, id : Nat, spec : Specs, end : Ends \union {None}]

ASSUME BoardAssumption ==
  /\ None \notin Queues \union Keys \union Ends \union Sched \union Row \union SchedRow
  /\ Nobody \notin Pollers
  /\ Concurrency \in Nat \ {0}
  /\ {MaxChanges, MaxFaults} \subseteq Nat

Tick == [at : {"rest", "scan", "missing", "queues", "end"}, through : SUBSET Queues,
         ever : SUBSET Queues, names : SUBSET Queues, late : BOOLEAN]

QueueTask == [at : {"none", "paused", "select", "write", "list", "prune", "upsert"},
              paused : BOOLEAN, found : BOOLEAN, id : Nat, list : [Keys -> Sched \union {None}],
              keys : [Keys -> {"none", "select", "update", "insert"}]]

Ops == {"pause", "resume", "delete"}

Mutating == [at : {"bull", "row"}, op : Ops, queue : Queues]

HasRow(q) == queues[q] # None

Change == changes < MaxChanges /\ changes' = changes + 1

Fault == faults < MaxFaults /\ faults' = faults + 1

-----------------------------------------------------------------------------
(* BullMQ.  Replicas in the middle of a scan take note of what happens.    *)

NoSchedulers == [k \in Keys |-> None]

Absent == [here |-> FALSE, paused |-> FALSE, scheds |-> NoSchedulers]

Scanning(p) == tick[p].at = "scan"

AddQueue(q) ==
  /\ ~bull[q].here
  /\ Change
  /\ bull' = [bull EXCEPT ![q].here = TRUE]
  /\ tick' = [p \in Pollers |-> IF Scanning(p) THEN [tick[p] EXCEPT !.ever = @ \union {q}]
                                ELSE tick[p]]
  /\ UNCHANGED <<tables, task, user, lock, faults>>

SetScheduler(q, k) ==
  /\ bull[q].here
  /\ Change
  /\ \E s \in (Sched \union {None}) \ {bull[q].scheds[k]} :
       bull' = [bull EXCEPT ![q].scheds[k] = s]
  /\ UNCHANGED <<tables, tick, task, user, lock, faults>>

-----------------------------------------------------------------------------
(* packages/core/src/mutations.ts.                                         *)

Free == [at |-> "idle", op |-> None, queue |-> None]

(* resolveTrackedQueueName                                                 *)
Mutate(u, op, q) ==
  /\ user[u].at = "idle"
  /\ HasRow(q)
  /\ Change
  /\ user' = [user EXCEPT ![u] = [at |-> "bull", op |-> op, queue |-> q]]
  /\ UNCHANGED <<bull, tables, tick, task, lock, faults>>

(* queue.pause, queue.resume                                               *)
SetPaused(u) ==
  LET q == user[u].queue IN
  /\ user[u].at = "bull"
  /\ user[u].op \in {"pause", "resume"}
  /\ bull' = [bull EXCEPT ![q].paused = (user[u].op = "pause")]
  /\ user' = [user EXCEPT ![u].at = "row"]
  /\ UNCHANGED <<tables, tick, task, lock, changes, faults>>

(* queue.obliterate                                                        *)
Obliterate(u) ==
  LET q == user[u].queue IN
  /\ user[u].at = "bull"
  /\ user[u].op = "delete"
  /\ bull' = [bull EXCEPT ![q] = Absent]
  /\ tick' = [p \in Pollers |-> IF Scanning(p) THEN [tick[p] EXCEPT !.through = @ \ {q}]
                                ELSE tick[p]]
  /\ user' = [user EXCEPT ![u].at = "row"]
  /\ UNCHANGED <<tables, task, lock, changes, faults>>

(* updateTrackedQueuePausedState, which throws when the row is gone.       *)
UpdatePausedRow(u) ==
  LET q == user[u].queue IN
  /\ user[u].at = "row"
  /\ user[u].op \in {"pause", "resume"}
  /\ queues' = IF HasRow(q) THEN [queues EXCEPT ![q].paused = (user[u].op = "pause")] ELSE queues
  /\ user' = [user EXCEPT ![u] = Free]
  /\ UNCHANGED <<bull, schedulers, born, tick, task, lock, changes, faults>>

(* DELETE FROM queues, whose schedulers go with them.                      *)
WithoutQueues(gone) ==
  /\ queues' = [q \in Queues |-> IF q \in gone THEN None ELSE queues[q]]
  /\ schedulers' = [k \in Keys |-> IF schedulers[k] # None /\ schedulers[k].queue \in gone
                                   THEN None ELSE schedulers[k]]
  /\ UNCHANGED born

DeleteQueueRow(u) ==
  /\ user[u].at = "row"
  /\ user[u].op = "delete"
  /\ WithoutQueues({user[u].queue})
  /\ user' = [user EXCEPT ![u] = Free]
  /\ UNCHANGED <<bull, tick, task, lock, changes, faults>>

(* The first call throws, or the second after the first has had its effect. *)
FailMutation(u) ==
  /\ user[u].at # "idle"
  /\ Fault
  /\ user' = [user EXCEPT ![u] = Free]
  /\ UNCHANGED <<bull, tables, tick, task, lock, changes>>

-----------------------------------------------------------------------------
(* withLock and autoIngestQueues.  late: the lock expired during the tick. *)

Resting == [at |-> "rest", through |-> {}, ever |-> {}, names |-> {}, late |-> FALSE]

NoTask == [at |-> "none", paused |-> FALSE, found |-> FALSE, id |-> 0,
           list |-> NoSchedulers, keys |-> [k \in Keys |-> "none"]]

NoTasks == [q \in Queues |-> NoTask]

(* queueIngestionRunning: a replica runs one tick at a time.               *)
AcquireLock(p) ==
  /\ tick[p].at = "rest"
  /\ lock = Nobody
  /\ lock' = p
  /\ LET here == {q \in Queues : bull[q].here} IN
       tick' = [tick EXCEPT ![p] = [Resting EXCEPT !.at = "scan", !.through = here, !.ever = here]]
  /\ UNCHANGED <<bull, tables, task, user, changes, faults>>

LockExpires ==
  /\ lock # Nobody
  /\ lock' = Nobody
  /\ tick' = IF tick[lock].at = "rest" THEN tick ELSE [tick EXCEPT ![lock].late = TRUE]
  /\ UNCHANGED <<bull, tables, task, user, changes, faults>>

(* Mutant of ReleasedBy: DEL, whoever owns the lock.                       *)
FreedByAnyone(p) == Nobody

(* RELEASE_LOCK_SCRIPT                                                     *)
ReleasedBy(p) == IF lock = p THEN Nobody ELSE lock

EndTick(p) ==
  /\ tick[p].at = "end"
  /\ tick' = [tick EXCEPT ![p] = Resting]
  /\ lock' = ReleasedBy(p)
  /\ UNCHANGED <<bull, tables, task, user, changes, faults>>

(* A call outside of the tasks throws, or the replica dies.                *)
FailTick(p) ==
  /\ tick[p].at # "rest"
  /\ Fault
  /\ tick' = [tick EXCEPT ![p] = Resting]
  /\ task' = [task EXCEPT ![p] = NoTasks]
  /\ lock' \in {ReleasedBy(p), lock}
  /\ UNCHANGED <<bull, tables, user, changes>>

-----------------------------------------------------------------------------
(* ingestQueuesUnsafe.                                                     *)

(* SCAN returns what was there throughout, and perhaps what was there for  *)
(* a while.                                                                *)
ScanAll(p) ==
  /\ Scanning(p)
  /\ \E names \in SUBSET tick[p].ever :
       /\ tick[p].through \subseteq names
       /\ tick' = [tick EXCEPT ![p].at = "missing", ![p].names = names]
  /\ UNCHANGED <<bull, tables, task, user, lock, changes, faults>>

(* Mutant of ScanPart: the deletion is not skipped.                        *)
ScanPartAsAll(p) ==
  /\ Scanning(p)
  /\ Fault
  /\ \E names \in SUBSET tick[p].ever :
       tick' = [tick EXCEPT ![p].at = "missing", ![p].names = names]
  /\ UNCHANGED <<bull, tables, task, user, lock, changes>>

(* maxTime is over: the missing queues are left alone.                     *)
ScanPart(p) ==
  /\ Scanning(p)
  /\ Fault
  /\ \E names \in SUBSET tick[p].ever :
       tick' = [tick EXCEPT ![p].at = "queues", ![p].names = names]
  /\ UNCHANGED <<bull, tables, task, user, lock, changes>>

DeleteMissing(p) ==
  /\ tick[p].at = "missing"
  /\ WithoutQueues(Queues \ tick[p].names)
  /\ tick' = [tick EXCEPT ![p].at = "queues"]
  /\ UNCHANGED <<bull, task, user, lock, changes, faults>>

Busy(p) == {q \in Queues : task[p][q].at # "none"}

(* mapWithConcurrency takes the next queue ...                             *)
StartTask(p, q) ==
  /\ tick[p].at = "queues"
  /\ q \in tick[p].names
  /\ Cardinality(Busy(p)) < Concurrency
  /\ tick' = [tick EXCEPT ![p].names = @ \ {q}]
  /\ task' = [task EXCEPT ![p][q].at = "paused"]
  /\ UNCHANGED <<bull, tables, user, lock, changes, faults>>

(* ... and returns when all are done.                                      *)
AllDone(p) ==
  /\ tick[p].at = "queues"
  /\ tick[p].names = {}
  /\ Busy(p) = {}
  /\ tick' = [tick EXCEPT ![p].at = "end"]
  /\ UNCHANGED <<bull, tables, task, user, lock, changes, faults>>

(* A call throws: the error is logged and the queue left for another tick. *)
FailTask(p, q) ==
  /\ task[p][q].at # "none"
  /\ Fault
  /\ task' = [task EXCEPT ![p][q] = NoTask]
  /\ UNCHANGED <<bull, tables, tick, user, lock, changes>>

-----------------------------------------------------------------------------
(* upsertQueue.                                                            *)

ReadPaused(p, q) ==
  /\ task[p][q].at = "paused"
  /\ task' = [task EXCEPT ![p][q].at = "select", ![p][q].paused = bull[q].paused]
  /\ UNCHANGED <<bull, tables, tick, user, lock, changes, faults>>

(* The row needs no update when it says what BullMQ said.                  *)
SelectQueue(p, q) ==
  LET same == HasRow(q) /\ queues[q].paused = task[p][q].paused IN
  /\ task[p][q].at = "select"
  /\ task' = [task EXCEPT ![p][q].at = IF same THEN "list" ELSE "write",
                          ![p][q].found = HasRow(q),
                          ![p][q].id = IF same THEN queues[q].id ELSE 0]
  /\ UNCHANGED <<bull, tables, tick, user, lock, changes, faults>>

(* Mutant of UpdateQueue: the pause state is only written on insertion.    *)
UpdateNothing(p, q) ==
  /\ task[p][q].at = "write" /\ task[p][q].found /\ HasRow(q)
  /\ task' = [task EXCEPT ![p][q].at = "list", ![p][q].id = queues[q].id]
  /\ UNCHANGED <<bull, tables, tick, user, lock, changes, faults>>

UpdateQueue(p, q) ==
  /\ task[p][q].at = "write" /\ task[p][q].found /\ HasRow(q)
  /\ queues' = [queues EXCEPT ![q].paused = task[p][q].paused]
  /\ task' = [task EXCEPT ![p][q].at = "list", ![p][q].id = queues[q].id]
  /\ UNCHANGED <<bull, schedulers, born, tick, user, lock, changes, faults>>

InsertQueue(p, q) ==
  /\ task[p][q].at = "write" /\ ~task[p][q].found /\ ~HasRow(q)
  /\ queues' = [queues EXCEPT ![q] = [id |-> born[q] + 1, paused |-> task[p][q].paused]]
  /\ born' = [born EXCEPT ![q] = @ + 1]
  /\ task' = [task EXCEPT ![p][q].at = "list", ![p][q].id = born[q] + 1]
  /\ UNCHANGED <<bull, schedulers, tick, user, lock, changes, faults>>

(* "Failed to update queue", or the name is taken.                         *)
WriteRejected(p, q) ==
  /\ task[p][q].at = "write"
  /\ task[p][q].found # HasRow(q)
  /\ task' = [task EXCEPT ![p][q] = NoTask]
  /\ UNCHANGED <<bull, tables, tick, user, lock, changes, faults>>

-----------------------------------------------------------------------------
(* upsertJobSchedulers.                                                    *)

ListSchedulers(p, q) ==
  /\ task[p][q].at = "list"
  /\ task' = [task EXCEPT ![p][q].at = "prune", ![p][q].list = bull[q].scheds]
  /\ UNCHANGED <<bull, tables, tick, user, lock, changes, faults>>

IsOf(s, q, id) == s # None /\ s.queue = q /\ s.id = id

PruneSchedulers(p, q) ==
  LET t == task[p][q] IN
  /\ t.at = "prune"
  /\ schedulers' = [k \in Keys |-> IF IsOf(schedulers[k], q, t.id) /\ t.list[k] = None
                                   THEN None ELSE schedulers[k]]
  /\ task' = [task EXCEPT ![p][q].at = "upsert",
                ![p][q].keys = [k \in Keys |-> IF t.list[k] = None THEN "none" ELSE "select"]]
  /\ UNCHANGED <<bull, queues, born, tick, user, lock, changes, faults>>

Param(p, q, k) ==
  [queue |-> q, id |-> task[p][q].id, spec |-> task[p][q].list[k].spec,
   end |-> task[p][q].list[k].end]

(* deepEqual finds no keys in a Date: any two dates are equal to it.       *)
SameEnd(a, b) == (a = None) <=> (b = None)

(* getChangedKeys                                                          *)
Changed(new, old) ==
  \/ <<new.queue, new.id, new.spec>> # <<old.queue, old.id, old.spec>>
  \/ ~SameEnd(new.end, old.end)

SelectScheduler(p, q, k) ==
  /\ task[p][q].at = "upsert"
  /\ task[p][q].keys[k] = "select"
  /\ task' = [task EXCEPT ![p][q].keys[k] =
                IF schedulers[k] = None THEN "insert"
                ELSE IF Changed(Param(p, q, k), schedulers[k]) THEN "update" ELSE "none"]
  /\ UNCHANGED <<bull, tables, tick, user, lock, changes, faults>>

(* The queue's row, which the new row must refer to, is still there.       *)
Referred(p, q) == HasRow(q) /\ queues[q].id = task[p][q].id

(* UPDATE WHERE key = k, INSERT, or an error of the database, in which the *)
(* other keys go on all the same.                                          *)
WriteScheduler(p, q, k) ==
  LET do == task[p][q].keys[k] IN
  /\ task[p][q].at = "upsert"
  /\ do \in {"update", "insert"}
  /\ schedulers' = IF Referred(p, q) /\ (do = "update" <=> schedulers[k] # None)
                   THEN [schedulers EXCEPT ![k] = Param(p, q, k)] ELSE schedulers
  /\ task' = [task EXCEPT ![p][q].keys[k] = "none"]
  /\ UNCHANGED <<bull, queues, born, tick, user, lock, changes, faults>>

EndTask(p, q) ==
  /\ task[p][q].at = "upsert"
  /\ \A k \in Keys : task[p][q].keys[k] = "none"
  /\ task' = [task EXCEPT ![p][q] = NoTask]
  /\ UNCHANGED <<bull, tables, tick, user, lock, changes, faults>>

-----------------------------------------------------------------------------
Init ==
  /\ bull \in [Queues -> Queue]
  /\ \A q \in Queues : ~bull[q].here => bull[q] = Absent
  /\ queues = [q \in Queues |-> None]
  /\ schedulers = NoSchedulers
  /\ born = [q \in Queues |-> 0]
  /\ tick = [p \in Pollers |-> Resting]
  /\ task = [p \in Pollers |-> NoTasks]
  /\ user = [u \in Users |-> Free]
  /\ lock = Nobody
  /\ changes = 0 /\ faults = 0

Mutation(u) == SetPaused(u) \/ Obliterate(u) \/ UpdatePausedRow(u) \/ DeleteQueueRow(u)

Task(p, q) ==
  \/ StartTask(p, q) \/ ReadPaused(p, q) \/ SelectQueue(p, q) \/ UpdateQueue(p, q)
  \/ InsertQueue(p, q) \/ WriteRejected(p, q) \/ ListSchedulers(p, q) \/ PruneSchedulers(p, q)
  \/ EndTask(p, q)
  \/ \E k \in Keys : SelectScheduler(p, q, k) \/ WriteScheduler(p, q, k)

Poll(p) ==
  \/ AcquireLock(p) \/ ScanAll(p) \/ DeleteMissing(p) \/ AllDone(p) \/ EndTick(p)
  \/ \E q \in Queues : Task(p, q)

Next ==
  \/ \E q \in Queues : AddQueue(q) \/ \E k \in Keys : SetScheduler(q, k)
  \/ \E u \in Users :
       Mutation(u) \/ FailMutation(u) \/ \E op \in Ops, q \in Queues : Mutate(u, op, q)
  \/ \E p \in Pollers :
       \/ Poll(p) \/ ScanPart(p) \/ FailTick(p)
       \/ \E q \in Queues : FailTask(p, q)
  \/ LockExpires

(* Every replica's timer goes on, mutations end, and Redis keeps TTLs.     *)
Fairness ==
  /\ \A p \in Pollers : WF_vars(Poll(p))
  /\ \A u \in Users : WF_vars(Mutation(u))
  /\ WF_vars(LockExpires)

Spec == Init /\ [][Next]_vars

FairSpec == Spec /\ Fairness

-----------------------------------------------------------------------------
(* Every variable has its type, and a row of a scheduler has a row of its  *)
(* queue, the one it was inserted for (the foreign key of job_schedulers). *)
TypeOK ==
  /\ bull \in [Queues -> Queue]
  /\ queues \in [Queues -> Row \union {None}]
  /\ schedulers \in [Keys -> SchedRow \union {None}]
  /\ born \in [Queues -> Nat]
  /\ tick \in [Pollers -> Tick]
  /\ task \in [Pollers -> [Queues -> QueueTask]]
  /\ user \in [Users -> Mutating \union {Free}]
  /\ lock \in Pollers \union {Nobody}
  /\ changes \in 0..MaxChanges /\ faults \in 0..MaxFaults
  /\ \A q \in Queues : HasRow(q) => queues[q].id = born[q]
  /\ \A k \in Keys : schedulers[k] # None =>
       HasRow(schedulers[k].queue) /\ schedulers[k].id = queues[schedulers[k].queue].id

(* Two replicas poll at the same time only if one of them has outlived its *)
(* lock; and one that has does not free the lock of the other              *)
(* (distributed-lock.ts: withLock).                                        *)
OneTickInTime ==
  \A p, r \in Pollers :
    tick[p].at # "rest" /\ tick[r].at # "rest" /\ ~tick[p].late /\ ~tick[r].late => p = r

(* A queue loses its row, and its schedulers theirs, only if BullMQ did    *)
(* not have it, now or at some time of the scan: never because a scan was  *)
(* cut short (queues.ts: scan.complete).                                   *)
PresentQueuesKept ==
  [][\A q \in Queues : HasRow(q) /\ ~HasRow(q)' =>
       \/ \E p \in Pollers : tick[p].at = "missing" /\ q \notin tick[p].through
       \/ \E u \in Users : user[u].at = "row" /\ user[u].op = "delete" /\ user[u].queue = q]_vars

(* What the board shows of a scheduler.                                    *)
Shown(q, k) ==
  IF ~HasRow(q) \/ ~IsOf(schedulers[k], q, queues[q].id) THEN None
  ELSE [spec |-> schedulers[k].spec, end |-> schedulers[k].end]

(* When workers and users leave the queues alone the board comes to agree  *)
(* with BullMQ, whatever raced before: stale reads, late replicas, rows    *)
(* deleted or inserted under a task, failed mutations (queues.ts:          *)
(* ingestQueuesUnsafe).                                                    *)
BoardSettles ==
  \A q \in Queues :
    <>[](/\ HasRow(q) <=> bull[q].here
         /\ HasRow(q) => /\ queues[q].paused = bull[q].paused
                         /\ \A k \in Keys : Shown(q, k) = bull[q].scheds[k])

=============================================================================
