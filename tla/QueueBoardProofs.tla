--------------------------- MODULE QueueBoardProofs ---------------------------
(***************************************************************************)
(* Proofs about QueueBoard: the Redis lock keeps replicas that are in time *)
(* from polling together, and no queue that BullMQ has loses its row to a  *)
(* scan that was cut short.                                                *)
(***************************************************************************)
EXTENDS QueueBoard, TLAPS

TickType == tick \in [Pollers -> Tick] /\ lock \in Pollers \union {Nobody}

(* Who polls in time holds the lock; who is about to delete rows has seen  *)
(* every queue that was there throughout the scan.                         *)
Holds(p) == tick[p].at # "rest" /\ ~tick[p].late => lock = p

SawAll(p) == tick[p].at = "missing" => tick[p].through \subseteq tick[p].names

LockInv == TickType /\ \A p \in Pollers : Holds(p) /\ SawAll(p)

(* Resting replicas have no tick under way.                                *)
LEMMA RestingType == Resting \in Tick /\ Resting.at = "rest"
BY DEF Resting, Tick

(* At the start every replica rests.                                       *)
LEMMA LockInit == Init => LockInv
<1> SUFFICES ASSUME Init PROVE LockInv
  OBVIOUS
<1>1. TickType
  BY RestingType DEF Init, TickType
<1>2. ASSUME NEW p \in Pollers PROVE Holds(p) /\ SawAll(p)
  BY RestingType DEF Init, Holds, SawAll
<1> QED
  BY <1>1, <1>2 DEF LockInv

(* A step that touches neither the ticks nor the lock.                     *)
LEMMA QuietStep == LockInv /\ tick' = tick /\ lock' = lock => LockInv'
BY DEF LockInv, TickType, Holds, SawAll

(* A step of one replica that goes on, in time or late as it was.          *)
LEMMA GoOnStep ==
  ASSUME LockInv, lock' = lock, NEW p \in Pollers, NEW t \in Tick,
         tick' = [tick EXCEPT ![p] = t],
         tick[p].at # "rest", t.late = tick[p].late,
         t.at = "missing" => t.through \subseteq t.names
  PROVE  LockInv'
<1>1. TickType'
  BY DEF LockInv, TickType
<1>2. ASSUME NEW r \in Pollers PROVE Holds(r)' /\ SawAll(r)'
  <2>1. CASE r = p
    BY <2>1 DEF LockInv, TickType, Holds, SawAll
  <2>2. CASE r # p
    BY <2>2 DEF LockInv, TickType, Holds, SawAll
  <2> QED
    BY <2>1, <2>2
<1> QED
  BY <1>1, <1>2 DEF LockInv

(* A replica that ends its tick frees no lock but its own.                 *)
LEMMA RestStep ==
  ASSUME LockInv, NEW p \in Pollers, tick' = [tick EXCEPT ![p] = Resting],
         lock' \in {ReleasedBy(p), lock}
  PROVE  LockInv'
<1>1. TickType'
  BY RestingType DEF LockInv, TickType, ReleasedBy
<1>2. ASSUME NEW r \in Pollers PROVE Holds(r)' /\ SawAll(r)'
  <2>1. CASE r = p
    BY <2>1, RestingType DEF LockInv, TickType, Holds, SawAll
  <2>2. CASE r # p
    BY <2>2 DEF LockInv, TickType, Holds, SawAll, ReleasedBy
  <2> QED
    BY <2>1, <2>2
<1> QED
  BY <1>1, <1>2 DEF LockInv

(* BullMQ changes under a scan: the replicas that scan take note of it.    *)
LEMMA NoteStep ==
  ASSUME LockInv, lock' = lock, tick' \in [Pollers -> Tick],
         \A p \in Pollers : /\ tick'[p].at = tick[p].at /\ tick'[p].late = tick[p].late
                            /\ ~Scanning(p) => tick'[p] = tick[p]
  PROVE  LockInv'
<1>1. TickType'
  BY DEF LockInv, TickType
<1>2. ASSUME NEW r \in Pollers PROVE Holds(r)' /\ SawAll(r)'
  BY DEF LockInv, TickType, Holds, SawAll, Scanning
<1> QED
  BY <1>1, <1>2 DEF LockInv

(* Every step keeps the lock, and what a replica saw.                      *)
LEMMA LockStep == LockInv /\ [Next]_vars => LockInv'
<1> SUFFICES ASSUME LockInv, [Next]_vars PROVE LockInv'
  OBVIOUS
<1>0. tick \in [Pollers -> Tick] /\ lock \in Pollers \union {Nobody}
  BY DEF LockInv, TickType
<1>1. ASSUME NEW q \in Queues, AddQueue(q) PROVE LockInv'
  <2>1. ASSUME NEW p \in Pollers
        PROVE  /\ tick'[p] \in Tick /\ tick'[p].at = tick[p].at /\ tick'[p].late = tick[p].late
               /\ ~Scanning(p) => tick'[p] = tick[p]
    BY <1>0, <1>1 DEF AddQueue, Tick
  <2>2. tick' \in [Pollers -> Tick]
    BY <2>1, <1>1 DEF AddQueue
  <2> QED
    BY <1>1, <2>1, <2>2, NoteStep DEF AddQueue
<1>2. ASSUME NEW u \in Users, Obliterate(u) PROVE LockInv'
  <2>1. ASSUME NEW p \in Pollers
        PROVE  /\ tick'[p] \in Tick /\ tick'[p].at = tick[p].at /\ tick'[p].late = tick[p].late
               /\ ~Scanning(p) => tick'[p] = tick[p]
    BY <1>0, <1>2 DEF Obliterate, Tick
  <2>2. tick' \in [Pollers -> Tick]
    BY <2>1, <1>2 DEF Obliterate
  <2> QED
    BY <1>2, <2>1, <2>2, NoteStep DEF Obliterate
<1>3. ASSUME NEW p \in Pollers, AcquireLock(p) PROVE LockInv'
  <2> DEFINE here == {q \in Queues : bull[q].here}
             t    == [Resting EXCEPT !.at = "scan", !.through = here, !.ever = here]
  <2>1. t \in Tick /\ t.at = "scan"
    BY DEF Tick, Resting
  <2>2. tick' = [tick EXCEPT ![p] = t] /\ lock' = p /\ lock = Nobody
    BY <1>3 DEF AcquireLock
  <2> HIDE DEF t
  <2>3. TickType'
    BY <1>0, <2>1, <2>2 DEF TickType
  <2>4. ASSUME NEW r \in Pollers PROVE Holds(r)' /\ SawAll(r)'
    <3>1. CASE r = p
      BY <1>0, <2>1, <2>2, <3>1 DEF Holds, SawAll
    <3>2. CASE r # p
      BY <1>0, <2>2, <3>2, BoardAssumption DEF LockInv, Holds, SawAll, BoardAssumption
    <3> QED
      BY <3>1, <3>2
  <2> QED
    BY <2>3, <2>4 DEF LockInv
<1>4. CASE LockExpires
  <2>1. CASE lock \in Pollers /\ tick[lock].at # "rest"
    <3> DEFINE t == [tick[lock] EXCEPT !.late = TRUE]
    <3>1. t \in Tick /\ t.late /\ t.at = tick[lock].at /\ t.through = tick[lock].through
          /\ t.names = tick[lock].names
      BY <1>0, <2>1 DEF Tick
    <3>2. tick' = [tick EXCEPT ![lock] = t] /\ lock' = Nobody
      BY <1>4, <2>1 DEF LockExpires
    <3> HIDE DEF t
    <3>3. TickType'
      BY <1>0, <2>1, <3>1, <3>2 DEF TickType
    <3>4. ASSUME NEW r \in Pollers PROVE Holds(r)' /\ SawAll(r)'
      BY <1>0, <2>1, <3>1, <3>2 DEF LockInv, Holds, SawAll
    <3> QED
      BY <3>3, <3>4 DEF LockInv
  <2>2. CASE ~(lock \in Pollers /\ tick[lock].at # "rest")
    BY <1>0, <1>4, <2>2 DEF LockInv, TickType, Holds, SawAll, LockExpires
  <2> QED
    BY <2>1, <2>2
<1>5. ASSUME NEW p \in Pollers, EndTick(p) \/ FailTick(p) PROVE LockInv'
  BY <1>5, RestStep DEF EndTick, FailTick
<1>6. ASSUME NEW p \in Pollers,
             ScanAll(p) \/ ScanPart(p) \/ DeleteMissing(p) \/ AllDone(p)
             \/ \E q \in Queues : StartTask(p, q)
      PROVE  LockInv'
  <2>1. PICK t \in Tick :
          /\ tick' = [tick EXCEPT ![p] = t] /\ tick[p].at # "rest" /\ t.late = tick[p].late
          /\ t.at = "missing" => t.through \subseteq t.names
    <3>1. CASE ScanAll(p)
      <4>1. PICK names \in SUBSET tick[p].ever :
              /\ tick[p].through \subseteq names
              /\ tick' = [tick EXCEPT ![p].at = "missing", ![p].names = names]
        BY <3>1 DEF ScanAll
      <4> DEFINE t == [tick[p] EXCEPT !.at = "missing", !.names = names]
      <4>2. t \in Tick /\ t.late = tick[p].late /\ t.through = tick[p].through /\ t.names = names
        BY <1>0 DEF Tick
      <4>3. tick' = [tick EXCEPT ![p] = t]
        BY <1>0, <4>1
      <4> HIDE DEF t
      <4> QED
        BY <3>1, <4>1, <4>2, <4>3 DEF ScanAll, Scanning
    <3>2. CASE ScanPart(p)
      <4>1. PICK names \in SUBSET tick[p].ever :
              tick' = [tick EXCEPT ![p].at = "queues", ![p].names = names]
        BY <3>2 DEF ScanPart
      <4> DEFINE t == [tick[p] EXCEPT !.at = "queues", !.names = names]
      <4>2. t \in Tick /\ t.late = tick[p].late /\ t.at = "queues"
        BY <1>0 DEF Tick
      <4>3. tick' = [tick EXCEPT ![p] = t]
        BY <1>0, <4>1
      <4> HIDE DEF t
      <4> QED
        BY <3>2, <4>2, <4>3 DEF ScanPart, Scanning
    <3>3. CASE DeleteMissing(p) \/ AllDone(p)
      <4>1. PICK a \in {"queues", "end"} : tick' = [tick EXCEPT ![p].at = a]
        BY <3>3 DEF DeleteMissing, AllDone
      <4> DEFINE t == [tick[p] EXCEPT !.at = a]
      <4>2. t \in Tick /\ t.late = tick[p].late /\ t.at = a
        BY <1>0 DEF Tick
      <4>3. tick' = [tick EXCEPT ![p] = t]
        BY <1>0, <4>1
      <4> HIDE DEF t
      <4> QED
        BY <3>3, <4>2, <4>3 DEF DeleteMissing, AllDone
    <3>4. CASE \E q \in Queues : StartTask(p, q)
      <4>1. PICK q \in Queues : StartTask(p, q)
        BY <3>4
      <4> DEFINE t == [tick[p] EXCEPT !.names = @ \ {q}]
      <4>2. t \in Tick /\ t.late = tick[p].late /\ t.at = tick[p].at
        BY <1>0 DEF Tick
      <4>3. tick' = [tick EXCEPT ![p] = t] /\ tick[p].at = "queues"
        BY <1>0, <4>1 DEF StartTask
      <4> HIDE DEF t
      <4> QED
        BY <4>2, <4>3
    <3> QED
      BY <1>6, <3>1, <3>2, <3>3, <3>4
  <2>2. lock' = lock
    BY <1>6 DEF ScanAll, ScanPart, DeleteMissing, AllDone, StartTask
  <2> QED
    BY <2>1, <2>2, GoOnStep
<1>7. ASSUME NEW p \in Pollers, NEW q \in Queues,
             \/ ReadPaused(p, q) \/ SelectQueue(p, q) \/ UpdateQueue(p, q) \/ InsertQueue(p, q)
             \/ WriteRejected(p, q) \/ ListSchedulers(p, q) \/ PruneSchedulers(p, q)
             \/ EndTask(p, q) \/ FailTask(p, q)
             \/ \E k \in Keys : SelectScheduler(p, q, k) \/ WriteScheduler(p, q, k)
      PROVE  LockInv'
  BY <1>7, QuietStep DEF ReadPaused, SelectQueue, UpdateQueue, InsertQueue, WriteRejected,
     ListSchedulers, PruneSchedulers, EndTask, FailTask, SelectScheduler, WriteScheduler
<1>8. ASSUME NEW u \in Users,
             \/ SetPaused(u) \/ UpdatePausedRow(u) \/ DeleteQueueRow(u) \/ FailMutation(u)
             \/ \E op \in Ops, q \in Queues : Mutate(u, op, q)
      PROVE  LockInv'
  BY <1>8, QuietStep DEF SetPaused, UpdatePausedRow, DeleteQueueRow, FailMutation, Mutate
<1>9. CASE UNCHANGED vars \/ \E q \in Queues, k \in Keys : SetScheduler(q, k)
  BY <1>9, QuietStep DEF vars, SetScheduler
<1> QED
  BY <1>1, <1>2, <1>3, <1>4, <1>5, <1>6, <1>7, <1>8, <1>9
     DEF Next, Mutation, Poll, Task

-----------------------------------------------------------------------------
(* The types of the rest, table by table.                                  *)
BullType == bull \in [Queues -> Queue] /\ user \in [Users -> Mutating \union {Free}]

CountType == changes \in 0..MaxChanges /\ faults \in 0..MaxFaults

(* Only schedulers that were listed are looked up and written.             *)
Listed(t) ==
  t.at = "upsert" => \A k \in Keys : t.keys[k] # "none" => t.list[k] # None

TaskType ==
  /\ task \in [Pollers -> [Queues -> QueueTask]]
  /\ \A p \in Pollers, q \in Queues : Listed(task[p][q])

TableType ==
  /\ queues \in [Queues -> Row \union {None}]
  /\ schedulers \in [Keys -> SchedRow \union {None}]
  /\ born \in [Queues -> Nat]
  /\ \A q \in Queues : HasRow(q) => queues[q].id = born[q]
  /\ \A k \in Keys : schedulers[k] # None =>
       HasRow(schedulers[k].queue) /\ schedulers[k].id = queues[schedulers[k].queue].id

TypeInv == LockInv /\ BullType /\ CountType /\ TaskType /\ TableType

(* BullMQ and the mutations under way keep their types.                    *)
LEMMA BullStep == BullType /\ [Next]_vars => BullType'
<1> SUFFICES ASSUME BullType, [Next]_vars PROVE BullType'
  OBVIOUS
<1>0. NoSchedulers \in [Keys -> Sched \union {None}] /\ Absent \in Queue
  BY DEF NoSchedulers, Absent, Queue
<1>1. ASSUME NEW q \in Queues, AddQueue(q) PROVE BullType'
  BY <1>1 DEF BullType, AddQueue, Queue
<1>2. ASSUME NEW q \in Queues, NEW k \in Keys, SetScheduler(q, k) PROVE BullType'
  <2>1. PICK s \in Sched \union {None} : bull' = [bull EXCEPT ![q].scheds[k] = s]
    BY <1>2 DEF SetScheduler
  <2> DEFINE new == [bull[q] EXCEPT !.scheds = [bull[q].scheds EXCEPT ![k] = s]]
  <2>2. new \in Queue
    BY DEF BullType, Queue
  <2>3. bull' = [bull EXCEPT ![q] = new]
    BY <2>1 DEF BullType
  <2> HIDE DEF new
  <2> QED
    BY <1>2, <2>2, <2>3 DEF BullType, SetScheduler
<1>3. ASSUME NEW u \in Users, NEW op \in Ops, NEW q \in Queues, Mutate(u, op, q)
      PROVE  BullType'
  BY <1>3 DEF BullType, Mutate, Mutating
<1>4. ASSUME NEW u \in Users, Mutation(u) \/ FailMutation(u) PROVE BullType'
  <2>1. CASE FailMutation(u)
    BY <2>1 DEF BullType, FailMutation
  <2>2. CASE Mutation(u)
    <3>1. user[u] \in Mutating
      BY <2>2 DEF BullType, Mutation, SetPaused, Obliterate, UpdatePausedRow, DeleteQueueRow, Free
    <3>2. CASE SetPaused(u)
      <4> DEFINE q   == user[u].queue
                 new == [bull[q] EXCEPT !.paused = (user[u].op = "pause")]
      <4>1. q \in Queues /\ bull[q] \in Queue
        BY <3>1 DEF BullType, Mutating
      <4>2. new \in Queue
        <5>1. (user[u].op = "pause") \in BOOLEAN
          OBVIOUS
        <5> QED
          BY <4>1, <5>1 DEF Queue
      <4>3. bull' = [bull EXCEPT ![q] = new]
        BY <3>2, <4>1 DEF BullType, SetPaused
      <4>4. user' \in [Users -> Mutating \union {Free}]
        BY <3>1, <3>2 DEF BullType, SetPaused, Mutating
      <4> HIDE DEF new, q
      <4> QED
        BY <4>1, <4>2, <4>3, <4>4 DEF BullType
    <3>3. CASE Obliterate(u)
      BY <1>0, <3>1, <3>3 DEF BullType, Obliterate, Mutating
    <3>4. CASE UpdatePausedRow(u) \/ DeleteQueueRow(u)
      BY <3>4 DEF BullType, UpdatePausedRow, DeleteQueueRow
    <3> QED
      BY <2>2, <3>2, <3>3, <3>4 DEF Mutation
  <2> QED
    BY <1>4, <2>1, <2>2
<1>5. ASSUME NEW p \in Pollers, NEW q \in Queues, Task(p, q) \/ FailTask(p, q)
      PROVE  BullType'
  BY <1>5 DEF BullType, Task, StartTask, ReadPaused, SelectQueue, UpdateQueue, InsertQueue,
     WriteRejected, ListSchedulers, PruneSchedulers, EndTask, FailTask, SelectScheduler,
     WriteScheduler
<1>6. ASSUME NEW p \in Pollers,
             \/ AcquireLock(p) \/ ScanAll(p) \/ DeleteMissing(p) \/ AllDone(p) \/ EndTick(p)
             \/ ScanPart(p) \/ FailTick(p)
      PROVE  BullType'
  BY <1>6 DEF BullType, AcquireLock, ScanAll, DeleteMissing, AllDone, EndTick, ScanPart, FailTick
<1>7. CASE LockExpires \/ UNCHANGED vars
  BY <1>7 DEF BullType, LockExpires, vars
<1> QED
  BY <1>1, <1>2, <1>3, <1>4, <1>5, <1>6, <1>7 DEF Next, Poll

(* The bounds are kept.                                                    *)
LEMMA CountStep == CountType /\ [Next]_vars => CountType'
<1> SUFFICES ASSUME CountType, [Next]_vars PROVE CountType'
  OBVIOUS
<1>0. MaxChanges \in Nat /\ MaxFaults \in Nat
  BY BoardAssumption DEF BoardAssumption
<1>1. (changes' = changes \/ Change) /\ (faults' = faults \/ Fault)
  <2>1. ASSUME NEW p \in Pollers, NEW q \in Queues, Task(p, q) \/ FailTask(p, q)
        PROVE  changes' = changes /\ (faults' = faults \/ Fault)
    BY <2>1 DEF Task, StartTask, ReadPaused, SelectQueue, UpdateQueue, InsertQueue,
       WriteRejected, ListSchedulers, PruneSchedulers, EndTask, FailTask, SelectScheduler,
       WriteScheduler
  <2>2. ASSUME NEW p \in Pollers,
               \/ AcquireLock(p) \/ ScanAll(p) \/ DeleteMissing(p) \/ AllDone(p) \/ EndTick(p)
               \/ ScanPart(p) \/ FailTick(p)
        PROVE  changes' = changes /\ (faults' = faults \/ Fault)
    BY <2>2 DEF AcquireLock, ScanAll, DeleteMissing, AllDone, EndTick, ScanPart, FailTick
  <2>3. ASSUME NEW u \in Users,
               Mutation(u) \/ FailMutation(u) \/ \E op \in Ops, q \in Queues : Mutate(u, op, q)
        PROVE  (changes' = changes \/ Change) /\ (faults' = faults \/ Fault)
    BY <2>3 DEF Mutation, Mutate, SetPaused, Obliterate, UpdatePausedRow, DeleteQueueRow,
       FailMutation
  <2>4. ASSUME NEW q \in Queues, AddQueue(q) \/ \E k \in Keys : SetScheduler(q, k)
        PROVE  Change /\ faults' = faults
    BY <2>4 DEF AddQueue, SetScheduler
  <2>5. CASE LockExpires \/ UNCHANGED vars
    BY <2>5 DEF LockExpires, vars
  <2> QED
    BY <2>1, <2>2, <2>3, <2>4, <2>5 DEF Next, Poll
<1> QED
  BY <1>0, <1>1 DEF CountType, Change, Fault

(* A task that goes on with what it has read.                              *)
LEMMA TaskGoesOn ==
  ASSUME TaskType, NEW p \in Pollers, NEW q \in Queues, NEW t \in QueueTask, Listed(t),
         task' = [task EXCEPT ![p][q] = t]
  PROVE  TaskType'
BY DEF TaskType

(* No task: it has listed nothing.                                         *)
LEMMA NoTaskType == NoTask \in QueueTask /\ Listed(NoTask)
BY DEF NoTask, NoSchedulers, QueueTask, Listed

(* Tasks hold what BullMQ and the tables may say.                          *)
LEMMA TaskStep == BullType /\ TableType /\ TaskType /\ [Next]_vars => TaskType'
<1> SUFFICES ASSUME BullType, TableType, TaskType, [Next]_vars PROVE TaskType'
  OBVIOUS
<1>0. ASSUME NEW p \in Pollers, NEW q \in Queues
      PROVE  task[p][q] \in QueueTask /\ Listed(task[p][q])
  BY DEF TaskType
<1>1. ASSUME NEW p \in Pollers, NEW q \in Queues, Task(p, q) \/ FailTask(p, q)
      PROVE  TaskType'
  <2> DEFINE old == task[p][q]
  <2>0. old \in QueueTask /\ Listed(old)
    BY <1>0
  <2> HIDE DEF old
  <2>1. ASSUME NEW t \in QueueTask, Listed(t), task' = [task EXCEPT ![p][q] = t]
        PROVE  TaskType'
    BY <2>1, TaskGoesOn
  <2>2. CASE task' = [task EXCEPT ![p][q] = NoTask]
    BY <2>1, <2>2, NoTaskType
  <2>3. CASE StartTask(p, q)
    <3> DEFINE t == [old EXCEPT !.at = "paused"]
    <3>1. t \in QueueTask /\ Listed(t)
      BY <2>0 DEF QueueTask, Listed
    <3>2. task' = [task EXCEPT ![p][q] = t]
      BY <2>3 DEF StartTask, TaskType, old
    <3> QED
      BY <2>1, <3>1, <3>2
  <2>4. CASE ReadPaused(p, q)
    <3> DEFINE t == [old EXCEPT !.at = "select", !.paused = bull[q].paused]
    <3>1. t \in QueueTask /\ Listed(t)
      BY <2>0 DEF QueueTask, Listed, BullType, Queue
    <3>2. task' = [task EXCEPT ![p][q] = t]
      BY <2>4 DEF ReadPaused, TaskType, old
    <3> QED
      BY <2>1, <3>1, <3>2
  <2>5. CASE SelectQueue(p, q)
    <3> DEFINE same == HasRow(q) /\ queues[q].paused = old.paused
               a    == IF same THEN "list" ELSE "write"
               n    == IF same THEN queues[q].id ELSE 0
               t    == [old EXCEPT !.at = a, !.found = HasRow(q), !.id = n]
    <3>1. a \in {"list", "write"} /\ n \in Nat /\ HasRow(q) \in BOOLEAN
      BY DEF TableType, HasRow, Row
    <3>2. task' = [task EXCEPT ![p][q] = t]
      <4>1. task' = [task EXCEPT ![p][q].at = a, ![p][q].found = HasRow(q), ![p][q].id = n]
        BY <2>5, Zenon DEF SelectQueue, old
      <4> HIDE DEF a, n
      <4> QED
        BY <4>1 DEF TaskType, old
    <3> HIDE DEF a, n
    <3>3. t \in QueueTask /\ Listed(t)
      BY <2>0, <3>1 DEF QueueTask, Listed
    <3> QED
      BY <2>1, <3>2, <3>3
  <2>6. CASE UpdateQueue(p, q) \/ InsertQueue(p, q)
    <3>1. PICK n \in Nat : task' = [task EXCEPT ![p][q] = [old EXCEPT !.at = "list", !.id = n]]
      <4>1. CASE UpdateQueue(p, q)
        <5>1. queues[q].id \in Nat
          BY <4>1 DEF UpdateQueue, TableType, HasRow, Row
        <5>2. task' = [task EXCEPT ![p][q] = [old EXCEPT !.at = "list", !.id = queues[q].id]]
          BY <4>1 DEF UpdateQueue, TaskType, old
        <5> QED
          BY <5>1, <5>2
      <4>2. CASE InsertQueue(p, q)
        <5>1. born[q] + 1 \in Nat
          BY DEF TableType
        <5>2. task' = [task EXCEPT ![p][q] = [old EXCEPT !.at = "list", !.id = born[q] + 1]]
          BY <4>2 DEF InsertQueue, TaskType, old
        <5> QED
          BY <5>1, <5>2
      <4> QED
        BY <2>6, <4>1, <4>2
    <3> DEFINE t == [old EXCEPT !.at = "list", !.id = n]
    <3>2. t \in QueueTask /\ Listed(t)
      BY <2>0 DEF QueueTask, Listed
    <3> QED
      BY <2>1, <3>1, <3>2
  <2>7. CASE ListSchedulers(p, q)
    <3> DEFINE t == [old EXCEPT !.at = "prune", !.list = bull[q].scheds]
    <3>1. t \in QueueTask /\ Listed(t)
      BY <2>0 DEF QueueTask, Listed, BullType, Queue
    <3>2. task' = [task EXCEPT ![p][q] = t]
      BY <2>7 DEF ListSchedulers, TaskType, old
    <3> QED
      BY <2>1, <3>1, <3>2
  <2>8. CASE PruneSchedulers(p, q)
    <3> DEFINE ks == [k \in Keys |-> IF old.list[k] = None THEN "none" ELSE "select"]
               t  == [old EXCEPT !.at = "upsert", !.keys = ks]
    <3>1. ks \in [Keys -> {"none", "select", "update", "insert"}]
      OBVIOUS
    <3>2. \A k \in Keys : ks[k] # "none" => old.list[k] # None
      OBVIOUS
    <3>3. task' = [task EXCEPT ![p][q] = t]
      BY <2>8 DEF PruneSchedulers, TaskType, old
    <3> HIDE DEF ks
    <3>4. t \in QueueTask /\ Listed(t)
      BY <2>0, <3>1, <3>2 DEF QueueTask, Listed
    <3> QED
      BY <2>1, <3>3, <3>4
  <2>9. ASSUME NEW k \in Keys, SelectScheduler(p, q, k) \/ WriteScheduler(p, q, k)
        PROVE  TaskType'
    <3>1. PICK do \in {"none", "update", "insert"} :
            task' = [task EXCEPT ![p][q].keys[k] = do]
      BY <2>9 DEF SelectScheduler, WriteScheduler
    <3>2. old.at = "upsert" /\ old.keys[k] # "none"
      BY <2>9 DEF SelectScheduler, WriteScheduler, old
    <3> DEFINE ks == [old.keys EXCEPT ![k] = do]
               t  == [old EXCEPT !.keys = ks]
    <3>3. ks \in [Keys -> {"none", "select", "update", "insert"}]
      BY <2>0 DEF QueueTask
    <3>4. \A l \in Keys : ks[l] # "none" => old.list[l] # None
      BY <2>0, <3>2 DEF QueueTask, Listed
    <3>5. task' = [task EXCEPT ![p][q] = t]
      BY <3>1 DEF TaskType, old
    <3> HIDE DEF ks
    <3>6. t \in QueueTask /\ Listed(t)
      BY <2>0, <3>3, <3>4 DEF QueueTask, Listed
    <3> QED
      BY <2>1, <3>5, <3>6
  <2> QED
    BY <1>1, <2>2, <2>3, <2>4, <2>5, <2>6, <2>7, <2>8, <2>9
       DEF Task, WriteRejected, EndTask, FailTask
<1>2. ASSUME NEW p \in Pollers, FailTick(p) PROVE TaskType'
  <2>1. NoTasks \in [Queues -> QueueTask] /\ \A q \in Queues : Listed(NoTasks[q])
    BY NoTaskType DEF NoTasks
  <2> QED
    BY <1>2, <2>1 DEF FailTick, TaskType
<1>3. ASSUME task' = task PROVE TaskType'
  BY <1>3 DEF TaskType
<1>4. ASSUME NEW p \in Pollers,
             \/ AcquireLock(p) \/ ScanAll(p) \/ DeleteMissing(p) \/ AllDone(p) \/ EndTick(p)
             \/ ScanPart(p)
      PROVE  task' = task
  BY <1>4 DEF AcquireLock, ScanAll, DeleteMissing, AllDone, EndTick, ScanPart
<1>5. ASSUME NEW u \in Users,
             Mutation(u) \/ FailMutation(u) \/ \E op \in Ops, q \in Queues : Mutate(u, op, q)
      PROVE  task' = task
  BY <1>5 DEF Mutation, Mutate, SetPaused, Obliterate, UpdatePausedRow, DeleteQueueRow,
     FailMutation
<1>6. CASE \/ LockExpires \/ UNCHANGED vars
           \/ \E q \in Queues : AddQueue(q) \/ \E k \in Keys : SetScheduler(q, k)
  BY <1>3, <1>6 DEF AddQueue, SetScheduler, LockExpires, vars
<1> QED
  BY <1>1, <1>2, <1>3, <1>4, <1>5, <1>6 DEF Next, Poll

(* Deleting rows of queues takes their schedulers along.                   *)
LEMMA WithoutType ==
  ASSUME TableType, NEW gone, WithoutQueues(gone)
  PROVE  TableType'
<1>1. /\ queues' \in [Queues -> Row \union {None}]
      /\ schedulers' \in [Keys -> SchedRow \union {None}]
      /\ born' \in [Queues -> Nat]
  BY DEF TableType, WithoutQueues
<1>2. ASSUME NEW q \in Queues, HasRow(q)' PROVE queues'[q].id = born'[q]
  BY <1>2 DEF TableType, WithoutQueues, HasRow
<1>3. ASSUME NEW k \in Keys, schedulers'[k] # None
      PROVE  HasRow(schedulers[k].queue)' /\ schedulers'[k].id = queues'[schedulers'[k].queue].id
             /\ schedulers'[k] = schedulers[k]
  <2>1. /\ schedulers'[k] = schedulers[k] /\ schedulers[k] # None
        /\ schedulers[k].queue \notin gone
    BY <1>3 DEF TableType, WithoutQueues
  <2>2. schedulers[k].queue \in Queues
    BY <2>1 DEF TableType, SchedRow
  <2> QED
    BY <2>1, <2>2 DEF TableType, WithoutQueues, HasRow
<1> QED
  BY <1>1, <1>2, <1>3 DEF TableType, HasRow

(* A row that says something else of its queue is still that row.          *)
LEMMA PausedType ==
  ASSUME TableType, NEW q \in Queues, NEW b \in BOOLEAN, HasRow(q),
         queues' = [queues EXCEPT ![q].paused = b], UNCHANGED <<schedulers, born>>
  PROVE  TableType'
<1> DEFINE row == [queues[q] EXCEPT !.paused = b]
<1>1. row \in Row /\ row.id = queues[q].id
  BY DEF TableType, HasRow, Row
<1>2. queues' = [queues EXCEPT ![q] = row]
  BY DEF TableType
<1>3. row # None
  BY <1>1, BoardAssumption DEF BoardAssumption
<1> HIDE DEF row
<1>4. \A r \in Queues : (HasRow(r)' <=> HasRow(r)) /\ queues'[r].id = queues[r].id
  BY <1>1, <1>2, <1>3 DEF TableType, HasRow
<1>5. \A k \in Keys : schedulers[k] # None => schedulers[k].queue \in Queues
  BY DEF TableType, SchedRow
<1>6. queues' \in [Queues -> Row \union {None}]
  BY <1>1, <1>2 DEF TableType
<1>7. \A r \in Queues : HasRow(r)' => queues'[r].id = born'[r]
  BY <1>4 DEF TableType
<1>8. ASSUME NEW k \in Keys, schedulers'[k] # None
      PROVE  /\ HasRow(schedulers[k].queue)'
             /\ schedulers'[k].id = queues'[schedulers'[k].queue].id
  BY <1>4, <1>5, <1>8 DEF TableType
<1> QED
  BY <1>6, <1>7, <1>8 DEF TableType, HasRow

(* Rows of schedulers keep referring to the row of their queue.            *)
LEMMA TableStep == BullType /\ TaskType /\ TableType /\ [Next]_vars => TableType'
<1> SUFFICES ASSUME BullType, TaskType, TableType, [Next]_vars PROVE TableType'
  OBVIOUS
<1>1. ASSUME UNCHANGED tables PROVE TableType'
  BY <1>1 DEF tables, TableType, HasRow
<1>2. ASSUME NEW u \in Users, UpdatePausedRow(u) PROVE TableType'
  <2>1. user[u].queue \in Queues
    BY <1>2 DEF BullType, UpdatePausedRow, Free, Mutating
  <2>2. CASE HasRow(user[u].queue)
    BY <1>2, <2>1, <2>2, PausedType DEF UpdatePausedRow
  <2>3. CASE ~HasRow(user[u].queue)
    BY <1>1, <1>2, <2>3 DEF UpdatePausedRow, tables
  <2> QED
    BY <2>2, <2>3
<1>3. ASSUME NEW u \in Users, DeleteQueueRow(u) PROVE TableType'
  BY <1>3, WithoutType DEF DeleteQueueRow
<1>4. ASSUME NEW p \in Pollers, DeleteMissing(p) PROVE TableType'
  BY <1>4, WithoutType DEF DeleteMissing
<1>5. ASSUME NEW p \in Pollers, NEW q \in Queues, UpdateQueue(p, q) PROVE TableType'
  <2>1. task[p][q].paused \in BOOLEAN
    BY DEF TaskType, QueueTask
  <2> QED
    BY <1>5, <2>1, PausedType DEF UpdateQueue
<1>6. ASSUME NEW p \in Pollers, NEW q \in Queues, InsertQueue(p, q) PROVE TableType'
  <2> DEFINE row == [id |-> born[q] + 1, paused |-> task[p][q].paused]
  <2>1. row \in Row /\ row.id = born[q] + 1
    BY DEF TaskType, QueueTask, TableType, Row
  <2>2. row # None
    BY <2>1, BoardAssumption DEF BoardAssumption
  <2>3. queues' = [queues EXCEPT ![q] = row] /\ born' = [born EXCEPT ![q] = born[q] + 1]
        /\ schedulers' = schedulers /\ ~HasRow(q)
    BY <1>6 DEF InsertQueue
  <2> HIDE DEF row
  <2>4. queues' \in [Queues -> Row \union {None}] /\ born' \in [Queues -> Nat]
    BY <2>1, <2>3 DEF TableType
  <2>5. ASSUME NEW r \in Queues, HasRow(r)' PROVE queues'[r].id = born'[r]
    BY <2>1, <2>3, <2>5 DEF TableType, HasRow
  <2>6. ASSUME NEW k \in Keys, schedulers'[k] # None
        PROVE  /\ HasRow(schedulers[k].queue)'
               /\ schedulers'[k].id = queues'[schedulers'[k].queue].id
    <3>1. HasRow(schedulers[k].queue) /\ schedulers[k].queue \in Queues
          /\ schedulers[k].id = queues[schedulers[k].queue].id
      BY <2>3, <2>6 DEF TableType, SchedRow
    <3> QED
      BY <2>3, <3>1 DEF TableType, HasRow
  <2> QED
    BY <2>3, <2>4, <2>5, <2>6 DEF TableType, HasRow
<1>7. ASSUME NEW p \in Pollers, NEW q \in Queues, PruneSchedulers(p, q) PROVE TableType'
  <2>1. /\ queues' = queues /\ born' = born
        /\ schedulers' \in [Keys -> SchedRow \union {None}]
        /\ \A k \in Keys : schedulers'[k] \in {schedulers[k], None}
    BY <1>7 DEF PruneSchedulers, TableType
  <2> QED
    BY <2>1 DEF TableType, HasRow
<1>8. ASSUME NEW p \in Pollers, NEW q \in Queues, NEW k \in Keys, WriteScheduler(p, q, k)
      PROVE  TableType'
  <2>1. CASE schedulers' = schedulers
    BY <1>1, <1>8, <2>1 DEF WriteScheduler, tables
  <2>2. CASE schedulers' # schedulers
    <3>1. Referred(p, q) /\ schedulers' = [schedulers EXCEPT ![k] = Param(p, q, k)]
          /\ queues' = queues /\ born' = born
      BY <1>8, <2>2 DEF WriteScheduler
    <3>2. task[p][q] \in QueueTask /\ task[p][q].list[k] # None
      BY <1>8 DEF WriteScheduler, TaskType, Listed
    <3>3. task[p][q].list[k] \in Sched /\ task[p][q].id \in Nat
      BY <3>2 DEF QueueTask
    <3>4. Param(p, q, k) \in SchedRow /\ Param(p, q, k).queue = q
          /\ Param(p, q, k).id = task[p][q].id
      BY <3>3 DEF Param, SchedRow, Sched
    <3>5. schedulers' \in [Keys -> SchedRow \union {None}]
      BY <3>1, <3>4 DEF TableType
    <3>6. ASSUME NEW l \in Keys, schedulers'[l] # None
          PROVE  /\ HasRow(schedulers'[l].queue)
                 /\ schedulers'[l].id = queues[schedulers'[l].queue].id
      BY <3>1, <3>4, <3>6 DEF TableType, Referred
    <3> QED
      BY <3>1, <3>5, <3>6 DEF TableType, HasRow
  <2> QED
    BY <2>1, <2>2
<1>9. ASSUME NEW p \in Pollers, NEW q \in Queues,
             \/ StartTask(p, q) \/ ReadPaused(p, q) \/ SelectQueue(p, q) \/ WriteRejected(p, q)
             \/ ListSchedulers(p, q) \/ EndTask(p, q) \/ FailTask(p, q)
             \/ \E k \in Keys : SelectScheduler(p, q, k)
      PROVE  UNCHANGED tables
  BY <1>9 DEF StartTask, ReadPaused, SelectQueue, WriteRejected, ListSchedulers, EndTask,
     FailTask, SelectScheduler
<1>10. ASSUME NEW p \in Pollers,
              \/ AcquireLock(p) \/ ScanAll(p) \/ AllDone(p) \/ EndTick(p) \/ ScanPart(p)
              \/ FailTick(p)
       PROVE  UNCHANGED tables
  BY <1>10 DEF AcquireLock, ScanAll, AllDone, EndTick, ScanPart, FailTick
<1>11. ASSUME NEW u \in Users,
              \/ SetPaused(u) \/ Obliterate(u) \/ FailMutation(u)
              \/ \E op \in Ops, q \in Queues : Mutate(u, op, q)
       PROVE  UNCHANGED tables
  BY <1>11 DEF Mutate, SetPaused, Obliterate, FailMutation
<1>12. CASE \/ LockExpires \/ UNCHANGED vars
            \/ \E q \in Queues : AddQueue(q) \/ \E k \in Keys : SetScheduler(q, k)
  BY <1>1, <1>12 DEF AddQueue, SetScheduler, LockExpires, vars
<1> QED
  BY <1>1, <1>2, <1>3, <1>4, <1>5, <1>6, <1>7, <1>8, <1>9, <1>10, <1>11, <1>12
     DEF Next, Poll, Mutation, Task

(* At the start the tables are empty and no mutation is under way.         *)
LEMMA TypeInit == Init => TypeInv
<1> SUFFICES ASSUME Init PROVE TypeInv
  OBVIOUS
<1>1. BullType /\ CountType
  BY BoardAssumption DEF Init, BullType, CountType, BoardAssumption
<1>2. TaskType
  <2>1. NoTasks \in [Queues -> QueueTask] /\ \A q \in Queues : Listed(NoTasks[q])
    BY NoTaskType DEF NoTasks
  <2> QED
    BY <2>1 DEF Init, TaskType
<1>3. TableType
  BY DEF Init, TableType, NoSchedulers, HasRow
<1> QED
  BY <1>1, <1>2, <1>3, LockInit DEF TypeInv

(* Every step keeps all of it.                                             *)
LEMMA TypeStep == TypeInv /\ [Next]_vars => TypeInv'
BY LockStep, BullStep, CountStep, TaskStep, TableStep DEF TypeInv

(* Every variable has its type, and no scheduler outlives its queue's row. *)
THEOREM TypeCorrect == Spec => []TypeOK
<1>1. TypeInv => TypeOK
  BY DEF TypeInv, LockInv, TickType, BullType, CountType, TaskType, TableType, TypeOK
<1> QED
  BY <1>1, TypeInit, TypeStep, PTL DEF Spec

(* Replicas that have not outlived their lock never poll together.         *)
THEOREM OneTick == Spec => []OneTickInTime
<1>1. LockInv => OneTickInTime
  BY DEF LockInv, Holds, OneTickInTime
<1> QED
  BY <1>1, LockInit, LockStep, PTL DEF Spec

(* No queue loses its row to a scan that did not see all of Redis.         *)
THEOREM QueuesKept == Spec => PresentQueuesKept
<1>1. TypeInv /\ [Next]_vars =>
        [\A q \in Queues : HasRow(q) /\ ~HasRow(q)' =>
           \/ \E p \in Pollers : tick[p].at = "missing" /\ q \notin tick[p].through
           \/ \E u \in Users : user[u].at = "row" /\ user[u].op = "delete"
                               /\ user[u].queue = q]_vars
  <2> SUFFICES ASSUME TypeInv, Next, NEW q \in Queues, HasRow(q), ~HasRow(q)'
      PROVE  \/ \E p \in Pollers : tick[p].at = "missing" /\ q \notin tick[p].through
             \/ \E u \in Users : user[u].at = "row" /\ user[u].op = "delete"
                                 /\ user[u].queue = q
    OBVIOUS
  <2>1. queues'[q] # queues[q]
    BY DEF HasRow
  <2>2. ASSUME NEW p \in Pollers, DeleteMissing(p)
        PROVE  tick[p].at = "missing" /\ q \notin tick[p].through
    BY <2>2 DEF DeleteMissing, WithoutQueues, HasRow, TypeInv, LockInv, SawAll
  <2>3. ASSUME NEW u \in Users, DeleteQueueRow(u)
        PROVE  user[u].at = "row" /\ user[u].op = "delete" /\ user[u].queue = q
    BY <2>3 DEF DeleteQueueRow, WithoutQueues, HasRow
  <2>4. ASSUME NEW r, NEW b \in BOOLEAN, queues' = [queues EXCEPT ![r].paused = b]
        PROVE  FALSE
    <3>1. r = q /\ queues[q] \in Row
      BY <2>1, <2>4 DEF TypeInv, TableType, HasRow
    <3>2. queues'[q] \in Row
      BY <2>4, <3>1 DEF TypeInv, TableType, Row
    <3> QED
      BY <3>2, BoardAssumption DEF BoardAssumption, HasRow
  <2>5. ASSUME NEW u \in Users, UpdatePausedRow(u) PROVE FALSE
    BY <2>1, <2>4, <2>5 DEF UpdatePausedRow
  <2>6. ASSUME NEW p \in Pollers, NEW r \in Queues, UpdateQueue(p, r) PROVE FALSE
    <3>1. task[p][r].paused \in BOOLEAN
      BY DEF TypeInv, TaskType, QueueTask
    <3> QED
      BY <2>4, <2>6, <3>1 DEF UpdateQueue
  <2>7. ASSUME NEW p \in Pollers, NEW r \in Queues, InsertQueue(p, r) PROVE FALSE
    BY <2>1, <2>7 DEF InsertQueue, TypeInv, TableType
  <2>8. ASSUME NEW p \in Pollers, NEW r \in Queues,
               \/ StartTask(p, r) \/ ReadPaused(p, r) \/ SelectQueue(p, r) \/ WriteRejected(p, r)
               \/ ListSchedulers(p, r) \/ PruneSchedulers(p, r) \/ EndTask(p, r) \/ FailTask(p, r)
               \/ \E k \in Keys : SelectScheduler(p, r, k) \/ WriteScheduler(p, r, k)
        PROVE  queues' = queues
    BY <2>8 DEF StartTask, ReadPaused, SelectQueue, WriteRejected, ListSchedulers,
       PruneSchedulers, EndTask, FailTask, SelectScheduler, WriteScheduler, tables
  <2>9. ASSUME NEW p \in Pollers,
               \/ AcquireLock(p) \/ ScanAll(p) \/ AllDone(p) \/ EndTick(p) \/ ScanPart(p)
               \/ FailTick(p)
        PROVE  queues' = queues
    BY <2>9 DEF AcquireLock, ScanAll, AllDone, EndTick, ScanPart, FailTick, tables
  <2>10. ASSUME NEW u \in Users,
                \/ SetPaused(u) \/ Obliterate(u) \/ FailMutation(u)
                \/ \E op \in Ops, r \in Queues : Mutate(u, op, r)
         PROVE  queues' = queues
    BY <2>10 DEF Mutate, SetPaused, Obliterate, FailMutation, tables
  <2>11. ASSUME \/ LockExpires
                \/ \E r \in Queues : AddQueue(r) \/ \E k \in Keys : SetScheduler(r, k)
         PROVE  queues' = queues
    BY <2>11 DEF AddQueue, SetScheduler, LockExpires, tables
  <2> QED
    BY <2>1, <2>2, <2>3, <2>5, <2>6, <2>7, <2>8, <2>9, <2>10, <2>11
       DEF Next, Poll, Mutation, Task
<1> QED
  BY <1>1, TypeInit, TypeStep, PTL DEF Spec, PresentQueuesKept
===============================================================================
