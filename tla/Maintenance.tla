------------------------------ MODULE Maintenance ------------------------------
(***************************************************************************)
(* What every ingest replica does on a timer to the tables (apps/ingest/   *)
(* src/repeats): dashboard-rollups.ts counts the hour that has just ended, *)
(* job-tags.ts lists the tags of recent runs, clear-data.ts deletes old    *)
(* runs; each under a lock, so that one replica does it.                   *)
(*                                                                         *)
(* Time goes by half hours.  What is due in a half hour, and a job that is *)
(* created in it, comes after its first moment and is over before the      *)
(* next.  The rollups and the tags have their timers on that moment, the   *)
(* retention and a start have theirs at any minute after it.               *)
(***************************************************************************)
EXTENDS Naturals, FiniteSets

CONSTANTS
  Replicas,
  Jobs,       \* jobs that are created and whose rows are upserted
  QueueOf,    \* the queue of a job
  TagOf,      \* its tag
  Retention,  \* AUTO_DELETE_POSTGRES_DATA
  MaxTime,    \* bound on the clock
  MaxFaults   \* bound on failed tasks and on crashes

ASSUME MaintenanceAssumption ==
  /\ IsFiniteSet(Jobs)
  /\ {Retention, MaxTime, MaxFaults} \subseteq Nat

Tasks == {"rollup", "tags", "clear"}

Hour == 2

Time == 0..MaxTime

Unborn == MaxTime + 1

Hours == {t \in Time : t % Hour = 0}

Queues == {QueueOf[j] : j \in Jobs}

Tags == {TagOf[j] : j \in Jobs}

(* JOB_TAGS_REFRESH_LOOKBACK_MS                                            *)
Lookback == Hour

VARIABLES
  now,
  up,        \* the replicas that are running
  fresh,     \* those that were started in this half hour
  phase,     \* of each replica: the half hour its hourly interval falls in
  due,       \* tasks whose timer has fired, per replica
  lock,      \* of each task: 0, or the half hour by whose first moment the
             \* lock of a dead replica has expired
  born,      \* createdAt of each job
  upserting, \* jobs whose upsert is under way, with what it says of them
  runs,      \* job_runs: of each job "none", "active" or "completed"
  rollups,   \* dashboard_queue_hourly_stats: its columns are numbers of runs
             \* and of completed runs, kept here as the runs they count
  tags,      \* job_tags: last_seen_at + 1, or 0
  inHour,    \* the jobs whose row was stored in the hour they were created in
  inHourDone, \* those that were completed by then
  atOnce,    \* and those whose row was stored in the same half hour
  spoiled,   \* tasks that failed, were missed or may find the lock of a dead
             \* replica, and when
  faults

clockVars == <<now, up, fresh, phase>>
taskVars == <<due, lock>>
storedVars == <<inHour, inHourDone, atOnce>>
rowVars == <<born, upserting, runs, storedVars>>
statVars == <<rollups, tags>>
vars == <<clockVars, taskVars, rowVars, statVars, spoiled, faults>>

Fault == faults < MaxFaults /\ faults' = faults + 1

Quiet == \A r \in Replicas : due[r] = {}

StartOfHour(t) == t - (t % Hour)

(* now - AUTO_DELETE_POSTGRES_DATA                                         *)
Expired(t) == t + Retention < now

Stored == {j \in Jobs : runs[j] # "none"}

-----------------------------------------------------------------------------
(* The jobs, and the upserts of their rows.                                *)

Create(j) ==
  /\ Quiet
  /\ born[j] = Unborn
  /\ born' = [born EXCEPT ![j] = now]
  /\ UNCHANGED <<clockVars, taskVars, upserting, runs, storedVars, statVars, spoiled, faults>>

(* Mutant of WithinRetention: old jobs are upserted like others.           *)
AnyAge(j) == TRUE

(* isWithinRetention: asked before the row is written.                     *)
WithinRetention(j) == ~Expired(born[j])

(* An event of the job, however late, or its reconciliation; the upserts   *)
(* that leave the row as it is are left out.                               *)
Upsert(j, status) ==
  /\ born[j] # Unborn
  /\ upserting[j] = "none"
  /\ runs[j] \notin {status, "completed"}
  /\ WithinRetention(j)
  /\ upserting' = [upserting EXCEPT ![j] = status]
  /\ UNCHANGED <<clockVars, taskVars, born, runs, storedVars, statVars, spoiled, faults>>

Written(j) ==
  /\ upserting[j] # "none"
  /\ upserting' = [upserting EXCEPT ![j] = "none"]
  /\ runs' = [runs EXCEPT ![j] = IF @ = "completed" THEN @ ELSE upserting[j]]
  /\ LET early == {k \in {j} : StartOfHour(now) = StartOfHour(born[j])} IN
       /\ inHour' = inHour \union early
       /\ inHourDone' = inHourDone \union {k \in early : runs'[k] = "completed"}
  /\ atOnce' = IF now = born[j] THEN atOnce \union {j} ELSE atOnce
  /\ UNCHANGED <<clockVars, taskVars, born, statVars, spoiled, faults>>

-----------------------------------------------------------------------------
(* The transactions.                                                       *)

LastHour == StartOfHour(now) - Hour

JobsOf(hour, queue) ==
  {j \in Stored : StartOfHour(born[j]) = hour /\ QueueOf[j] = queue}

Aggregate(hour, queue) ==
  LET listed == JobsOf(hour, queue) IN
  [total |-> listed, done |-> {j \in listed : runs[j] = "completed"}]

Nothing == [total |-> {}, done |-> {}]

(* refreshLastCompletedDashboardRollupHour                                 *)
RefreshRollups ==
  /\ rollups' = [h \in Hours |-> [q \in Queues |->
       IF Expired(h) THEN Nothing
       ELSE IF now >= Hour /\ h = LastHour THEN Aggregate(h, q) ELSE rollups[h][q]]]
  /\ UNCHANGED <<tags, rowVars>>

LastSeen(tag, S) ==
  CHOOSE t \in {born[j] + 1 : j \in S} : \A j \in S : born[j] + 1 <= t

(* Mutant of Recent: half an hour back.                                    *)
JustNow(j) == born[j] + 1 >= now

Recent(j) == born[j] + Lookback >= now

Latest(a, b) == IF a > b THEN a ELSE b

(* refreshRecentJobTags                                                    *)
RefreshTags ==
  /\ tags' = [tag \in Tags |->
       LET used == {j \in Stored : TagOf[j] = tag /\ Recent(j)}
           seen == IF used = {} THEN tags[tag] ELSE Latest(tags[tag], LastSeen(tag, used))
       IN  IF seen > 0 /\ Expired(seen - 1) THEN 0 ELSE seen]
  /\ UNCHANGED <<rollups, rowVars>>

(* deleteData                                                              *)
DeleteOldRuns ==
  /\ runs' = [j \in Jobs |-> IF born[j] # Unborn /\ Expired(born[j]) THEN "none" ELSE runs[j]]
  /\ UNCHANGED <<born, upserting, storedVars, statVars>>

-----------------------------------------------------------------------------
(* Timers, locks and failures.                                             *)

Fires(r) ==
  {task \in Tasks :
     \/ task = "rollup" /\ (now + 1) % Hour = 0
     \/ task = "tags"
     \/ task = "clear" /\ (now + 1) % Hour = phase[r]}

(* The retention and the first refresh of a replica take their locks at    *)
(* any minute, the others on the half hour.                                *)
AtAnyMinute(r, task) == task = "clear" \/ (task = "tags" /\ r \in fresh)

(* Mutant of Ttl: the lock of the rollups outlasts the hour.               *)
TtlOverAnHour(r, task) ==
  IF task = "rollup" THEN Hour + 1 ELSE IF AtAnyMinute(r, task) THEN 2 ELSE 1

(* 55, 29 and 30 minutes: a lock that is taken on the half hour expires    *)
(* just before it is wanted again, one that is taken later is in the way   *)
(* of the next half hour's tasks.                                          *)
Ttl(r, task) == IF task = "rollup" THEN Hour ELSE IF AtAnyMinute(r, task) THEN 2 ELSE 1

LockLeft(task) == IF lock[task] <= now + 1 THEN 0 ELSE lock[task]

HalfHourPasses ==
  /\ now < MaxTime
  /\ Quiet
  /\ \A j \in Jobs : upserting[j] = "none"
  /\ now' = now + 1
  /\ fresh' = {}
  /\ due' = [r \in Replicas |-> IF r \in up THEN Fires(r) ELSE {}]
  /\ lock' = [task \in Tasks |-> LockLeft(task)]
  /\ spoiled' = IF up = {} THEN spoiled \union {<<task, now + 1>> : task \in Tasks} ELSE spoiled
  /\ UNCHANGED <<up, phase, rowVars, statVars, faults>>

(* A lock expires in its last half hour.                                   *)
Expire(task) ==
  /\ lock[task] = now + 1
  /\ lock' = [lock EXCEPT ![task] = 0]
  /\ UNCHANGED <<clockVars, due, rowVars, statVars, spoiled, faults>>

Wanted(r, task) == task \in due[r] /\ lock[task] = 0

Done(r, task) == due' = [due EXCEPT ![r] = @ \ {task}]

(* withLock: the lock, the transaction and the release, of which others    *)
(* see the lock only; whoever comes after that does it once more.          *)
Run(r, task) ==
  /\ Wanted(r, task)
  /\ \/ task = "rollup" /\ RefreshRollups
     \/ task = "tags" /\ RefreshTags
     \/ task = "clear" /\ DeleteOldRuns
  /\ Done(r, task)
  /\ UNCHANGED <<clockVars, lock, spoiled, faults>>

(* SET NX fails: the lock of a replica that died is still there.           *)
Skip(r, task) ==
  /\ task \in due[r]
  /\ lock[task] # 0
  /\ Done(r, task)
  /\ UNCHANGED <<clockVars, lock, rowVars, statVars, spoiled, faults>>

(* The transaction fails, after some replicas found the lock taken; it is  *)
(* released all the same.  clearData leaves the rejection unhandled, which *)
(* ends the process: see Crash.                                            *)
Fail(r, task) ==
  /\ Wanted(r, task)
  /\ task # "clear"
  /\ Fault
  /\ \E S \in SUBSET up :
       due' = [x \in Replicas |-> IF x \in S \union {r} THEN due[x] \ {task} ELSE due[x]]
  /\ spoiled' = spoiled \union {<<task, now>>}
  /\ UNCHANGED <<clockVars, lock, rowVars, statVars>>

(* The replica dies, and what it was to do is not done; the locks of what  *)
(* it was doing stay, and may spoil the next half hour's tasks as well.    *)
Crash(r) ==
  /\ r \in up
  /\ Fault
  /\ up' = up \ {r}
  /\ fresh' = fresh \ {r}
  /\ \E S \in SUBSET {task \in Tasks : Wanted(r, task)} :
       /\ lock' = [task \in Tasks |-> IF task \in S THEN now + Ttl(r, task) ELSE lock[task]]
       /\ spoiled' = spoiled \union {<<task, now>> : task \in due[r]}
                       \union {<<task, now + 1>> : task \in {x \in S : AtAnyMinute(r, x)}}
  /\ due' = [due EXCEPT ![r] = {}]
  /\ UNCHANGED <<now, phase, rowVars, statVars>>

(* main(): tags and retention start at once, rollups at the next full hour.*)
Start(r) ==
  /\ r \notin up
  /\ Quiet
  /\ up' = up \union {r}
  /\ fresh' = fresh \union {r}
  /\ phase' = [phase EXCEPT ![r] = now % Hour]
  /\ due' = [due EXCEPT ![r] = {"tags", "clear"}]
  /\ UNCHANGED <<now, lock, rowVars, statVars, spoiled, faults>>

-----------------------------------------------------------------------------
Init ==
  /\ now = 0
  /\ up = {} /\ fresh = {}
  /\ phase = [r \in Replicas |-> 0]
  /\ due = [r \in Replicas |-> {}]
  /\ lock = [task \in Tasks |-> 0]
  /\ born = [j \in Jobs |-> Unborn]
  /\ upserting = [j \in Jobs |-> "none"]
  /\ runs = [j \in Jobs |-> "none"]
  /\ rollups = [h \in Hours |-> [q \in Queues |-> Nothing]]
  /\ tags = [tag \in Tags |-> 0]
  /\ inHour = {} /\ inHourDone = {} /\ atOnce = {}
  /\ spoiled = {}
  /\ faults = 0

Next ==
  \/ \E j \in Jobs : Create(j) \/ Written(j) \/ \E status \in {"active", "completed"} : Upsert(j, status)
  \/ HalfHourPasses \/ \E task \in Tasks : Expire(task)
  \/ \E r \in Replicas : Crash(r) \/ Start(r)
  \/ \E r \in Replicas, task \in Tasks : Run(r, task) \/ Skip(r, task) \/ Fail(r, task)

Spec == Init /\ [][Next]_vars

-----------------------------------------------------------------------------
(* Every variable has its type; a lock lives for an hour at most, and a    *)
(* replica that is down has nothing to do.                                 *)
TypeOK ==
  /\ now \in Time
  /\ up \subseteq Replicas /\ fresh \subseteq up
  /\ phase \in [Replicas -> 0..1]
  /\ due \in [Replicas -> SUBSET Tasks]
  /\ \A r \in Replicas : r \notin up => due[r] = {}
  /\ \A task \in Tasks : lock[task] = 0 \/ lock[task] \in now + 1 .. now + Hour
  /\ born \in [Jobs -> Time \union {Unborn}]
  /\ {upserting, runs} \subseteq [Jobs -> {"none", "active", "completed"}]
  /\ rollups \in [Hours -> [Queues -> [total : SUBSET Jobs, done : SUBSET Jobs]]]
  /\ tags \in [Tags -> 0..Unborn]
  /\ inHourDone \subseteq inHour /\ inHour \union atOnce \subseteq Jobs
  /\ faults \in 0..MaxFaults

(* The rollup of a full hour counts every run whose row was there when the *)
(* hour ended, and as completed every one that was completed by then,      *)
(* unless the replica that was to count it failed: a lock it leaves behind *)
(* does not cost the next hour as well (dashboard-rollups.ts:              *)
(* DASHBOARD_ROLLUP_LOCK_TTL_MS).                                          *)
HoursAreCounted ==
  Quiet => \A h \in Hours, q \in Queues :
    \/ h + Hour > now
    \/ <<"rollup", h + Hour>> \in spoiled
    \/ Expired(h)
    \/ LET ofHour(S) == {j \in S : StartOfHour(born[j]) = h /\ QueueOf[j] = q} IN
       /\ ofHour(inHour) \subseteq rollups[h][q].total
       /\ ofHour(inHourDone) \subseteq rollups[h][q].done

(* The tag of a run that was stored at once is listed for as long as the   *)
(* run is kept, even if one of the two refreshes that look back at it is   *)
(* spoiled: fails, is missed, or may have found the lock of a replica that *)
(* died in its first refresh, which is taken between two half hours        *)
(* (job-tags.ts: JOB_TAGS_REFRESH_LOOKBACK_MS, startJobTagsRefresh).       *)
TagsAreListed ==
  Quiet => \A j \in atOnce :
    \/ born[j] + Hour > now
    \/ {<<"tags", born[j] + 1>>, <<"tags", born[j] + 2>>} \subseteq spoiled
    \/ Expired(born[j])
    \/ tags[TagOf[j]] > 0

(* An expired run is gone within the hour, and no late event and no        *)
(* reconciliation brings it back (clear-data.ts; job-upsert.ts:            *)
(* isWithinRetention); unless in the last hour the retention of a replica  *)
(* was cut short or missed, or may have found the lock of a replica that   *)
(* had died: that one lives for half an hour from whatever minute it was   *)
(* taken in, and is gone before the hour after.                            *)
OldRunsStayGone ==
  Quiet => \A j \in Stored :
    \/ born[j] + Retention + 1 >= now
    \/ \E t \in {now - 1, now} : <<"clear", t>> \in spoiled

=============================================================================
