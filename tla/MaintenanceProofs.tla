--------------------------- MODULE MaintenanceProofs ---------------------------
(***************************************************************************)
(* Hours are counted, tags listed and old runs deleted, for any number of  *)
(* replicas, jobs, failures and half hours: a task that is not done is one *)
(* that failed, was missed or met the lock of a dead replica, and a lock   *)
(* costs no more than one task.  The second part is about the dashboard: a *)
(* rollup counts runs of its hour and queue only, so its sums are numbers  *)
(* of runs, in the right place and none twice.                             *)
(***************************************************************************)
EXTENDS Dashboard, FiniteSetTheorems, WellFoundedInduction, TLAPS

-----------------------------------------------------------------------------
(* Types.                                                                  *)

(* How many runs there are to count is a number.                           *)
LEMMA Countable == \A S \in SUBSET Jobs : IsFiniteSet(S) /\ Cardinality(S) \in Nat
BY MaintenanceAssumption, FS_Subset, FS_CardinalityType

(* Of some jobs, one was created last.                                     *)
LEMMA LatestExists ==
  ASSUME NEW S \in SUBSET Jobs, S # {}, \A j \in S : born[j] \in Nat
  PROVE  \E last \in S : \A j \in S : born[j] <= born[last]
<1> DEFINE Later(j) == {k \in S : born[k] > born[j]}
           family == {Later(j) : j \in S}
<1>1. IsWellFoundedOn(StrictSubsetOrdering(S), SUBSET S)
  BY Countable, FS_FiniteSubsetsOfFinite, FS_StrictSubsetOrderingWellFounded
<1>2. family \subseteq SUBSET S /\ family # {}
  OBVIOUS
<1>3. PICK F \in family : \A G \in family : <<G, F>> \notin StrictSubsetOrdering(S)
  <2> HIDE DEF family
  <2> QED
    BY <1>1, <1>2, WFMin
<1>4. PICK last \in S : F = Later(last)
  OBVIOUS
<1>5. ASSUME NEW j \in S, born[j] > born[last] PROVE FALSE
  <2>1. \A k \in S : born[k] > born[j] => born[k] > born[last]
    BY <1>5
  <2>2. Later(j) \subseteq Later(last) /\ j \in Later(last) /\ j \notin Later(j)
    BY <1>5, <2>1
  <2>3. <<Later(j), F>> \in StrictSubsetOrdering(S)
    BY <1>4, <2>2 DEF StrictSubsetOrdering
  <2> QED
    BY <1>3, <2>3
<1> QED
  BY <1>5

(* A tag was last seen when one of its jobs was created, and no job of it  *)
(* was created later.                                                      *)
LEMMA LastSeenIsSeen ==
  ASSUME NEW S \in SUBSET Jobs, S # {}, born \in [Jobs -> Time \union {Unborn}],
         \A j \in S : born[j] # Unborn, NEW tag
  PROVE  /\ LastSeen(tag, S) \in 1..Unborn
         /\ \A j \in S : born[j] + 1 <= LastSeen(tag, S)
         /\ \E j \in S : LastSeen(tag, S) = born[j] + 1
<1>0. MaxTime \in Nat /\ Unborn = MaxTime + 1
  BY MaintenanceAssumption DEF Unborn
<1>1. \A j \in S : born[j] \in 0..MaxTime
  BY DEF Time
<1>2. PICK last \in S : \A j \in S : born[j] <= born[last]
  BY <1>1, LatestExists
<1> DEFINE seen == {born[j] + 1 : j \in S}
<1>3. \E t \in seen : \A j \in S : born[j] + 1 <= t
  <2>1. born[last] + 1 \in seen
    OBVIOUS
  <2>2. \A j \in S : born[j] + 1 <= born[last] + 1
    BY <1>1, <1>2
  <2> QED
    BY <2>1, <2>2
<1>4. LastSeen(tag, S) \in seen /\ \A j \in S : born[j] + 1 <= LastSeen(tag, S)
  BY <1>3 DEF LastSeen
<1> QED
  BY <1>0, <1>1, <1>4

(* The clock and the locks.                                                *)
ClockOK ==
  /\ now \in Time
  /\ up \subseteq Replicas /\ fresh \subseteq up
  /\ phase \in [Replicas -> 0..1]
  /\ due \in [Replicas -> SUBSET Tasks]
  /\ \A r \in Replicas : r \notin up => due[r] = {}
  /\ \A task \in Tasks : lock[task] = 0 \/ lock[task] \in now + 1 .. now + Hour
  /\ lock = [task \in Tasks |-> lock[task]]
  /\ faults \in 0..MaxFaults

(* The rows, and what is counted of them; a row is of a job that was       *)
(* created.                                                                *)
RowsOK ==
  /\ born \in [Jobs -> Time \union {Unborn}]
  /\ {upserting, runs} \subseteq [Jobs -> {"none", "active", "completed"}]
  /\ inHourDone \subseteq inHour /\ inHour \union atOnce \subseteq Jobs
  /\ \A j \in Jobs : born[j] # Unborn => born[j] \in 0..now
  /\ \A j \in Jobs : runs[j] # "none" \/ upserting[j] # "none" \/ j \in inHour \union atOnce
                       => born[j] # Unborn
StatsOK ==
  /\ rollups \in [Hours -> [Queues -> [total : SUBSET Jobs, done : SUBSET Jobs]]]
  /\ tags \in [Tags -> 0..Unborn]

AllOK == ClockOK /\ RowsOK /\ StatsOK

(* Steps that leave the clock and the rows keep the types of rows.         *)
LEMMA RowsType ==
  ASSUME ClockOK, RowsOK, [Next]_vars
  PROVE  RowsOK'
<1>0. /\ born \in [Jobs -> Time \union {Unborn}]
      /\ upserting \in [Jobs -> {"none", "active", "completed"}]
      /\ runs \in [Jobs -> {"none", "active", "completed"}]
      /\ now \in Nat /\ now <= MaxTime /\ MaxTime \in Nat /\ Unborn = MaxTime + 1
  BY MaintenanceAssumption DEF RowsOK, ClockOK, Time, Unborn
<1>1. ASSUME NEW j \in Jobs, Create(j) PROVE RowsOK'
  BY <1>0, <1>1 DEF Create, RowsOK, clockVars, storedVars, Time
<1>2. ASSUME NEW j \in Jobs, NEW status \in {"active", "completed"}, Upsert(j, status) PROVE RowsOK'
  BY <1>0, <1>2 DEF Upsert, RowsOK, clockVars, storedVars
<1>3. ASSUME NEW j \in Jobs, Written(j) PROVE RowsOK'
  <2>1. /\ inHour' \in {inHour, inHour \union {j}} /\ inHourDone' \in SUBSET inHour'
        /\ atOnce' \in {atOnce, atOnce \union {j}}
    BY <1>3 DEF Written, RowsOK
  <2>2. /\ born' = born /\ now' = now /\ born[j] # Unborn
        /\ upserting' \in [Jobs -> {"none", "active", "completed"}]
        /\ runs' \in [Jobs -> {"none", "active", "completed"}]
        /\ \A k \in Jobs \ {j} : runs'[k] = runs[k]
        /\ \A k \in Jobs : upserting'[k] # "none" => upserting[k] # "none"
    BY <1>0, <1>3 DEF Written, RowsOK, clockVars
  <2> QED
    BY <1>0, <2>1, <2>2 DEF RowsOK
<1>4. CASE HalfHourPasses
  BY <1>0, <1>4 DEF HalfHourPasses, RowsOK, rowVars, storedVars
<1>5. ASSUME NEW r \in Replicas, NEW task \in Tasks, Run(r, task) PROVE RowsOK'
  <2>1. CASE DeleteOldRuns
    BY <1>0, <1>5, <2>1 DEF Run, DeleteOldRuns, RowsOK, clockVars, storedVars
  <2>2. CASE RefreshRollups \/ RefreshTags
    BY <1>0, <1>5, <2>2 DEF Run, RefreshRollups, RefreshTags, RowsOK, rowVars, storedVars, clockVars
  <2> QED
    BY <1>5, <2>1, <2>2 DEF Run
<1>6. CASE UNCHANGED <<now, rowVars>>
  BY <1>6 DEF RowsOK, rowVars, storedVars
<1>7. ASSUME NEW r \in Replicas, NEW task \in Tasks, Skip(r, task) \/ Fail(r, task)
      PROVE  UNCHANGED <<now, rowVars>>
  BY <1>7 DEF Skip, Fail, clockVars
<1>8. ASSUME NEW r \in Replicas, Crash(r) \/ Start(r) PROVE UNCHANGED <<now, rowVars>>
  BY <1>8 DEF Crash, Start
<1>9. CASE UNCHANGED vars
  BY <1>6, <1>9 DEF vars, clockVars
<1>10. ASSUME NEW task \in Tasks, Expire(task) PROVE UNCHANGED <<now, rowVars>>
  BY <1>10 DEF Expire, clockVars
<1> QED
  BY <1>1, <1>2, <1>3, <1>4, <1>5, <1>6, <1>7, <1>8, <1>9, <1>10 DEF Next

(* The clock goes on, and locks end before the next hour.                  *)
LEMMA ClockType ==
  ASSUME ClockOK, [Next]_vars
  PROVE  ClockOK'
<1>0. /\ now \in Nat /\ now <= MaxTime /\ MaxTime \in Nat
      /\ due \in [Replicas -> SUBSET Tasks] /\ phase \in [Replicas -> 0..1]
      /\ lock = [task \in Tasks |-> lock[task]] /\ up \subseteq Replicas /\ fresh \subseteq up
      /\ \A task \in Tasks : lock[task] = 0 \/ lock[task] \in now + 1 .. now + Hour
      /\ \A r \in Replicas : r \notin up => due[r] = {}
      /\ faults \in Nat /\ faults <= MaxFaults /\ MaxFaults \in Nat
  BY MaintenanceAssumption DEF ClockOK, Time
<1>1. CASE UNCHANGED <<clockVars, taskVars, faults>>
  BY <1>1 DEF ClockOK, clockVars, taskVars
<1>2. CASE HalfHourPasses
  <2>1. now' \in Time /\ due' \in [Replicas -> SUBSET Tasks]
    BY <1>0, <1>2 DEF HalfHourPasses, Fires, Time
  <2>2. \A task \in Tasks : lock'[task] = 0 \/ lock'[task] \in now' + 1 .. now' + Hour
    BY <1>0, <1>2 DEF HalfHourPasses, LockLeft, Hour
  <2>3. lock' = [task \in Tasks |-> lock'[task]]
    BY <1>2 DEF HalfHourPasses
  <2> QED
    BY <1>2, <2>1, <2>2, <2>3 DEF HalfHourPasses, ClockOK
<1>3. ASSUME NEW r \in Replicas, NEW task \in Tasks, Run(r, task) \/ Skip(r, task) PROVE ClockOK'
  <2>1. due' = [due EXCEPT ![r] = @ \ {task}] /\ UNCHANGED <<clockVars, lock, faults>>
    BY <1>3 DEF Run, Skip, Done
  <2> QED
    BY <1>0, <2>1 DEF ClockOK, clockVars
<1>4. ASSUME NEW r \in Replicas, NEW task \in Tasks, Fail(r, task) PROVE ClockOK'
  <2>1. faults' \in 0..MaxFaults /\ UNCHANGED <<clockVars, lock>>
    BY <1>0, <1>4 DEF Fail, Fault
  <2>2. due' \in [Replicas -> SUBSET Tasks] /\ \A x \in Replicas : due'[x] \subseteq due[x]
    BY <1>0, <1>4 DEF Fail
  <2> QED
    BY <1>0, <2>1, <2>2 DEF ClockOK, clockVars
<1>5. ASSUME NEW r \in Replicas, Crash(r) PROVE ClockOK'
  <2>1. faults' \in 0..MaxFaults /\ UNCHANGED <<now, phase>> /\ up' = up \ {r}
        /\ due' = [due EXCEPT ![r] = {}] /\ fresh' = fresh \ {r}
    BY <1>0, <1>5 DEF Crash, Fault
  <2>2. PICK S \in SUBSET Tasks :
          lock' = [task \in Tasks |-> IF task \in S THEN now + Ttl(r, task) ELSE lock[task]]
    BY <1>5 DEF Crash
  <2>3. /\ lock' = [task \in Tasks |-> lock'[task]]
        /\ \A task \in Tasks : lock'[task] = 0 \/ lock'[task] \in now + 1 .. now + Hour
    BY <1>0, <2>2 DEF Ttl, Hour
  <2> QED
    BY <1>0, <2>1, <2>3 DEF ClockOK
<1>6. ASSUME NEW r \in Replicas, Start(r) PROVE ClockOK'
  BY <1>0, <1>6 DEF Start, ClockOK, Hour, Tasks
<1>7. ASSUME NEW j \in Jobs,
             Create(j) \/ Written(j) \/ \E status \in {"active", "completed"} : Upsert(j, status)
      PROVE  UNCHANGED <<clockVars, taskVars, faults>>
  BY <1>7 DEF Create, Written, Upsert
<1>8. CASE UNCHANGED vars
  BY <1>1, <1>8 DEF vars
<1>9. ASSUME NEW task \in Tasks, Expire(task) PROVE ClockOK'
  <2>1. lock' = [lock EXCEPT ![task] = 0] /\ UNCHANGED <<clockVars, due, faults>>
    BY <1>9 DEF Expire
  <2>2. /\ lock' = [t \in Tasks |-> lock'[t]]
        /\ \A t \in Tasks : lock'[t] = 0 \/ lock'[t] = lock[t]
    BY <1>0, <2>1
  <2> QED
    BY <1>0, <2>1, <2>2 DEF ClockOK, clockVars
<1> QED
  BY <1>1, <1>2, <1>3, <1>4, <1>5, <1>6, <1>7, <1>8, <1>9 DEF Next

(* What is counted and listed.                                             *)
LEMMA StatsType ==
  ASSUME AllOK, [Next]_vars
  PROVE  StatsOK'
<1>0. /\ rollups \in [Hours -> [Queues -> [total : SUBSET Jobs, done : SUBSET Jobs]]]
      /\ tags \in [Tags -> 0..Unborn]
      /\ Unborn \in Nat /\ born \in [Jobs -> Time \union {Unborn}]
      /\ \A j \in Stored : born[j] # Unborn
  BY MaintenanceAssumption DEF AllOK, RowsOK, StatsOK, Unborn, Stored
<1>1. CASE UNCHANGED statVars
  BY <1>1 DEF AllOK, StatsOK, statVars
<1>2. CASE RefreshRollups
  <2>1. \A h \in Hours, q \in Queues : Aggregate(h, q) \in [total : SUBSET Jobs, done : SUBSET Jobs]
    BY DEF Aggregate, JobsOf, Stored
  <2>2. Nothing \in [total : SUBSET Jobs, done : SUBSET Jobs]
    BY DEF Nothing
  <2>3. \A h \in Hours, q \in Queues :
          rollups[h][q] \in [total : SUBSET Jobs, done : SUBSET Jobs] /\ rollups'[h][q] =
            IF Expired(h) THEN Nothing
            ELSE IF now >= Hour /\ h = LastHour THEN Aggregate(h, q) ELSE rollups[h][q]
    BY <1>0, <1>2 DEF RefreshRollups
  <2>4. rollups' \in [Hours -> [Queues -> [total : SUBSET Jobs, done : SUBSET Jobs]]]
    BY <1>2, <2>1, <2>2, <2>3 DEF RefreshRollups
  <2> QED
    BY <1>2, <2>4, <1>0 DEF RefreshRollups, StatsOK
<1>3. CASE RefreshTags
  <2>1. ASSUME NEW tag \in Tags PROVE tags'[tag] \in 0..Unborn
    <3> DEFINE used == {j \in Stored : TagOf[j] = tag /\ Recent(j)}
               seen == IF used = {} THEN tags[tag] ELSE Latest(tags[tag], LastSeen(tag, used))
    <3>1. tags'[tag] \in {0, seen}
      BY <1>3 DEF RefreshTags
    <3>a. used \in SUBSET Jobs /\ \A j \in used : born[j] # Unborn
      BY <1>0 DEF Stored
    <3> HIDE DEF used
    <3>b. used # {} => LastSeen(tag, used) \in 1..Unborn
      <4>1. born \in [Jobs -> Time \union {Unborn}]
        BY <1>0
      <4> QED
        BY <4>1, <3>a, LastSeenIsSeen
    <3>2. used # {} => LastSeen(tag, used) \in 0..Unborn
      BY <1>0, <3>b
    <3>3. seen \in 0..Unborn
      BY <1>0, <3>2 DEF Latest
    <3> QED
      BY <1>0, <3>1, <3>3
  <2>2. tags' = [tag \in Tags |-> tags'[tag]]
    BY <1>3 DEF RefreshTags
  <2> QED
    BY <1>0, <1>3, <2>1, <2>2 DEF RefreshTags, StatsOK
<1>4. CASE DeleteOldRuns
  BY <1>1, <1>4 DEF DeleteOldRuns
<1>5. ASSUME NEW j \in Jobs,
             Create(j) \/ Written(j) \/ \E status \in {"active", "completed"} : Upsert(j, status)
      PROVE  UNCHANGED statVars
  BY <1>5 DEF Create, Written, Upsert
<1>6. ASSUME NEW r \in Replicas, NEW task \in Tasks,
             Skip(r, task) \/ Fail(r, task)
      PROVE  UNCHANGED statVars
  BY <1>6 DEF Skip, Fail
<1>7. ASSUME NEW r \in Replicas, HalfHourPasses \/ Crash(r) \/ Start(r) PROVE UNCHANGED statVars
  BY <1>7 DEF HalfHourPasses, Crash, Start
<1>8. CASE HalfHourPasses
  BY <1>1, <1>8 DEF HalfHourPasses
<1>9. CASE UNCHANGED vars
  BY <1>1, <1>9 DEF vars
<1>10. ASSUME NEW r \in Replicas, NEW task \in Tasks, Run(r, task) PROVE StatsOK'
  BY <1>2, <1>3, <1>4, <1>10 DEF Run
<1>11. ASSUME NEW task \in Tasks, Expire(task) PROVE UNCHANGED statVars
  BY <1>11 DEF Expire
<1> QED
  BY <1>1, <1>5, <1>6, <1>7, <1>8, <1>9, <1>10, <1>11 DEF Next

(* The initial state has its types.                                        *)
LEMMA InitType == Init => AllOK
BY MaintenanceAssumption
   DEF Init, AllOK, ClockOK, RowsOK, StatsOK, Nothing, Time, Unborn, Hours, Tasks

(* Every step keeps types.                                                 *)
LEMMA NextType == AllOK /\ [Next]_vars => AllOK'
BY RowsType, ClockType, StatsType DEF AllOK

(* Every variable has its type, for every value of the constants; a lock   *)
(* lives for an hour at most, and a replica that is down has nothing to    *)
(* do.                                                                     *)
THEOREM TypeHolds == Spec => []TypeOK
<1>1. AllOK => TypeOK
  BY DEF AllOK, ClockOK, RowsOK, StatsOK, TypeOK
<1> QED
  BY <1>1, InitType, NextType, PTL DEF Spec

-----------------------------------------------------------------------------
(* Locks, and what is due.                                                 *)

(* A lock without a replica tells of a task that was not done, or may find *)
(* it: locks of tags and retention last into the next half hour at most,   *)
(* that of the rollups through the hour, in the second half of which no    *)
(* rollup is due.                                                          *)
LocksTell ==
  /\ \A task \in {"tags", "clear"} : lock[task] # 0 =>
       /\ <<task, now>> \in spoiled
       /\ lock[task] # now + 1 => lock[task] = now + 2 /\ <<task, now + 1>> \in spoiled
  /\ lock["rollup"] # 0 => /\ now % Hour = 0 => lock["rollup"] = now + Hour /\ <<"rollup", now>> \in spoiled
                           /\ now % Hour # 0 => lock["rollup"] = now + 1
  /\ \A r \in Replicas : "rollup" \in due[r] => now % Hour = 0

(* Locks go on telling.                                                    *)
LEMMA LocksGoOn ==
  ASSUME AllOK, LocksTell, [Next]_vars
  PROVE  LocksTell'
<1>0. /\ now \in Nat /\ due \in [Replicas -> SUBSET Tasks]
      /\ lock = [task \in Tasks |-> lock[task]]
  BY DEF AllOK, ClockOK, Time
<1>1. CASE UNCHANGED <<now, taskVars, spoiled>>
  BY <1>1 DEF LocksTell, taskVars
<1>2. CASE HalfHourPasses
  <2>1. \A task \in Tasks : lock'[task] = IF lock[task] <= now + 1 THEN 0 ELSE lock[task]
    BY <1>2 DEF HalfHourPasses, LockLeft
  <2>2. now' = now + 1 /\ \A r \in Replicas : "rollup" \in due'[r] => (now + 1) % Hour = 0
    BY <1>2 DEF HalfHourPasses, Fires
  <2>3. \A task \in {"tags", "clear"} :
          lock'[task] # 0 => lock'[task] = now' + 1 /\ <<task, now'>> \in spoiled'
    <3>1. spoiled \subseteq spoiled'
      BY <1>2 DEF HalfHourPasses
    <3> QED
      BY <1>0, <2>1, <2>2, <3>1 DEF LocksTell, Tasks
  <2>4. ASSUME lock'["rollup"] # 0 PROVE now % Hour = 0 /\ lock'["rollup"] = now + 2
    BY <1>0, <2>1, <2>4 DEF LocksTell, Tasks, Hour
  <2>5. lock'["rollup"] # 0 => now' % Hour # 0 /\ lock'["rollup"] = now' + 1
    BY <1>0, <2>2, <2>4 DEF Hour
  <2> QED
    BY <2>2, <2>3, <2>5 DEF LocksTell
<1>3. ASSUME NEW r \in Replicas, NEW task \in Tasks, Run(r, task) \/ Skip(r, task) PROVE LocksTell'
  BY <1>0, <1>3 DEF Run, Skip, Done, clockVars, LocksTell
<1>4. ASSUME NEW r \in Replicas, NEW task \in Tasks, Fail(r, task) PROVE LocksTell'
  BY <1>0, <1>4 DEF Fail, clockVars, LocksTell
<1>5. ASSUME NEW r \in Replicas, Crash(r) PROVE LocksTell'
  <2>1. PICK S \in SUBSET {task \in Tasks : Wanted(r, task)} :
          /\ lock' = [task \in Tasks |-> IF task \in S THEN now + Ttl(r, task) ELSE lock[task]]
          /\ spoiled' = spoiled \union {<<task, now>> : task \in due[r]}
                          \union {<<task, now + 1>> : task \in {x \in S : AtAnyMinute(r, x)}}
    BY <1>5 DEF Crash
  <2>2. now' = now /\ due' = [due EXCEPT ![r] = {}] /\ spoiled \subseteq spoiled'
    BY <1>5, <2>1 DEF Crash
  <2>3. \A task \in S :
          /\ task \in Tasks /\ <<task, now>> \in spoiled' /\ task \in due[r]
          /\ lock'[task] = now + Ttl(r, task)
          /\ AtAnyMinute(r, task) => <<task, now + 1>> \in spoiled'
    BY <2>1 DEF Wanted
  <2>4. \A task \in Tasks \ S : lock'[task] = lock[task]
    BY <2>1
  <2>5. \A x \in Replicas : "rollup" \in due'[x] => now % Hour = 0
    BY <1>0, <2>2 DEF LocksTell
  <2>6. ASSUME NEW task \in {"tags", "clear"}, lock'[task] # 0
        PROVE  /\ <<task, now>> \in spoiled'
               /\ lock'[task] # now + 1 => lock'[task] = now + 2 /\ <<task, now + 1>> \in spoiled'
    <3>1. CASE task \in S
      BY <2>3, <3>1 DEF Ttl
    <3>2. CASE task \notin S
      BY <2>2, <2>4, <2>6, <3>2 DEF LocksTell, Tasks
    <3> QED
      BY <3>1, <3>2
  <2>7. "rollup" \in S => now % Hour = 0 /\ lock'["rollup"] = now + Hour /\ <<"rollup", now>> \in spoiled'
    BY <2>3 DEF LocksTell, Ttl
  <2>8. "rollup" \notin S => lock'["rollup"] = lock["rollup"]
    BY <2>4 DEF Tasks
  <2> QED
    BY <2>2, <2>5, <2>6, <2>7, <2>8 DEF LocksTell
<1>6. ASSUME NEW r \in Replicas, Start(r) PROVE LocksTell'
  BY <1>0, <1>6 DEF Start, LocksTell
<1>7. ASSUME NEW j \in Jobs,
             Create(j) \/ Written(j) \/ \E status \in {"active", "completed"} : Upsert(j, status)
      PROVE  UNCHANGED <<now, taskVars, spoiled>>
  BY <1>7 DEF Create, Written, Upsert, clockVars
<1>8. CASE UNCHANGED vars
  BY <1>1, <1>8 DEF vars, clockVars
<1>9. ASSUME NEW task \in Tasks, Expire(task) PROVE LocksTell'
  <2>1. lock' = [lock EXCEPT ![task] = 0] /\ UNCHANGED <<now, due, spoiled>>
    BY <1>9 DEF Expire, clockVars
  <2>2. \A t \in Tasks : lock'[t] = 0 \/ lock'[t] = lock[t]
    BY <1>0, <2>1
  <2> QED
    BY <2>1, <2>2 DEF LocksTell, Tasks
<1> QED
  BY <1>1, <1>2, <1>3, <1>4, <1>5, <1>6, <1>7, <1>8, <1>9 DEF Next

(* Within a half hour, a task is due until it is run, or it is one of      *)
(* those that were not done.                                               *)
LEMMA RunOrSpoiled ==
  ASSUME AllOK, LocksTell, [Next]_vars, ~HalfHourPasses
  PROVE  /\ now' = now /\ spoiled \subseteq spoiled'
         /\ \A r \in Replicas, task \in Tasks :
              task \in due[r] => task \in due'[r] \/ <<task, now>> \in spoiled' \/ Run(r, task)
<1>0. due \in [Replicas -> SUBSET Tasks] /\ now \in Nat
  BY DEF AllOK, ClockOK, Time
<1>1. CASE UNCHANGED <<now, due, spoiled>>
  BY <1>1
<1> DEFINE Goal == /\ now' = now /\ spoiled \subseteq spoiled'
                   /\ \A x \in Replicas, t \in Tasks :
                        t \in due[x] => t \in due'[x] \/ <<t, now>> \in spoiled' \/ Run(x, t)
<1>2. ASSUME NEW r \in Replicas, NEW task \in Tasks, Run(r, task) PROVE Goal
  <2>1. now' = now /\ spoiled' = spoiled /\ due' = [due EXCEPT ![r] = @ \ {task}]
    BY <1>2 DEF Run, Done, clockVars
  <2> QED
    BY <1>0, <1>2, <2>1
<1>3. ASSUME NEW r \in Replicas, NEW task \in Tasks, Skip(r, task) PROVE Goal
  <2>1. now' = now /\ spoiled' = spoiled /\ due' = [due EXCEPT ![r] = @ \ {task}]
        /\ task \in due[r] /\ lock[task] # 0
    BY <1>3 DEF Skip, Done, clockVars
  <2>2. <<task, now>> \in spoiled
    BY <2>1 DEF LocksTell, Tasks
  <2> QED
    BY <1>0, <2>1, <2>2
<1>4. ASSUME NEW r \in Replicas, NEW task \in Tasks, Fail(r, task) PROVE Goal
  BY <1>0, <1>4 DEF Fail, clockVars
<1>5. ASSUME NEW r \in Replicas, Crash(r) PROVE Goal
  BY <1>0, <1>5 DEF Crash
<1>6. ASSUME NEW r \in Replicas, Start(r) PROVE Goal
  <2>1. due[r] = {}
    BY <1>6 DEF Start, Quiet
  <2> QED
    BY <1>0, <1>6, <2>1 DEF Start
<1>7. ASSUME NEW j \in Jobs,
             Create(j) \/ Written(j) \/ \E status \in {"active", "completed"} : Upsert(j, status)
      PROVE  UNCHANGED <<now, due, spoiled>>
  BY <1>7 DEF Create, Written, Upsert, clockVars, taskVars
<1>8. CASE UNCHANGED vars
  BY <1>1, <1>8 DEF vars, clockVars, taskVars
<1>9. ASSUME NEW task \in Tasks, Expire(task) PROVE UNCHANGED <<now, due, spoiled>>
  BY <1>9 DEF Expire, clockVars
<1> QED
  BY <1>1, <1>2, <1>3, <1>4, <1>5, <1>6, <1>7, <1>8, <1>9 DEF Next

-----------------------------------------------------------------------------
(* Rows.                                                                   *)

(* No old run is being upserted, and what was stored in time is there      *)
(* until it is old.                                                        *)
RowsKept ==
  /\ \A j \in Jobs : upserting[j] # "none" => ~Expired(born[j])
  /\ \A j \in inHour \union atOnce : Expired(born[j]) \/ runs[j] # "none"
  /\ \A j \in inHourDone : Expired(born[j]) \/ runs[j] = "completed"

(* What is old gets no younger.                                            *)
LEMMA AgeStays ==
  ASSUME AllOK, AllOK', [Next]_vars
  PROVE  \A t \in Nat : Expired(t) => t + Retention < now'
<1>1. now \in Nat /\ now' \in Nat
  BY DEF AllOK, ClockOK, Time
<1>2. CASE now' = now
  BY <1>2 DEF Expired
<1>3. CASE HalfHourPasses
  BY <1>1, <1>3, MaintenanceAssumption DEF Expired, HalfHourPasses
<1> QED
  BY <1>2, <1>3 DEF Next, vars, clockVars, Create, Written, Upsert, Crash, Start, Run, Skip, Fail, Expire

(* Which jobs have rows changes little: an upsert brings one that is not   *)
(* old, retention takes those that are.                                    *)
LEMMA RowsMove ==
  ASSUME AllOK, RowsKept, [Next]_vars
  PROVE  /\ \A j \in Jobs : runs[j] # "none" => runs'[j] # "none" \/ Expired(born[j])
         /\ \A j \in Jobs : runs[j] = "completed" => runs'[j] = "completed" \/ Expired(born[j])
         /\ \A j \in Jobs : runs'[j] # "none" => 
               runs[j] # "none" \/ (~HalfHourPasses /\ ~Expired(born[j]) /\ born[j] # Unborn)
         /\ \A j \in Jobs : born[j] # Unborn => born'[j] = born[j]
<1>0. /\ born \in [Jobs -> Time \union {Unborn}]
      /\ upserting \in [Jobs -> {"none", "active", "completed"}]
      /\ runs \in [Jobs -> {"none", "active", "completed"}]
  BY DEF AllOK, RowsOK
<1>1. CASE UNCHANGED <<born, runs>>
  BY <1>1
<1>2. ASSUME NEW j \in Jobs, Written(j)
      PROVE  born' = born /\ runs' = [runs EXCEPT ![j] = IF @ = "completed" THEN @ ELSE upserting[j]]
             /\ upserting[j] # "none" /\ ~HalfHourPasses /\ ~Expired(born[j]) /\ born[j] # Unborn
  BY <1>0, <1>2 DEF Written, HalfHourPasses, RowsKept, AllOK, RowsOK
<1>3. ASSUME NEW j \in Jobs, Create(j) PROVE runs' = runs /\ born' = [born EXCEPT ![j] = now]
                                             /\ born[j] = Unborn
  BY <1>3 DEF Create
<1>4. CASE DeleteOldRuns
  BY <1>0, <1>4 DEF DeleteOldRuns
<1>5. CASE HalfHourPasses
  BY <1>1, <1>5 DEF HalfHourPasses, rowVars
<1>6. ASSUME NEW r \in Replicas, NEW task \in Tasks,
             (Run(r, task) /\ ~DeleteOldRuns) \/ Skip(r, task) \/ Fail(r, task)
      PROVE  UNCHANGED <<born, runs>>
  BY <1>6 DEF Run, RefreshRollups, RefreshTags, Skip, Fail, rowVars
<1>7. ASSUME NEW r \in Replicas, Crash(r) \/ Start(r) PROVE UNCHANGED <<born, runs>>
  BY <1>7 DEF Crash, Start, rowVars
<1>12. ASSUME NEW task \in Tasks, Expire(task) PROVE UNCHANGED <<born, runs>>
  BY <1>12 DEF Expire, rowVars
<1>8. ASSUME NEW j \in Jobs, NEW status, Upsert(j, status) PROVE UNCHANGED <<born, runs>>
  BY <1>8 DEF Upsert
<1>9. CASE UNCHANGED vars
  BY <1>1, <1>9 DEF vars, rowVars
<1>10. ASSUME NEW j \in Jobs, Written(j)
       PROVE  /\ \A i \in Jobs : runs[i] # "none" => runs'[i] # "none" \/ Expired(born[i])
              /\ \A i \in Jobs : runs[i] = "completed" => runs'[i] = "completed" \/ Expired(born[i])
              /\ \A i \in Jobs : runs'[i] # "none" =>
                   runs[i] # "none" \/ (~HalfHourPasses /\ ~Expired(born[i]) /\ born[i] # Unborn)
              /\ \A i \in Jobs : born[i] # Unborn => born'[i] = born[i]
  BY <1>0, <1>2, <1>10
<1>11. ASSUME NEW j \in Jobs, Create(j)
       PROVE  /\ runs' = runs
              /\ \A i \in Jobs : born[i] # Unborn => born'[i] = born[i]
  BY <1>0, <1>3, <1>11
<1> QED
  BY <1>1, <1>4, <1>5, <1>6, <1>7, <1>8, <1>9, <1>10, <1>11, <1>12 DEF Next

(* So rows stay as they must.                                              *)
LEMMA RowsGoOn ==
  ASSUME AllOK, AllOK', RowsKept, [Next]_vars
  PROVE  RowsKept'
<1>0. /\ \A j \in Jobs : born[j] \in Nat
      /\ upserting \in [Jobs -> {"none", "active", "completed"}]
      /\ runs \in [Jobs -> {"none", "active", "completed"}]
      /\ inHour \union atOnce \subseteq Jobs /\ inHour' \union atOnce' \subseteq Jobs
      /\ inHourDone \subseteq inHour /\ inHourDone' \subseteq inHour'
      /\ \A j \in Jobs : upserting[j] # "none" \/ j \in inHour \union atOnce => born[j] # Unborn
  BY MaintenanceAssumption DEF AllOK, RowsOK, Time, Unborn
<1>a. \/ HalfHourPasses
      \/ \E j \in Jobs, status \in {"active", "completed"} : Upsert(j, status)
      \/ \E j \in Jobs : Written(j)
      \/ UNCHANGED <<now, upserting, inHour, inHourDone, atOnce>>
  BY DEF Next, vars, clockVars, rowVars, storedVars, Create, Crash, Start, Run, Skip, Fail, Expire,
         DeleteOldRuns, RefreshRollups, RefreshTags
<1>1. ASSUME NEW j \in Jobs, upserting'[j] # "none" PROVE ~(born'[j] + Retention < now')
  <2>1. CASE upserting[j] # "none"
    <3>1. now' = now
      BY <1>a, <2>1 DEF HalfHourPasses, Upsert, Written, clockVars
    <3>2. born'[j] = born[j]
      BY <1>0, <2>1, RowsMove
    <3> QED
      BY <2>1, <3>1, <3>2 DEF RowsKept, Expired
  <2>2. CASE upserting[j] = "none"
    <3>1. PICK i \in Jobs, status \in {"active", "completed"} : Upsert(i, status)
      BY <1>0, <1>1, <1>a, <2>2 DEF HalfHourPasses, rowVars, storedVars, Written
    <3>2. i = j
      BY <1>0, <1>1, <2>2, <3>1 DEF Upsert
    <3> QED
      BY <3>1, <3>2 DEF Upsert, WithinRetention, Expired, clockVars
  <2> QED
    BY <2>1, <2>2
<1>2. ASSUME NEW j \in inHour' \union atOnce' PROVE born'[j] + Retention < now' \/ runs'[j] # "none"
  <2>0. j \in Jobs
    BY <1>0
  <2>1. CASE j \in inHour \union atOnce
    <3>1. born'[j] = born[j]
      BY <1>0, <2>0, <2>1, RowsMove
    <3>2. Expired(born[j]) => born'[j] + Retention < now'
      BY <1>0, <2>0, <3>1, AgeStays
    <3>3. runs[j] # "none" => runs'[j] # "none" \/ Expired(born[j])
      BY <2>0, RowsMove
    <3> QED
      BY <2>1, <3>2, <3>3 DEF RowsKept
  <2>2. CASE j \notin inHour \union atOnce
    <3>1. PICK i \in Jobs : Written(i)
      BY <1>2, <1>a, <2>2 DEF HalfHourPasses, rowVars, storedVars, Upsert
    <3>2. i = j
      BY <1>2, <2>2, <3>1 DEF Written
    <3>3. runs'[j] # "none"
      BY <1>0, <2>0, <3>1, <3>2 DEF Written
    <3> QED
      BY <3>3
  <2> QED
    BY <2>1, <2>2
<1>3. ASSUME NEW j \in inHourDone' PROVE born'[j] + Retention < now' \/ runs'[j] = "completed"
  <2>0. j \in Jobs
    BY <1>0
  <2>1. CASE j \in inHourDone
    <3>1. born'[j] = born[j]
      BY <1>0, <2>0, <2>1, RowsMove
    <3>2. Expired(born[j]) => born'[j] + Retention < now'
      BY <1>0, <2>0, <3>1, AgeStays
    <3>3. runs[j] = "completed" => runs'[j] = "completed" \/ Expired(born[j])
      BY <2>0, RowsMove
    <3> QED
      BY <2>1, <3>2, <3>3 DEF RowsKept
  <2>2. CASE j \notin inHourDone
    <3>1. PICK i \in Jobs : Written(i)
      BY <1>3, <1>a, <2>2 DEF HalfHourPasses, rowVars, storedVars, Upsert
    <3> QED
      BY <1>3, <2>2, <3>1 DEF Written
  <2> QED
    BY <2>1, <2>2
<1> QED
  BY <1>1, <1>2, <1>3 DEF RowsKept, Expired

-----------------------------------------------------------------------------
(* The rollups.                                                            *)

(* The runs of an hour whose row was there when it ended, and was          *)
(* completed.                                                              *)
Held(h, q) == {j \in inHour : StartOfHour(born[j]) = h /\ QueueOf[j] = q}

HeldDone(h, q) == {j \in inHourDone : StartOfHour(born[j]) = h /\ QueueOf[j] = q}

Counts(row, h, q) == Held(h, q) \subseteq row.total /\ HeldDone(h, q) \subseteq row.done

Counted(h, q) == Counts(rollups[h][q], h, q)

(* Each hour that is over is counted, or is about to be.                   *)
HoursDone ==
  \A h \in Hours, q \in Queues : h + Hour <= now =>
    \/ <<"rollup", h + Hour>> \in spoiled
    \/ Expired(h)
    \/ Counted(h, q)
    \/ h + Hour = now /\ \E r \in Replicas : "rollup" \in due[r]

(* Half hours and hours.                                                   *)
LEMMA HoursOfTime ==
  /\ \A t \in Nat : StartOfHour(t) \in Nat /\ StartOfHour(t) <= t /\ t < StartOfHour(t) + Hour
  /\ \A t \in Nat : t % Hour = 0 => StartOfHour(t) = t
  /\ \A h \in Hours : h \in Nat /\ h % Hour = 0 /\ (h + Hour) % Hour = 0
BY MaintenanceAssumption DEF StartOfHour, Hour, Hours, Time

(* A refresh counts all of them while the hour is not old.                 *)
LEMMA AggregateCounts ==
  ASSUME AllOK, RowsKept, NEW h \in Hours, NEW q \in Queues, ~Expired(h)
  PROVE  Counts(Aggregate(h, q), h, q)
<1>0. now \in Nat /\ h \in Nat /\ Retention \in Nat /\ inHour \subseteq Jobs
      /\ inHourDone \subseteq inHour /\ \A j \in Jobs : born[j] \in Nat
  BY MaintenanceAssumption, HoursOfTime DEF AllOK, ClockOK, RowsOK, Time, Unborn
<1>1. ASSUME NEW j \in inHour, StartOfHour(born[j]) = h, QueueOf[j] = q
      PROVE  j \in JobsOf(h, q) /\ (j \in inHourDone => runs[j] = "completed")
  <2>1. j \in Jobs /\ born[j] \in Nat
    BY <1>0
  <2>2. ~Expired(born[j])
    BY <1>0, <1>1, <2>1, HoursOfTime DEF Expired
  <2> QED
    BY <1>1, <2>1, <2>2 DEF RowsKept, JobsOf, Stored
<1> QED
  BY <1>0, <1>1 DEF Counts, Held, HeldDone, Aggregate

(* The jobs of an hour that is over are settled.                           *)
LEMMA HeldStays ==
  ASSUME AllOK, [Next]_vars, NEW h \in Hours, NEW q, h + Hour <= now
  PROVE  Held(h, q)' = Held(h, q) /\ HeldDone(h, q)' = HeldDone(h, q)
<1>0. now \in Nat /\ inHourDone \subseteq inHour /\ \A j \in inHour : j \in Jobs /\ born[j] # Unborn
  BY DEF AllOK, ClockOK, RowsOK, Time
<1>1. CASE UNCHANGED <<born, inHour, inHourDone>>
  BY <1>1 DEF Held, HeldDone, StartOfHour
<1>2. ASSUME NEW j \in Jobs, Create(j)
      PROVE  Held(h, q)' = Held(h, q) /\ HeldDone(h, q)' = HeldDone(h, q)
  <2>1. inHour' = inHour /\ inHourDone' = inHourDone /\ \A i \in inHour : born'[i] = born[i]
    BY <1>0, <1>2 DEF Create, storedVars, AllOK, RowsOK
  <2> QED
    BY <1>0, <2>1 DEF Held, HeldDone, StartOfHour
<1>3. ASSUME NEW j \in Jobs, Written(j)
      PROVE  Held(h, q)' = Held(h, q) /\ HeldDone(h, q)' = HeldDone(h, q)
  <2>1. /\ born' = born /\ inHour \subseteq inHour' /\ inHourDone \subseteq inHourDone'
        /\ \A i \in inHour' : i \in inHour \/ StartOfHour(now) = StartOfHour(born[i])
        /\ \A i \in inHourDone' : i \in inHourDone \/ StartOfHour(now) = StartOfHour(born[i])
    BY <1>3 DEF Written
  <2>2. StartOfHour(now) # h
    BY <1>0, HoursOfTime DEF Hour
  <2> QED
    BY <2>1, <2>2 DEF Held, HeldDone, StartOfHour
<1> QED
  BY <1>1, <1>2, <1>3 DEF Next, vars, rowVars, storedVars, Upsert, HalfHourPasses, Crash, Start, Run,
     Skip, Fail, Expire, DeleteOldRuns, RefreshRollups, RefreshTags

(* What is counted is counted for good.                                    *)
LEMMA CountStays ==
  ASSUME AllOK, RowsKept, [Next]_vars, NEW h \in Hours, NEW q \in Queues, h + Hour <= now,
         ~Expired(h), Counted(h, q)
  PROVE  Counted(h, q)'
<1>1. Held(h, q)' = Held(h, q) /\ HeldDone(h, q)' = HeldDone(h, q)
  BY HeldStays
<1>2. \/ rollups'[h][q] = rollups[h][q]
      \/ rollups'[h][q] = Aggregate(h, q)
  <2>1. CASE RefreshRollups
    BY <2>1 DEF RefreshRollups
  <2>2. CASE UNCHANGED rollups
    BY <2>2
  <2> QED
    BY <2>1, <2>2 DEF Next, vars, statVars, rowVars, Create, Written, Upsert, HalfHourPasses, Crash,
       Start, Run, Skip, Fail, Expire, DeleteOldRuns, RefreshTags
<1>3. Counts(Aggregate(h, q), h, q)
  BY AggregateCounts
<1> QED
  BY <1>1, <1>2, <1>3 DEF Counted, Counts

(* Hours go on being counted.                                              *)
LEMMA HoursGoOn ==
  ASSUME AllOK, AllOK', LocksTell, RowsKept, HoursDone, [Next]_vars
  PROVE  HoursDone'
<1>0. now \in Nat /\ now' \in Nat /\ due \in [Replicas -> SUBSET Tasks] /\ Hour = 2
  BY DEF AllOK, ClockOK, Time, Hour
<1> SUFFICES ASSUME NEW h \in Hours, NEW q \in Queues, h + Hour <= now',
                    ~(h + Retention < now')
             PROVE  \/ <<"rollup", h + Hour>> \in spoiled'
                    \/ Counted(h, q)'
                    \/ h + Hour = now' /\ \E r \in Replicas : "rollup" \in due'[r]
  BY DEF HoursDone, Expired
<1>1. h \in Nat /\ h % Hour = 0 /\ (h + Hour) % Hour = 0
  BY HoursOfTime
<1>2. h + Hour <= now => ~Expired(h)
  BY <1>1, AgeStays DEF Expired
<1>3. h + Hour <= now /\ Counted(h, q) => Counted(h, q)'
  BY <1>2, CountStays
<1>4. CASE HalfHourPasses
  <2>1. now' = now + 1 /\ Quiet /\ spoiled \subseteq spoiled'
    BY <1>4 DEF HalfHourPasses
  <2>2. CASE h + Hour <= now
    BY <1>2, <1>3, <2>1, <2>2 DEF HoursDone, Quiet
  <2>3. CASE h + Hour = now'
    <3>1. CASE up = {}
      BY <1>4, <2>1, <2>3, <3>1 DEF HalfHourPasses, Tasks
    <3>2. CASE up # {}
      <4>1. PICK r \in up : r \in Replicas
        BY <3>2 DEF AllOK, ClockOK
      <4>2. "rollup" \in due'[r]
        BY <1>1, <1>4, <2>1, <2>3, <4>1 DEF HalfHourPasses, Fires, Tasks
      <4> QED
        BY <2>3, <4>1, <4>2
    <3> QED
      BY <3>1, <3>2
  <2> QED
    BY <1>0, <1>1, <2>1, <2>2, <2>3
<1>5. CASE ~HalfHourPasses
  <2>1. now' = now /\ spoiled \subseteq spoiled'
    BY <1>5, RunOrSpoiled
  <2>2. CASE \E r \in Replicas : "rollup" \in due[r] /\ h + Hour = now
    <3>1. PICK r \in Replicas : "rollup" \in due[r] /\ h + Hour = now
      BY <2>2
    <3>2. CASE Run(r, "rollup")
      <4>1. RefreshRollups /\ rollups' = [k \in Hours |-> [p \in Queues |->
              IF Expired(k) THEN Nothing
              ELSE IF now >= Hour /\ k = LastHour THEN Aggregate(k, p) ELSE rollups[k][p]]]
        BY <3>2 DEF Run, RefreshRollups
      <4>2. h = LastHour /\ now >= Hour
        BY <1>0, <1>1, <3>1, HoursOfTime DEF LastHour
      <4>3. rollups'[h][q] = Aggregate(h, q)
        BY <1>2, <2>1, <4>1, <4>2
      <4>4. Held(h, q)' = Held(h, q) /\ HeldDone(h, q)' = HeldDone(h, q)
        BY <2>1, HeldStays
      <4> QED
        BY <1>2, <2>1, <4>3, <4>4, AggregateCounts DEF Counted, Counts
    <3>3. CASE ~Run(r, "rollup")
      BY <1>5, <2>1, <3>1, <3>3, RunOrSpoiled DEF Tasks
    <3> QED
      BY <3>2, <3>3
  <2> QED
    BY <1>2, <1>3, <2>1, <2>2 DEF HoursDone
<1> QED
  BY <1>4, <1>5

-----------------------------------------------------------------------------
(* The tags.                                                               *)

(* Each of the two refreshes after a job was stored lists its tag, or is   *)
(* about to.                                                               *)
TagsDone ==
  \A j \in atOnce, i \in {1, 2} : born[j] + i <= now =>
    \/ <<"tags", born[j] + i>> \in spoiled
    \/ Expired(born[j])
    \/ tags[TagOf[j]] >= born[j] + 1
    \/ born[j] + i = now /\ \E r \in Replicas : "tags" \in due[r]

(* A tag stays listed as long as the run that has it is not old, ...       *)
LEMMA TagStays ==
  ASSUME AllOK, NEW j \in Jobs, born[j] # Unborn, ~Expired(born[j]), tags[TagOf[j]] >= born[j] + 1,
         RefreshTags
  PROVE  tags'[TagOf[j]] >= born[j] + 1
<1> DEFINE tag == TagOf[j]
           used == {k \in Stored : TagOf[k] = tag /\ Recent(k)}
           seen == IF used = {} THEN tags[tag] ELSE Latest(tags[tag], LastSeen(tag, used))
<1>0. /\ now \in Nat /\ Retention \in Nat /\ Unborn \in Nat /\ tags \in [Tags -> 0..Unborn]
      /\ born \in [Jobs -> Time \union {Unborn}] /\ born[j] \in Nat /\ tag \in Tags
      /\ tags[tag] \in Nat
  BY MaintenanceAssumption DEF AllOK, ClockOK, RowsOK, StatsOK, Time, Unborn, Tags
<1>1. used \in SUBSET Jobs /\ \A k \in used : born[k] # Unborn
  BY DEF Stored, AllOK, RowsOK
<1>2. tags'[tag] = IF seen > 0 /\ Expired(seen - 1) THEN 0 ELSE seen
  BY <1>0 DEF RefreshTags
<1> HIDE DEF used
<1>3. used # {} => LastSeen(tag, used) \in 1..Unborn
  BY <1>0, <1>1, LastSeenIsSeen
<1>4. seen \in Nat /\ seen >= born[j] + 1
  BY <1>0, <1>3 DEF Latest
<1>5. ~Expired(seen - 1)
  BY <1>0, <1>4 DEF Expired
<1> QED
  BY <1>2, <1>4, <1>5

(* ... and is listed by the refresh after it was stored, and the next.     *)
LEMMA TagListed ==
  ASSUME AllOK, RowsKept, NEW j \in atOnce, ~Expired(born[j]), born[j] + 2 >= now, RefreshTags
  PROVE  tags'[TagOf[j]] >= born[j] + 1
<1> DEFINE tag == TagOf[j]
           used == {k \in Stored : TagOf[k] = tag /\ Recent(k)}
           seen == IF used = {} THEN tags[tag] ELSE Latest(tags[tag], LastSeen(tag, used))
<1>a. j \in Jobs /\ born[j] # Unborn
  BY DEF AllOK, RowsOK
<1>0. /\ now \in Nat /\ Retention \in Nat /\ Unborn \in Nat /\ tags \in [Tags -> 0..Unborn]
      /\ born \in [Jobs -> Time \union {Unborn}] /\ born[j] \in Nat /\ tag \in Tags
      /\ tags[tag] \in Nat
  BY <1>a, MaintenanceAssumption DEF AllOK, ClockOK, RowsOK, StatsOK, Time, Unborn, Tags
<1>1. used \in SUBSET Jobs /\ \A k \in used : born[k] # Unborn
  BY DEF Stored, AllOK, RowsOK
<1>2. tags'[tag] = IF seen > 0 /\ Expired(seen - 1) THEN 0 ELSE seen
  BY <1>0 DEF RefreshTags
<1>b. j \in used
  BY <1>a DEF RowsKept, Stored, Recent, Lookback, Hour
<1> HIDE DEF used
<1>3. LastSeen(tag, used) \in 1..Unborn /\ LastSeen(tag, used) >= born[j] + 1
  BY <1>0, <1>1, <1>b, LastSeenIsSeen
<1>4. seen \in Nat /\ seen >= born[j] + 1
  BY <1>0, <1>3, <1>b DEF Latest
<1>5. ~Expired(seen - 1)
  BY <1>0, <1>4 DEF Expired
<1> QED
  BY <1>2, <1>4, <1>5

(* Tags go on being listed.                                                *)
LEMMA TagsGoOn ==
  ASSUME AllOK, AllOK', LocksTell, RowsKept, TagsDone, [Next]_vars
  PROVE  TagsDone'
<1>0. /\ now \in Nat /\ now' \in Nat /\ due \in [Replicas -> SUBSET Tasks]
      /\ \A j \in Jobs : born[j] \in Nat /\ born'[j] \in Nat
  BY MaintenanceAssumption DEF AllOK, ClockOK, RowsOK, Time, Unborn
<1> SUFFICES ASSUME NEW j \in atOnce', NEW i \in {1, 2}, born'[j] + i <= now',
                    ~(born'[j] + Retention < now')
             PROVE  \/ <<"tags", born'[j] + i>> \in spoiled'
                    \/ tags'[TagOf[j]] >= born'[j] + 1
                    \/ born'[j] + i = now' /\ \E r \in Replicas : "tags" \in due'[r]
  BY DEF TagsDone, Expired
<1>1. j \in atOnce
  <2>1. ASSUME NEW k \in Jobs, Written(k), now = born[k] PROVE born'[k] + i > now'
    BY <1>0, <2>1 DEF Written, clockVars
  <2>2. atOnce' = atOnce \/ \E k \in Jobs : Written(k) /\ now = born[k] /\ atOnce' = atOnce \union {k}
    BY DEF Next, vars, rowVars, storedVars, Create, Written, Upsert, HalfHourPasses, Crash, Start,
           Run, Skip, Fail, Expire, DeleteOldRuns, RefreshRollups, RefreshTags
  <2>3. CASE \E k \in Jobs : Written(k) /\ now = born[k] /\ atOnce' = atOnce \union {k}
    <3>1. PICK k \in Jobs : Written(k) /\ now = born[k] /\ atOnce' = atOnce \union {k}
      BY <2>3
    <3>2. j # k
      BY <1>0, <2>1, <3>1
    <3> QED
      BY <3>1, <3>2
  <2> QED
    BY <2>2, <2>3
<1>2. j \in Jobs /\ born[j] # Unborn /\ TagOf[j] \in Tags
  BY <1>1 DEF AllOK, RowsOK, Tags
<1>3. born'[j] = born[j]
  BY <1>2, RowsMove
<1>4. ~Expired(born[j])
  BY <1>0, <1>2, <1>3, AgeStays
<1>5. tags[TagOf[j]] >= born[j] + 1 => tags'[TagOf[j]] >= born[j] + 1
  <2>1. CASE UNCHANGED tags
    BY <2>1
  <2>2. CASE RefreshTags
    BY <1>2, <1>4, <2>2, TagStays
  <2> QED
    BY <2>1, <2>2 DEF Next, vars, statVars, Create, Written, Upsert, HalfHourPasses, Crash, Start,
       Run, Skip, Fail, Expire, DeleteOldRuns, RefreshRollups
<1>6. CASE HalfHourPasses
  <2>1. now' = now + 1 /\ Quiet /\ spoiled \subseteq spoiled'
    BY <1>6 DEF HalfHourPasses
  <2>2. CASE born[j] + i <= now
    BY <1>1, <1>3, <1>4, <1>5, <2>1, <2>2 DEF TagsDone, Quiet
  <2>3. CASE born[j] + i = now'
    <3>1. CASE up = {}
      BY <1>3, <1>6, <2>1, <2>3, <3>1 DEF HalfHourPasses, Tasks
    <3>2. CASE up # {}
      <4>1. PICK r \in up : r \in Replicas
        BY <3>2 DEF AllOK, ClockOK
      <4>2. "tags" \in due'[r]
        BY <1>6, <4>1 DEF HalfHourPasses, Fires, Tasks
      <4> QED
        BY <1>3, <2>3, <4>1, <4>2
    <3> QED
      BY <3>1, <3>2
  <2> QED
    BY <1>0, <1>2, <1>3, <2>1, <2>2, <2>3
<1>7. CASE ~HalfHourPasses
  <2>1. now' = now /\ spoiled \subseteq spoiled' /\ born[j] + i <= now
    BY <1>3, <1>7, RunOrSpoiled
  <2>2. CASE \E r \in Replicas : "tags" \in due[r] /\ born[j] + i = now
    <3>1. PICK r \in Replicas : "tags" \in due[r] /\ born[j] + i = now
      BY <2>2
    <3>2. CASE Run(r, "tags")
      <4>1. RefreshTags
        BY <3>2 DEF Run
      <4>2. born[j] + 2 >= now
        BY <1>0, <1>2, <3>1
      <4> QED
        BY <1>1, <1>3, <1>4, <4>1, <4>2, TagListed
    <3>3. CASE ~Run(r, "tags")
      BY <1>3, <1>7, <2>1, <3>1, <3>3, RunOrSpoiled DEF Tasks
    <3> QED
      BY <3>2, <3>3
  <2> QED
    BY <1>1, <1>3, <1>4, <1>5, <2>1, <2>2 DEF TagsDone
<1> QED
  BY <1>6, <1>7

-----------------------------------------------------------------------------
(* Retention.                                                              *)

(* Where an old run is still stored and retention is not spoiled, every    *)
(* replica whose half hour it is has it to do.  If it was not spoiled in   *)
(* the half hour before either, in which the run was old already, no       *)
(* replica is left whose half hour that was, and there is one.             *)
RunsGone ==
  \A j \in Stored : Expired(born[j]) /\ <<"clear", now>> \notin spoiled =>
    /\ \A r \in up : phase[r] = now % Hour => "clear" \in due[r]
    /\ born[j] + Retention + 1 < now /\ <<"clear", now - 1>> \notin spoiled =>
         up # {} /\ \A r \in up : phase[r] = now % Hour

(* Old runs go on going.                                                   *)
LEMMA RunsGoOn ==
  ASSUME AllOK, AllOK', LocksTell, RowsKept, RunsGone, [Next]_vars
  PROVE  RunsGone'
<1>0. /\ now \in Nat /\ now' \in Nat /\ due \in [Replicas -> SUBSET Tasks] /\ Retention \in Nat
      /\ phase \in [Replicas -> 0..1] /\ up \subseteq Replicas /\ Hour = 2
      /\ \A j \in Jobs : born[j] \in Nat /\ born'[j] \in Nat
  BY MaintenanceAssumption DEF AllOK, ClockOK, RowsOK, Time, Unborn, Hour
<1> SUFFICES ASSUME NEW j \in Jobs, runs'[j] # "none", born'[j] + Retention < now',
                    <<"clear", now'>> \notin spoiled'
             PROVE  /\ \A r \in up' : phase'[r] = now' % Hour => "clear" \in due'[r]
                    /\ born'[j] + Retention + 1 < now' /\ <<"clear", now' - 1>> \notin spoiled' =>
                         up' # {} /\ \A r \in up' : phase'[r] = now' % Hour
  BY DEF RunsGone, Stored, Expired
<1>1. CASE HalfHourPasses
  <2>1. /\ now' = now + 1 /\ Quiet /\ UNCHANGED <<up, phase, born, runs>>
        /\ due' = [r \in Replicas |-> IF r \in up THEN Fires(r) ELSE {}]
        /\ spoiled' = IF up = {} THEN spoiled \union {<<task, now + 1>> : task \in Tasks} ELSE spoiled
    BY <1>1 DEF HalfHourPasses, rowVars
  <2>2. \A r \in up' : phase'[r] = now' % Hour => "clear" \in due'[r]
    BY <1>0, <2>1 DEF Fires, Tasks
  <2>3. up # {}
    BY <2>1 DEF Tasks
  <2>4. ASSUME NEW r \in up', born'[j] + Retention + 1 < now', <<"clear", now' - 1>> \notin spoiled'
        PROVE  phase'[r] = now' % Hour
    <3>1. Expired(born[j]) /\ j \in Stored /\ <<"clear", now>> \notin spoiled
      <4>1. born'[j] = born[j] /\ spoiled' = spoiled /\ runs' = runs
        BY <2>1, <2>3
      <4>2. born[j] + Retention < now /\ now' - 1 = now
        BY <1>0, <2>1, <2>4, <4>1
      <4> QED
        BY <2>4, <4>1, <4>2 DEF Expired, Stored
    <3>2. phase[r] # now % Hour
      BY <1>0, <2>1, <3>1 DEF RunsGone, Quiet
    <3>3. phase[r] \in {0, 1} /\ now % 2 \in {0, 1} /\ (now + 1) % 2 # now % 2 /\ (now + 1) % 2 \in {0, 1}
      BY <1>0, <2>1
    <3> QED
      BY <1>0, <2>1, <3>2, <3>3
  <2> QED
    BY <2>1, <2>2, <2>3, <2>4
<1>2. CASE ~HalfHourPasses
  <2>1. now' = now /\ spoiled \subseteq spoiled'
    BY <1>2, RunOrSpoiled
  <2>2. j \in Stored /\ born'[j] = born[j] /\ Expired(born[j])
    <3>1. ~Expired(born[j]) => born[j] = Unborn
      <4>1. born[j] # Unborn => born'[j] = born[j]
        BY RowsMove
      <4> QED
        BY <2>1, <4>1 DEF Expired
    <3>2. runs[j] # "none"
      BY <3>1, RowsMove
    <3>3. born[j] # Unborn
      BY <3>2 DEF AllOK, RowsOK
    <3> QED
      BY <3>1, <3>2, <3>3, RowsMove DEF Stored
  <2>3. <<"clear", now>> \notin spoiled
    BY <2>1
  <2>4. <<"clear", now>> \notin spoiled'
    BY <2>1
  <2>5. ASSUME NEW r \in Replicas, Run(r, "clear") PROVE FALSE
    BY <2>2, <2>5 DEF Run, DeleteOldRuns, AllOK, RowsOK, Stored
  <2>6. \A r \in Replicas : "clear" \in due[r] => "clear" \in due'[r]
    BY <1>2, <2>4, <2>5, RunOrSpoiled DEF Tasks
  <2>7. CASE up' = up /\ phase' = phase
    BY <1>0, <2>1, <2>2, <2>3, <2>6, <2>7 DEF RunsGone
  <2>8. ASSUME NEW s \in Replicas, Start(s)
        PROVE  /\ \A r \in up' : phase'[r] = now' % Hour => "clear" \in due'[r]
               /\ born'[j] + Retention + 1 < now' /\ <<"clear", now' - 1>> \notin spoiled' =>
                    up' # {} /\ \A r \in up' : phase'[r] = now' % Hour
    <3>1. /\ up' = up \union {s} /\ Quiet
          /\ phase'[s] = now' % Hour /\ "clear" \in due'[s]
          /\ \A r \in up \ {s} : phase'[r] = phase[r] /\ due'[r] = due[r]
      BY <1>0, <2>1, <2>8 DEF Start
    <3>2. /\ \A r \in up : phase[r] = now % Hour => "clear" \in due[r]
          /\ born[j] + Retention + 1 < now /\ <<"clear", now - 1>> \notin spoiled =>
               \A r \in up : phase[r] = now % Hour
      BY <2>2, <2>3 DEF RunsGone
    <3> QED
      BY <2>1, <2>2, <3>1, <3>2
  <2>9. ASSUME NEW s \in Replicas, Crash(s)
        PROVE  /\ \A r \in up' : phase'[r] = now' % Hour => "clear" \in due'[r]
               /\ born'[j] + Retention + 1 < now' /\ <<"clear", now' - 1>> \notin spoiled' =>
                    up' # {} /\ \A r \in up' : phase'[r] = now' % Hour
    <3>1. /\ up' = up \ {s} /\ s \in up /\ phase' = phase
          /\ \A task \in due[s] : <<task, now>> \in spoiled'
      BY <2>9 DEF Crash
    <3>2. "clear" \notin due[s]
      BY <2>4, <3>1
    <3>3. /\ \A r \in up : phase[r] = now % Hour => "clear" \in due[r]
          /\ born[j] + Retention + 1 < now /\ <<"clear", now - 1>> \notin spoiled =>
               \A r \in up : phase[r] = now % Hour
      BY <2>2, <2>3 DEF RunsGone
    <3>4. ~(born[j] + Retention + 1 < now /\ <<"clear", now - 1>> \notin spoiled)
      BY <3>1, <3>2, <3>3
    <3> QED
      BY <1>0, <2>1, <2>2, <2>6, <3>1, <3>3, <3>4
  <2> QED
    BY <1>2, <2>7, <2>8, <2>9 DEF Next, vars, clockVars, Create, Written, Upsert, Run, Skip, Fail, Expire
<1> QED
  BY <1>1, <1>2

-----------------------------------------------------------------------------
(* The invariant.                                                          *)

Inv == AllOK /\ LocksTell /\ RowsKept /\ HoursDone /\ TagsDone /\ RunsGone

(* It holds.                                                               *)
LEMMA InvHolds == Spec => []Inv
<1>1. Init => Inv
  BY InitType, HoursOfTime DEF Init, Inv, LocksTell, RowsKept, HoursDone, TagsDone, RunsGone, Stored,
                               Hour, Tasks
<1>2. Inv /\ [Next]_vars => Inv'
  BY NextType, LocksGoOn, RowsGoOn, HoursGoOn, TagsGoOn, RunsGoOn DEF Inv
<1> QED
  BY <1>1, <1>2, PTL DEF Spec

(* The rollup of a full hour counts every run whose row was there when it  *)
(* ended, and as completed what was completed by then, unless the rollup   *)
(* after it was not done: for any number of replicas, crashes and locks    *)
(* left behind.                                                            *)
THEOREM FullHoursCount == Spec => []HoursAreCounted
<1>1. Inv => HoursAreCounted
  <2> SUFFICES ASSUME Inv, Quiet, NEW h \in Hours, NEW q \in Queues, ~(h + Hour > now)
               PROVE  \/ <<"rollup", h + Hour>> \in spoiled
                      \/ Expired(h)
                      \/ Counted(h, q)
    BY DEF HoursAreCounted, Counted, Counts, Held, HeldDone
  <2>1. h + Hour <= now
    BY HoursOfTime DEF Inv, AllOK, ClockOK, Time, Hour
  <2> QED
    BY <2>1 DEF Inv, HoursDone, Quiet
<1> QED
  BY <1>1, InvHolds, PTL

(* The tag of a run that was stored at once is listed as long as the run   *)
(* is kept, although one of the two refreshes that find it is spoiled: by  *)
(* a failure, or by the lock that a replica left behind in its first       *)
(* refresh, between two half hours.                                        *)
THEOREM RecentTagsListed == Spec => []TagsAreListed
<1>1. Inv => TagsAreListed
  <2> SUFFICES ASSUME Inv, Quiet, NEW j \in atOnce, ~(born[j] + Hour > now),
                      ~({<<"tags", born[j] + 1>>, <<"tags", born[j] + 2>>} \subseteq spoiled),
                      ~Expired(born[j])
               PROVE  tags[TagOf[j]] > 0
    BY DEF TagsAreListed
  <2>1. j \in Jobs /\ born[j] \in Nat /\ now \in Nat /\ TagOf[j] \in Tags
    BY MaintenanceAssumption DEF Inv, AllOK, ClockOK, RowsOK, Time, Unborn, Tags
  <2>2. PICK i \in {1, 2} : <<"tags", born[j] + i>> \notin spoiled
    OBVIOUS
  <2>3. born[j] + i <= now
    BY <2>1, <2>2 DEF Hour
  <2>4. tags[TagOf[j]] >= born[j] + 1
    BY <2>2, <2>3 DEF Inv, TagsDone, Quiet
  <2>5. tags[TagOf[j]] \in Int
    BY <2>1, MaintenanceAssumption DEF Inv, AllOK, StatsOK, Unborn
  <2> QED
    BY <2>1, <2>4, <2>5
<1> QED
  BY <1>1, InvHolds, PTL

(* An old run is gone within the hour, and no late event and no            *)
(* reconciliation brings it back, unless retention was spoiled in one of   *)
(* the last two half hours: what spoiled it before that, a crash or a lock *)
(* left behind, costs no more than the hour.                               *)
THEOREM OldRunsAreGone == Spec => []OldRunsStayGone
<1>1. Inv => OldRunsStayGone
  <2> SUFFICES ASSUME Inv, Quiet, NEW j \in Stored, ~(born[j] + Retention + 1 >= now),
                      \A t \in {now - 1, now} : <<"clear", t>> \notin spoiled
               PROVE  FALSE
    BY DEF OldRunsStayGone
  <2>1. now \in Nat /\ Retention \in Nat /\ born[j] \in Nat /\ up \subseteq Replicas
    BY MaintenanceAssumption DEF Inv, AllOK, ClockOK, RowsOK, Time, Unborn, Stored
  <2>2. Expired(born[j]) /\ born[j] + Retention + 1 < now
    BY <2>1 DEF Expired
  <2>3. PICK r \in up : phase[r] = now % Hour /\ "clear" \in due[r]
    BY <2>2 DEF Inv, RunsGone
  <2> QED
    BY <2>1, <2>3 DEF Quiet
<1> QED
  BY <1>1, InvHolds, PTL

-----------------------------------------------------------------------------
(* What the rollups count, and that no row counts what another one does.   *)

BornIn(h, q) == {j \in Jobs : born[j] # Unborn /\ StartOfHour(born[j]) = h /\ QueueOf[j] = q}

(* A rollup counts runs of its hour and queue.                             *)
RollupsKept ==
  \A h \in Hours, q \in Queues :
    rollups[h][q].total \subseteq BornIn(h, q) /\ rollups[h][q].done \subseteq BornIn(h, q)

(* Rollups stay within what there is to count.                             *)
LEMMA RollupsStay ==
  ASSUME AllOK, RollupsKept, [Next]_vars
  PROVE  RollupsKept'
<1> SUFFICES ASSUME NEW h \in Hours, NEW q \in Queues
             PROVE  /\ rollups'[h][q].total \subseteq BornIn(h, q)'
                    /\ rollups'[h][q].done \subseteq BornIn(h, q)'
  BY DEF RollupsKept
<1>1. \/ rollups'[h][q] = rollups[h][q]
      \/ rollups'[h][q] = Aggregate(h, q)
      \/ rollups'[h][q] = Nothing
  <2>1. CASE RefreshRollups
    BY <2>1 DEF RefreshRollups
  <2>2. CASE UNCHANGED rollups
    BY <2>2
  <2> QED
    BY <2>1, <2>2 DEF Next, vars, statVars, rowVars, Create, Written, Upsert, HalfHourPasses, Crash,
       Start, Run, Skip, Fail, Expire, DeleteOldRuns, RefreshTags
<1>2. Aggregate(h, q).total \subseteq BornIn(h, q) /\ Aggregate(h, q).done \subseteq BornIn(h, q)
  BY DEF Aggregate, JobsOf, Stored, BornIn, AllOK, RowsOK
<1>3. BornIn(h, q) \subseteq BornIn(h, q)'
  <2>1. CASE UNCHANGED born
    BY <2>1 DEF BornIn, StartOfHour
  <2>2. ASSUME NEW j \in Jobs, Create(j) PROVE BornIn(h, q) \subseteq BornIn(h, q)'
    BY <2>2 DEF Create, BornIn, StartOfHour, AllOK, RowsOK
  <2> QED
    BY <2>1, <2>2 DEF Next, vars, rowVars, Written, Upsert, HalfHourPasses, Crash, Start, Run, Skip,
       Fail, Expire, DeleteOldRuns, RefreshRollups, RefreshTags
<1>4. Nothing.total = {} /\ Nothing.done = {}
  BY DEF Nothing
<1>5. rollups[h][q].total \subseteq BornIn(h, q) /\ rollups[h][q].done \subseteq BornIn(h, q)
  BY DEF RollupsKept
<1> QED
  BY <1>1, <1>2, <1>3, <1>4, <1>5

(* So a sum over rows is the number of the runs they count.                *)
LEMMA SumCountsRuns ==
  ASSUME RollupsKept, NEW rows \in SUBSET (Hours \X Queues), NEW field \in {"total", "done"}
  PROVE  Sum(rows, field) = Cardinality(RunsOf(rows, field))
<1> DEFINE pairs == {pair \in rows \X Jobs : pair[2] \in rollups[pair[1][1]][pair[1][2]][field]}
           held == RunsOf(rows, field)
           pairOf == [j \in held |-> <<<<StartOfHour(born[j]), QueueOf[j]>>, j>>]
<1>1. ASSUME NEW row \in rows, NEW j \in rollups[row[1]][row[2]][field]
      PROVE  j \in Jobs /\ row = <<StartOfHour(born[j]), QueueOf[j]>>
  <2>1. PICK h \in Hours, q \in Queues : row = <<h, q>>
    OBVIOUS
  <2>2. j \in BornIn(h, q)
    BY <2>1 DEF RollupsKept
  <2> QED
    BY <2>1, <2>2 DEF BornIn
<1>2. held \in SUBSET Jobs
  BY <1>1 DEF RunsOf
<1>3. \A j \in held : pairOf[j] \in pairs
  <2> SUFFICES ASSUME NEW j \in held PROVE <<<<StartOfHour(born[j]), QueueOf[j]>>, j>> \in pairs
    OBVIOUS
  <2>1. PICK row \in rows : j \in rollups[row[1]][row[2]][field]
    BY DEF RunsOf
  <2>2. row = <<StartOfHour(born[j]), QueueOf[j]>> /\ j \in Jobs
    BY <1>1, <2>1
  <2>3. <<row, j>> \in rows \X Jobs /\ <<row, j>>[1] = row /\ <<row, j>>[2] = j
    BY <2>2
  <2>4. <<row, j>> \in pairs
    BY <2>1, <2>3
  <2> QED
    BY <2>2, <2>4
<1>4. \A pair \in pairs : \E j \in held : pairOf[j] = pair
  <2> SUFFICES ASSUME NEW pair \in pairs PROVE \E j \in held : pairOf[j] = pair
    OBVIOUS
  <2>1. PICK row \in rows, j \in Jobs : pair = <<row, j>> /\ j \in rollups[row[1]][row[2]][field]
    OBVIOUS
  <2>2. j \in held /\ row = <<StartOfHour(born[j]), QueueOf[j]>>
    BY <1>1, <2>1 DEF RunsOf
  <2> QED
    BY <2>1, <2>2
<1>5. \A i, j \in held : pairOf[i] = pairOf[j] => i = j
  OBVIOUS
<1>6. pairOf \in [held -> pairs]
  BY <1>3
<1> HIDE DEF pairs, held, pairOf
<1>7. pairOf \in Bijection(held, pairs)
  BY <1>4, <1>5, <1>6 DEF Bijection, Injection, Surjection, IsInjective
<1>8. Cardinality(pairs) = Cardinality(held)
  BY <1>2, <1>7, Countable, FS_Bijection DEF ExistsBijection
<1> QED
  BY <1>8 DEF Sum, pairs, held

-----------------------------------------------------------------------------
(* The hours and places of the dashboard.                                  *)

(* A time is cut down to a multiple of the step, the last one before it.   *)
LEMMA FloorIs ==
  ASSUME NEW t \in Nat, NEW step \in Nat \ {0}
  PROVE  /\ Floor(t, step) \in Nat /\ Floor(t, step) <= t /\ t < Floor(t, step) + step
         /\ \E k \in Nat : Floor(t, step) = k * step
<1>1. t % step \in 0..(step - 1)
  OBVIOUS
<1>2. t = step * (t \div step) + (t % step)
  OBVIOUS
<1>3. t \div step \in Nat
  OBVIOUS
<1>4. Floor(t, step) = (t \div step) * step
  BY <1>1, <1>2, <1>3 DEF Floor
<1>5. Floor(t, step) >= 0
  BY <1>1, <1>2, <1>3, <1>4
<1>6. Floor(t, step) \in Nat /\ Floor(t, step) <= t /\ t < Floor(t, step) + step
  BY <1>1, <1>5 DEF Floor
<1>7. \E k \in Nat : Floor(t, step) = k * step
  BY <1>3, <1>4
<1> QED
  BY <1>6, <1>7

(* Multiples of a step are in the order of what they are multiples of.     *)
LEMMA TimesGrow ==
  ASSUME NEW a \in Nat, NEW b \in Nat, NEW step \in Nat \ {0}
  PROVE  /\ a <= b => a * step <= b * step
         /\ a * step < (b + 1) * step => a <= b
<1>1. ASSUME NEW x \in Nat, NEW y \in Nat, x <= y PROVE x * step <= y * step
  <2>1. PICK d \in Nat : y = x + d
    <3>1. y - x \in Nat
      BY <1>1
    <3> QED
      BY <3>1
  <2>2. y * step = x * step + d * step /\ d * step >= 0
    BY <2>1
  <2> QED
    BY <2>2
<1>2. ASSUME a > b PROVE (b + 1) * step <= a * step
  BY <1>1, <1>2
<1>3. a * step \in Nat /\ (b + 1) * step \in Nat
  OBVIOUS
<1> QED
  BY <1>1, <1>2, <1>3

(* A multiple up to t is one up to t cut down, and from one to the other   *)
(* are whole steps.                                                        *)
LEMMA FloorFits ==
  ASSUME NEW s \in Nat, NEW t \in Nat, NEW step \in Nat \ {0}, Floor(s, step) <= t
  PROVE  /\ Floor(s, step) <= Floor(t, step)
         /\ (Floor(t, step) - Floor(s, step)) % step = 0
         /\ Floor(Floor(t, step), step) = Floor(t, step)
<1>1. PICK a \in Nat : Floor(s, step) = a * step
  BY FloorIs
<1>2. PICK b \in Nat : Floor(t, step) = b * step
  BY FloorIs
<1>3. a * step < (b + 1) * step
  <2>1. a * step <= t /\ t < b * step + step /\ a * step \in Nat
    BY <1>1, <1>2, FloorIs
  <2>2. (b + 1) * step = b * step + step
    OBVIOUS
  <2> QED
    BY <2>1, <2>2
<1>4. a <= b /\ a * step <= b * step
  BY <1>3, TimesGrow
<1>5. \A k \in Nat : (k * step) % step = 0
  OBVIOUS
<1>6. b * step - a * step = (b - a) * step /\ b - a \in Nat
  BY <1>4
<1>7. Floor(t, step) - ((b * step) % step) = Floor(Floor(t, step), step)
  BY <1>2 DEF Floor
<1>8. Floor(t, step) \in Nat
  BY FloorIs
<1>9. (b * step) % step = 0 /\ ((b - a) * step) % step = 0
  BY <1>5, <1>6
<1> QED
  BY <1>1, <1>2, <1>4, <1>6, <1>7, <1>8, <1>9

(* A time between a multiple and another time is cut down to the same.     *)
LEMMA SamePlace ==
  ASSUME NEW s \in Nat, NEW t \in Nat, NEW step \in Nat \ {0}, Floor(t, step) <= s, s <= t
  PROVE  Floor(s, step) = Floor(t, step)
<1>1. PICK a \in Nat : Floor(s, step) = a * step
  BY FloorIs
<1>2. PICK b \in Nat : Floor(t, step) = b * step
  BY FloorIs
<1>3. a * step <= s /\ s < a * step + step /\ b * step <= t /\ t < b * step + step
      /\ a * step \in Nat /\ b * step \in Nat
  BY <1>1, <1>2, FloorIs
<1>4. (a + 1) * step = a * step + step /\ (b + 1) * step = b * step + step
  OBVIOUS
<1>5. b * step < (a + 1) * step /\ a * step < (b + 1) * step
  BY <1>2, <1>3, <1>4
<1>6. b <= a /\ a <= b
  BY <1>5, TimesGrow
<1> QED
  BY <1>1, <1>2, <1>6

(* An hour is in the place of its runs.                                    *)
LEMMA PlaceOfHour ==
  ASSUME NEW t \in Nat, NEW step \in Nat \ {0}, step % Hour = 0
  PROVE  /\ Floor(StartOfHour(t), step) = Floor(t, step)
         /\ Floor(t, step) <= StartOfHour(t)
         /\ \A s \in Nat : Floor(s, step) <= t => Floor(s, step) <= StartOfHour(t)
<1>1. PICK n \in Nat : step = 2 * n
  <2>1. step = 2 * (step \div 2) + (step % 2) /\ step \div 2 \in Nat
    OBVIOUS
  <2> QED
    BY <2>1 DEF Hour
<1>2. ASSUME NEW s \in Nat, Floor(s, step) <= t PROVE Floor(s, step) <= StartOfHour(t)
  <2>1. PICK k \in Nat : Floor(s, step) = k * step
    BY FloorIs
  <2>2. k * step = 2 * (k * n) /\ k * n \in Nat
    BY <1>1
  <2>3. \A x \in Nat : 2 * x <= t => 2 * x <= t - (t % 2)
    OBVIOUS
  <2> QED
    BY <1>2, <2>1, <2>2, <2>3 DEF StartOfHour, Hour
<1>3. Floor(t, step) <= StartOfHour(t)
  BY <1>2, FloorIs
<1>4. StartOfHour(t) \in Nat /\ StartOfHour(t) <= t
  BY HoursOfTime
<1>5. Floor(StartOfHour(t), step) = Floor(t, step)
  BY <1>3, <1>4, FloorIs, SamePlace
<1> QED
  BY <1>2, <1>3, <1>5

(* A whole number of steps later is cut down to as much later.             *)
LEMMA FloorLater ==
  ASSUME NEW t \in Nat, NEW late \in Nat, NEW step \in Nat \ {0}, late % step = 0
  PROVE  Floor(t + late, step) = Floor(t, step) + late
<1>1. PICK c \in Nat : late = c * step
  <2>1. late = step * (late \div step) + (late % step) /\ late \div step \in Nat
    OBVIOUS
  <2>2. late = (late \div step) * step
    BY <2>1
  <2> QED
    BY <2>1, <2>2
<1>2. PICK a \in Nat : Floor(t, step) = a * step
  BY FloorIs
<1>a. t + late \in Nat
  OBVIOUS
<1>3. PICK b \in Nat : Floor(t + late, step) = b * step
  BY <1>a, FloorIs
<1>4. a * step <= t /\ t < a * step + step /\ b * step <= t + late /\ t + late < b * step + step
      /\ a * step \in Nat /\ b * step \in Nat
  BY <1>a, <1>2, <1>3, FloorIs
<1>5. (a + c) * step = a * step + late /\ (a + c) * step \in Nat
  BY <1>1
<1>6. (a + c + 1) * step = (a + c) * step + step /\ (b + 1) * step = b * step + step
  OBVIOUS
<1>7. b * step < (a + c + 1) * step /\ (a + c) * step < (b + 1) * step
  BY <1>4, <1>5, <1>6
<1>8. b = a + c
  BY <1>7, TimesGrow
<1> QED
  BY <1>2, <1>3, <1>5, <1>8

(* A step is a whole number of hours.                                      *)
LEMMA StepsAreHours == \A p \in Periods : Interval(p) \in Nat \ {0} /\ Interval(p) % Hour = 0
<1>1. Day \in Nat \ {0} /\ Day % Hour = 0
  BY DashboardAssumption
<1>2. Hour \in Nat \ {0} /\ Hour % Hour = 0
  BY DEF Hour
<1> QED
  BY <1>1, <1>2 DEF Interval

(* Places are times.                                                       *)
LEMMA PlacesAreTimes ==
  ASSUME NEW p \in Periods, NEW at \in Time
  PROVE  GraphPlaces[p][at] \subseteq Time /\ ChartPlaces[p][at] \subseteq Time
<1>1. Interval(p) \in Nat \ {0}
  BY StepsAreHours
<1>2. ASSUME NEW d \in Time PROVE Floor(d, Interval(p)) \in Time
  BY <1>1, FloorIs, MaintenanceAssumption DEF Time
<1> QED
  BY <1>2 DEF GraphPlaces, ChartPlaces, Steps

(* A period is a whole number of steps.                                    *)
LEMMA WholeSteps == \A p \in Periods : p \in Nat /\ p % Interval(p) = 0
<1> SUFFICES ASSUME NEW p \in Periods PROVE p \in Nat /\ p % Interval(p) = 0
  OBVIOUS
<1>1. p \in Nat /\ p % Day = 0 /\ Day \in Nat \ {0} /\ Day % 2 = 0
  BY DashboardAssumption DEF Hour
<1>2. PICK k \in Nat : p = k * Day
  <2>1. p = Day * (p \div Day) + (p % Day) /\ p \div Day \in Nat
    BY <1>1
  <2>2. p = (p \div Day) * Day
    BY <1>1, <2>1
  <2> QED
    BY <2>1, <2>2
<1>3. PICK m \in Nat : Day = 2 * m
  <2>1. Day = 2 * (Day \div 2) + (Day % 2) /\ Day \div 2 \in Nat
    BY <1>1
  <2> QED
    BY <1>1, <2>1
<1>4. p = 2 * (k * m) /\ k * m \in Nat
  BY <1>2, <1>3
<1>5. p % 2 = 0
  <2>1. \A x \in Nat : (2 * x) % 2 = 0
    OBVIOUS
  <2> QED
    BY <1>4, <2>1
<1> QED
  BY <1>1, <1>5 DEF Interval, Hour

(* A place of the graph and of the charts lies within them for each time   *)
(* of the window, and its rows are the hours there.                        *)
LEMMA PlacesCover ==
  ASSUME NEW p \in Periods, NEW at \in Time, NEW t \in Nat, BucketFrom(p, at) <= t, t <= at
  PROVE  /\ Floor(t, Interval(p)) \in GraphPlaces[p][at]
         /\ Floor(t, Interval(p)) \in ChartPlaces[p][at]
         /\ Floor(t, Interval(p)) \in Time
         /\ StartOfHour(t) \in Hours
         /\ \A q \in Queues :
              <<StartOfHour(t), q>> \in OfPlace[Floor(t, Interval(p))][p][at]
<1> DEFINE step == Interval(p)
           from == DateFrom(p, at)
           place == Floor(t, step)
           first == Floor(from, step)
<1>0. step \in Nat \ {0} /\ step % Hour = 0 /\ p \in Nat /\ at \in Nat /\ at <= MaxTime /\ MaxTime \in Nat
  BY DashboardAssumption, MaintenanceAssumption, StepsAreHours DEF Time
<1>1. from \in Nat /\ from <= at /\ first = BucketFrom(p, at)
  BY <1>0 DEF DateFrom, BucketFrom
<1>2. /\ place \in Nat /\ place <= t /\ first \in Nat /\ first <= from /\ from < first + step
      /\ first <= place /\ (place - first) % step = 0 /\ Floor(place, step) = place
  BY <1>0, <1>1, FloorIs, FloorFits
<1>3. place \in Time
  BY <1>0, <1>2 DEF Time
<1>4. place \in GraphPlaces[p][at]
  <2>1. place \in Steps(first, at, step)
    BY <1>0, <1>2, <1>3 DEF Steps
  <2>2. place \in {Floor(d, step) : d \in Steps(first, at, step)}
    BY <1>2, <2>1
  <2> QED
    BY <1>1, <2>2 DEF GraphPlaces
<1>5. place \in ChartPlaces[p][at]
  <2> DEFINE d == place + (from - first)
  <2>1. d \in Nat /\ from <= d /\ (d - from) % step = 0 /\ place <= d /\ d < place + step
    BY <1>0, <1>1, <1>2
  <2>2. Floor(d, step) = place
    <3>1. PICK a \in Nat : place = a * step
      BY <1>0, FloorIs
    <3>2. PICK b \in Nat : Floor(d, step) = b * step
      BY <1>0, <2>1, FloorIs
    <3>3. b * step <= d /\ d < b * step + step /\ a * step \in Nat /\ b * step \in Nat
      BY <1>0, <2>1, <3>1, <3>2, FloorIs
    <3>4. (a + 1) * step = a * step + step /\ (b + 1) * step = b * step + step
      BY <1>0
    <3>5. b * step < (a + 1) * step /\ a * step < (b + 1) * step
      BY <1>0, <2>1, <3>1, <3>3, <3>4
    <3>6. a = b
      BY <1>0, <3>5, TimesGrow
    <3> QED
      BY <3>1, <3>2, <3>6
  <2>3. d <= at
    <3>1. CASE from = 0
      BY <1>0, <1>2, <3>1
    <3>2. CASE from # 0
      <4>1. p <= at /\ from = at - p /\ p % step = 0
        BY <1>0, <3>2, WholeSteps DEF DateFrom
      <4>2. Floor(at, step) = first + p
        BY <1>0, <1>1, <1>2, <4>1, FloorLater
      <4>3. place <= Floor(at, step)
        <5>1. Floor(t, step) <= at
          BY <1>0, <1>2
        <5> QED
          BY <1>0, <5>1, FloorFits
      <4> QED
        BY <1>0, <1>1, <1>2, <4>1, <4>2, <4>3
    <3> QED
      BY <3>1, <3>2
  <2>4. d \in Steps(from, at, step)
    BY <1>0, <2>1, <2>3 DEF Steps, Time
  <2>5. place \in {Floor(x, step) : x \in Steps(from, at, step)}
    BY <2>2, <2>4
  <2> QED
    BY <2>5 DEF ChartPlaces
<1>6. /\ Floor(StartOfHour(t), step) = place /\ BucketFrom(p, at) <= StartOfHour(t)
      /\ StartOfHour(t) <= at /\ StartOfHour(t) \in Hours
  <2>1. Floor(StartOfHour(t), step) = place /\ first <= StartOfHour(t)
    BY <1>0, <1>1, PlaceOfHour
  <2>2. StartOfHour(t) \in Nat /\ StartOfHour(t) <= t /\ StartOfHour(t) % Hour = 0
    BY DEF StartOfHour, Hour
  <2> QED
    BY <1>0, <1>1, <2>1, <2>2 DEF Hours, Time
<1>7. ASSUME NEW q \in Queues PROVE <<StartOfHour(t), q>> \in OfPlace[place][p][at]
  <2>1. <<StartOfHour(t), q>> \in StatRows[p][at]
    BY <1>0, <1>6 DEF StatRows
  <2> QED
    BY <1>3, <1>6, <2>1 DEF OfPlace
<1> QED
  BY <1>3, <1>4, <1>5, <1>6, <1>7

(* The rows of a place are hours and queues, and their runs were created   *)
(* there.                                                                  *)
LEMMA RunsOfPlace ==
  ASSUME AllOK, RollupsKept, NEW p \in Periods, NEW at \in Time, NEW t \in Time,
         NEW rows \in SUBSET OfPlace[t][p][at], NEW field \in {"total", "done"}
  PROVE  /\ rows \in SUBSET (Hours \X Queues)
         /\ RunsOf(rows, field) \subseteq CreatedIn(t, p)
         /\ \A j \in RunsOf(rows, field) : <<StartOfHour(born[j]), QueueOf[j]>> \in rows
<1>a. OfPlace[t][p][at] = {row \in StatRows[p][at] : Floor(row[1], Interval(p)) = t}
  BY DEF OfPlace
<1>b. StatRows[p][at] = {h \in Hours : BucketFrom(p, at) <= h /\ h <= at} \X Queues
  BY DEF StatRows
<1>1. /\ \A row \in rows : row \in Hours \X Queues
      /\ \A row \in rows : Floor(row[1], Interval(p)) = t
  BY <1>a, <1>b
<1>2. Interval(p) \in Nat \ {0} /\ Interval(p) % Hour = 0
  BY StepsAreHours
<1>3. ASSUME NEW row \in rows, NEW j \in rollups[row[1]][row[2]][field]
      PROVE  j \in CreatedIn(t, p) /\ <<StartOfHour(born[j]), QueueOf[j]>> = row
  <2>1. PICK h \in Hours, q \in Queues : row = <<h, q>>
    BY <1>1
  <2>2. j \in BornIn(h, q)
    BY <2>1 DEF RollupsKept
  <2>3. j \in Jobs /\ born[j] # Unborn /\ StartOfHour(born[j]) = h /\ QueueOf[j] = q /\ born[j] \in Nat
    BY <2>2, MaintenanceAssumption DEF BornIn, AllOK, RowsOK, Time, Unborn
  <2>4. Floor(born[j], Interval(p)) = Floor(h, Interval(p))
    BY <1>2, <2>3, PlaceOfHour
  <2> QED
    BY <1>1, <2>1, <2>3, <2>4 DEF CreatedIn
<1> QED
  BY <1>1, <1>3 DEF RunsOf

(* A run of an hour that is over is counted in the row of that hour.       *)
LEMMA SummarisedIsCounted ==
  ASSUME Inv, Quiet, NEW j \in inHour, Summarised(j)
  PROVE  /\ j \in Jobs /\ born[j] \in Nat /\ QueueOf[j] \in Queues
         /\ StartOfHour(born[j]) \in Hours
         /\ j \in rollups[StartOfHour(born[j])][QueueOf[j]].total
         /\ j \in inHourDone => j \in rollups[StartOfHour(born[j])][QueueOf[j]].done
<1> DEFINE h == StartOfHour(born[j])
           q == QueueOf[j]
<1>1. j \in Jobs /\ born[j] \in Nat /\ born[j] <= MaxTime /\ MaxTime \in Nat /\ q \in Queues
  BY MaintenanceAssumption DEF Inv, AllOK, RowsOK, Time, Unborn, Queues
<1>2. h \in Hours
  <2>1. h \in Nat /\ h <= born[j] /\ h % Hour = 0
    BY <1>1 DEF StartOfHour, Hour
  <2> QED
    BY <1>1, <2>1 DEF Hours, Time
<1>3. h + Hour <= now /\ <<"rollup", h + Hour>> \notin spoiled /\ ~Expired(h)
  BY DEF Summarised
<1>4. Counted(h, q)
  BY <1>1, <1>2, <1>3 DEF Inv, HoursDone, Quiet
<1>5. j \in Held(h, q) /\ (j \in inHourDone => j \in HeldDone(h, q))
  BY DEF Held, HeldDone
<1> QED
  BY <1>1, <1>2, <1>4, <1>5 DEF Counted, Counts

(* Both invariants at once.                                                *)
LEMMA RollupsHold == Spec => [](Inv /\ RollupsKept)
<1>1. Init => RollupsKept
  BY DEF Init, RollupsKept, Nothing
<1>2. AllOK /\ RollupsKept /\ [Next]_vars => RollupsKept'
  BY RollupsStay
<1>3. Inv => AllOK
  BY DEF Inv
<1> QED
  BY <1>1, <1>2, <1>3, InvHolds, PTL DEF Spec

(* In whatever state its statement is carried out, the run graph counts no *)
(* run twice and each in the place of its creation, and where the rollups  *)
(* were made it has a place for every hour and every run: for any number   *)
(* of jobs and queues, any period and any time a statement takes.          *)
THEOREM GraphCountsEachOnce == Spec => []RunGraphCountsOnce
<1>1. ASSUME Inv, RollupsKept, NEW at \in Requests, NEW p \in Periods
      PROVE  LET graph == RunGraph(p, at)
                 held(t) == RunsOf(OfPlace[t][p][at], "total")
             IN
             /\ \A t \in DOMAIN graph :
                  graph[t] = Cardinality(held(t)) /\ held(t) \subseteq CreatedIn(t, p)
             /\ Quiet => \A j \in inHour :
                  Summarised(j) /\ BucketFrom(p, at) <= born[j] /\ born[j] <= at =>
                    LET t == Floor(born[j], Interval(p)) IN t \in DOMAIN graph /\ j \in held(t)
  <2>0. at \in Time
    BY DEF Requests
  <2>1. ASSUME NEW t \in GraphPlaces[p][at]
        PROVE  /\ RunGraph(p, at)[t] = Cardinality(RunsOf(OfPlace[t][p][at], "total"))
               /\ RunsOf(OfPlace[t][p][at], "total") \subseteq CreatedIn(t, p)
    <3>1. t \in Time
      BY <2>0, PlacesAreTimes
    <3>a. PICK rows \in SUBSET OfPlace[t][p][at] : rows = OfPlace[t][p][at]
      OBVIOUS
    <3>b. rows \in SUBSET (Hours \X Queues) /\ RunsOf(rows, "total") \subseteq CreatedIn(t, p)
      BY <1>1, <2>0, <3>1, RunsOfPlace DEF Inv
    <3>2. /\ OfPlace[t][p][at] \in SUBSET (Hours \X Queues)
          /\ RunsOf(OfPlace[t][p][at], "total") \subseteq CreatedIn(t, p)
      BY <3>a, <3>b
    <3>3. Sum(OfPlace[t][p][at], "total") = Cardinality(RunsOf(OfPlace[t][p][at], "total"))
      BY <1>1, <3>2, SumCountsRuns
    <3> QED
      BY <3>2, <3>3 DEF RunGraph
  <2>2. ASSUME Quiet, NEW j \in inHour, Summarised(j), BucketFrom(p, at) <= born[j], born[j] <= at
        PROVE  /\ Floor(born[j], Interval(p)) \in GraphPlaces[p][at]
               /\ j \in RunsOf(OfPlace[Floor(born[j], Interval(p))][p][at], "total")
    <3>1. /\ born[j] \in Nat /\ QueueOf[j] \in Queues
          /\ j \in rollups[StartOfHour(born[j])][QueueOf[j]].total
      BY <1>1, <2>2, SummarisedIsCounted
    <3>2. /\ Floor(born[j], Interval(p)) \in GraphPlaces[p][at]
          /\ <<StartOfHour(born[j]), QueueOf[j]>> \in OfPlace[Floor(born[j], Interval(p))][p][at]
      BY <2>0, <2>2, <3>1, PlacesCover
    <3> QED
      BY <3>1, <3>2 DEF RunsOf
  <2>3. DOMAIN RunGraph(p, at) = GraphPlaces[p][at]
    BY DEF RunGraph
  <2> QED
    BY <2>1, <2>2, <2>3
<1>2. Inv /\ RollupsKept => RunGraphCountsOnce
  BY <1>1 DEF RunGraphCountsOnce
<1> QED
  BY <1>2, RollupsHold, PTL

(* A queue's chart counts each run in the place of its creation and no run *)
(* twice, whatever happens between its two statements, since one of them   *)
(* stops where the other begins; and no completed run is missing on either *)
(* side of the hour of the request, for any number of jobs and queues.     *)
THEOREM ChartCountsEachOnce == Spec => []ChartCountsOnce
<1>1. ASSUME Inv, RollupsKept, NEW at \in Requests, NEW p \in Periods, NEW q \in Queues
      PROVE  LET chart == Chart(q, p, at)
                 past(t) == RunsOf(PastRows[t][q][p][at], "done")
                 live(t) == LiveRuns(t, q, p, at)
                 here(t) == {j \in CreatedIn(t, p) : QueueOf[j] = q}
             IN
             /\ \A t \in DOMAIN chart :
                  /\ chart[t] = Cardinality(past(t)) + Cardinality(live(t))
                  /\ past(t) \subseteq {j \in here(t) : born[j] < StartOfHour(at)}
                  /\ live(t) \subseteq {j \in here(t) : born[j] >= StartOfHour(at)}
             /\ Quiet => \A j \in Jobs :
                  /\ QueueOf[j] = q /\ BucketFrom(p, at) <= born[j] /\ born[j] <= at
                  /\ \/ born[j] >= StartOfHour(at) /\ runs[j] = "completed"
                     \/ born[j] < StartOfHour(at) /\ j \in inHourDone /\ Summarised(j)
                  => LET t == Floor(born[j], Interval(p)) IN
                     t \in DOMAIN chart /\ j \in past(t) \union live(t)
  <2>0. at \in Time /\ at \in Nat /\ StartOfHour(at) \in Nat
    BY HoursOfTime DEF Requests, Time
  <2>1. ASSUME NEW t \in ChartPlaces[p][at]
        PROVE  /\ Chart(q, p, at)[t] = Cardinality(RunsOf(PastRows[t][q][p][at], "done"))
                                         + Cardinality(LiveRuns(t, q, p, at))
               /\ RunsOf(PastRows[t][q][p][at], "done") \subseteq
                    {j \in {k \in CreatedIn(t, p) : QueueOf[k] = q} : born[j] < StartOfHour(at)}
               /\ LiveRuns(t, q, p, at) \subseteq
                    {j \in {k \in CreatedIn(t, p) : QueueOf[k] = q} : born[j] >= StartOfHour(at)}
    <3>1. t \in Time
      BY <2>0, PlacesAreTimes
    <3>2. /\ PastRows[t][q][p][at] \in SUBSET OfPlace[t][p][at]
          /\ \A row \in PastRows[t][q][p][at] : row[2] = q /\ row[1] < StartOfHour(at)
      BY <2>0, <3>1 DEF PastRows
    <3>3. /\ PastRows[t][q][p][at] \in SUBSET (Hours \X Queues)
          /\ RunsOf(PastRows[t][q][p][at], "done") \subseteq CreatedIn(t, p)
          /\ \A j \in RunsOf(PastRows[t][q][p][at], "done") :
               <<StartOfHour(born[j]), QueueOf[j]>> \in PastRows[t][q][p][at]
      BY <1>1, <2>0, <3>1, <3>2, RunsOfPlace DEF Inv
    <3>4. Sum(PastRows[t][q][p][at], "done") = Cardinality(RunsOf(PastRows[t][q][p][at], "done"))
      BY <1>1, <3>3, SumCountsRuns
    <3>5. ASSUME NEW j \in RunsOf(PastRows[t][q][p][at], "done")
          PROVE  QueueOf[j] = q /\ born[j] < StartOfHour(at)
      <4>1. j \in Jobs /\ born[j] \in Nat
        BY <1>1, <3>3, MaintenanceAssumption DEF CreatedIn, Inv, AllOK, RowsOK, Time, Unborn
      <4>2. QueueOf[j] = q /\ StartOfHour(born[j]) < StartOfHour(at)
        BY <3>2, <3>3
      <4>3. \A x, y \in Nat : x - (x % 2) < y - (y % 2) => x < y - (y % 2)
        OBVIOUS
      <4> QED
        BY <2>0, <4>1, <4>2, <4>3 DEF StartOfHour, Hour
    <3>6. \A j \in LiveRuns(t, q, p, at) :
            j \in CreatedIn(t, p) /\ QueueOf[j] = q /\ StartOfHour(at) <= born[j]
      BY <1>1 DEF LiveRuns, CreatedIn, Stored, Inv, AllOK, RowsOK
    <3>7. \A j \in LiveRuns(t, q, p, at) : born[j] >= StartOfHour(at)
      BY <3>6
    <3>8. Chart(q, p, at)[t] = Sum(PastRows[t][q][p][at], "done") + Cardinality(LiveRuns(t, q, p, at))
      BY DEF Chart
    <3> QED
      BY <3>3, <3>4, <3>5, <3>6, <3>7, <3>8
  <2>2. ASSUME Quiet, NEW j \in Jobs, QueueOf[j] = q, BucketFrom(p, at) <= born[j], born[j] <= at,
               \/ born[j] >= StartOfHour(at) /\ runs[j] = "completed"
               \/ born[j] < StartOfHour(at) /\ j \in inHourDone /\ Summarised(j)
        PROVE  /\ Floor(born[j], Interval(p)) \in ChartPlaces[p][at]
               /\ j \in RunsOf(PastRows[Floor(born[j], Interval(p))][q][p][at], "done")
                          \union LiveRuns(Floor(born[j], Interval(p)), q, p, at)
    <3>0. born[j] \in Nat
      BY <1>1, MaintenanceAssumption DEF Inv, AllOK, RowsOK, Time, Unborn
    <3>1. /\ Floor(born[j], Interval(p)) \in ChartPlaces[p][at]
          /\ Floor(born[j], Interval(p)) \in Time
          /\ <<StartOfHour(born[j]), q>> \in OfPlace[Floor(born[j], Interval(p))][p][at]
      BY <2>0, <2>2, <3>0, PlacesCover
    <3>2. CASE born[j] >= StartOfHour(at) /\ runs[j] = "completed"
      BY <2>2, <3>1, <3>2 DEF LiveRuns, Stored
    <3>3. CASE born[j] < StartOfHour(at) /\ j \in inHourDone /\ Summarised(j)
      <4>1. j \in inHour
        BY <1>1, <3>3 DEF Inv, AllOK, RowsOK
      <4>2. j \in rollups[StartOfHour(born[j])][q].done
        BY <1>1, <2>2, <3>3, <4>1, SummarisedIsCounted
      <4>3. StartOfHour(born[j]) < StartOfHour(at)
        BY <2>0, <3>0, <3>3, HoursOfTime
      <4>4. <<StartOfHour(born[j]), q>> \in PastRows[Floor(born[j], Interval(p))][q][p][at]
        BY <2>0, <3>1, <4>3 DEF PastRows
      <4>5. j \in RunsOf(PastRows[Floor(born[j], Interval(p))][q][p][at], "done")
        BY <4>2, <4>4 DEF RunsOf
      <4> QED
        BY <3>1, <4>5
    <3> QED
      BY <2>2, <3>2, <3>3
  <2>3. DOMAIN Chart(q, p, at) = ChartPlaces[p][at]
    BY DEF Chart
  <2> QED
    BY <2>1, <2>2, <2>3
<1>2. Inv /\ RollupsKept => ChartCountsOnce
  BY <1>1 DEF ChartCountsOnce
<1> QED
  BY <1>2, RollupsHold, PTL

=============================================================================
