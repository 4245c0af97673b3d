-------------------------- MODULE JobPipelineProofs --------------------------
(***************************************************************************)
(* What the rows say is true: for any number of jobs, workers, reconcilers *)
(* and faults, and whatever batches the stream delivers.                   *)
(***************************************************************************)
EXTENDS JobPipeline, FiniteSetTheorems, WellFoundedInduction, TLAPS

-----------------------------------------------------------------------------
(* What formatting, deduplicating and merging rows preserve.               *)

(* A batch is finite, and so one of its entries is the last of its job.    *)
LEMMA LatestExists ==
  ASSUME NEW A \in SUBSET Nat, IsFiniteSet(A), A # {}
  PROVE  \E i \in A : \A k \in A : k <= i
<1> DEFINE Above(i) == {k \in A : k > i}
           family   == {Above(i) : i \in A}
<1>1. FiniteSubsetsOf(A) = SUBSET A
  BY FS_FiniteSubsetsOfFinite
<1>2. IsWellFoundedOn(StrictSubsetOrdering(A), SUBSET A)
  BY <1>1, FS_StrictSubsetOrderingWellFounded
<1>3. family \subseteq SUBSET A /\ family # {}
  OBVIOUS
<1>4. PICK F \in family : \A G \in family : <<G, F>> \notin StrictSubsetOrdering(A)
  BY <1>2, <1>3, WFMin
<1>5. PICK i \in A : F = Above(i)
  OBVIOUS
<1>6. ASSUME NEW k \in A, k > i PROVE FALSE
  <2>0. \A x \in A : x \in Int
    OBVIOUS
  <2>1. Above(k) \subseteq Above(i) /\ k \in Above(i) /\ k \notin Above(k)
    <3>1. k \in Int /\ i \in Int /\ ~(k > k) /\ \A x \in A : x > k => x > i
      BY <1>6, <2>0
    <3> QED
      BY <1>6, <3>1
  <2>2. Above(k) \in SUBSET A /\ F \in SUBSET A /\ Above(k) \subseteq F /\ Above(k) # F
    BY <1>5, <2>1
  <2>3. <<Above(k), F>> \in StrictSubsetOrdering(A)
    BY <2>2 DEF StrictSubsetOrdering
  <2> QED
    BY <1>4, <2>3
<1>7. \A k \in A : k \in Int
  OBVIOUS
<1> QED
  BY <1>6, <1>7

(* Deduplication takes every row from an entry of the batch of that job.   *)
LEMMA LastRunsOfBatch ==
  ASSUME NEW S \in SUBSET Nat, IsFiniteSet(S), NEW jobOf, NEW run
  PROVE  \A j \in DOMAIN LastRuns(S, jobOf, run) :
           \E i \in S : jobOf[i] = j /\ LastRuns(S, jobOf, run)[j] = run[i]
<1> DEFINE Last(j) == CHOOSE i \in S : jobOf[i] = j /\ \A k \in S : jobOf[k] = j => k <= i
<1>1. ASSUME NEW j \in {jobOf[i] : i \in S} PROVE Last(j) \in S /\ jobOf[Last(j)] = j
  <2>1. {i \in S : jobOf[i] = j} # {} /\ {i \in S : jobOf[i] = j} \in SUBSET Nat
        /\ IsFiniteSet({i \in S : jobOf[i] = j})
    BY <1>1, FS_Subset
  <2>2. \E i \in S : jobOf[i] = j /\ \A k \in S : jobOf[k] = j => k <= i
    BY <2>1, LatestExists
  <2> QED
    BY <2>2
<1> QED
  BY <1>1 DEF LastRuns

(* Rows made of a snapshot have their type, are not unknown, and end a job *)
(* only if the state they were given or the snapshot does.                 *)
LEMMA FormatsRun ==
  ASSUME NEW snap \in Snapshot, NEW phase, NEW state, NEW tagged \in BOOLEAN
  PROVE  LET row == FormatJobRun(snap, phase, state, tagged) IN
         /\ row \in Run
         /\ row.status # "unknown"
         /\ IsTerminal(row) => \/ row.status = state
                               \/ snap.finished /\ row.status = IF snap.failed THEN "failed"
                                                                               ELSE "completed"
BY DEF FormatJobRun, StatusFromSnapshot, PersistedState, Run, Snapshot, IsTerminal, Statuses,
   Terminal, Live, None

(* No status is made up, none but unknown follows unknown, and a terminal  *)
(* one stays terminal; tags stay.                                          *)
LEMMA MergesRow ==
  ASSUME NEW old \in Run, NEW new \in Run
  PROVE  /\ MergeRow(old, new) \in Run
         /\ MergeRow(old, new).status \in {old.status, new.status}
         /\ MergeRow(old, new).status = "unknown" => new.status = "unknown"
         /\ IsTerminal(old) => IsTerminal(MergeRow(old, new))
         /\ IsTerminal(old) /\ ~IsTerminal(new) => MergeRow(old, new).status = old.status
         /\ old.tagged => MergeRow(old, new).tagged
BY DEF MergeRow, MergedStatus, MergedTags, Run, Statuses, IsTerminal, Terminal

(* A row is not the absence of one.                                        *)
LEMMA RunsAreRows == \A row \in Run : HasRow(row)
BY DEF Run, HasRow, NoRow, Statuses, Terminal, Live, None

(* An upsert of typed rows, row by row.                                    *)
LEMMA UpsertsRows ==
  ASSUME NEW J, NEW table \in [J -> Run \union {NoRow}], NEW runs,
         \A j \in DOMAIN runs : runs[j] \in Run,
         NEW after, after = UpsertJobRuns(table, runs)
  PROVE  /\ after \in [J -> Run \union {NoRow}]
         /\ \A j \in J : \/ after[j] = table[j]
                         \/ j \in DOMAIN runs /\ ~HasRow(table[j]) /\ after[j] = runs[j]
                         \/ /\ j \in DOMAIN runs /\ table[j] \in Run
                            /\ after[j] = MergeRow(table[j], runs[j])
<1>1. DOMAIN after = J
  BY DEF UpsertJobRuns
<1>2. ASSUME NEW j \in J
      PROVE  /\ after[j] \in Run \union {NoRow}
             /\ \/ after[j] = table[j]
                \/ j \in DOMAIN runs /\ ~HasRow(table[j]) /\ after[j] = runs[j]
                \/ /\ j \in DOMAIN runs /\ table[j] \in Run
                   /\ after[j] = MergeRow(table[j], runs[j])
  <2>1. CASE j \in DOMAIN runs /\ HasRow(table[j])
    <3>1. table[j] \in Run /\ after[j] = MergeRow(table[j], runs[j])
      BY <2>1 DEF UpsertJobRuns, HasRow
    <3> QED
      BY <2>1, <3>1, MergesRow
  <2>2. CASE ~(j \in DOMAIN runs /\ HasRow(table[j]))
    BY <2>2 DEF UpsertJobRuns
  <2> QED
    BY <2>1, <2>2
<1>3. after = [j \in J |-> after[j]]
  BY DEF UpsertJobRuns
<1> QED
  BY <1>2, <1>3

-----------------------------------------------------------------------------
(* The pipeline.                                                           *)

BullJob == [state : BullStates, drop : BOOLEAN, snap : Snapshot, tries : 0..MaxAttempts - 1,
            outcome : Terminal \union {None}, holder : Workers \union {Nobody}]

(* BullMQ's record of a job is consistent in itself ...                    *)
Sound(b) ==
  /\ b.outcome # None <=> b.state \in Terminal \union {"removed"}
  /\ b.state \in Terminal => b.state = b.outcome
  /\ b.state = "removed" => b.drop
  /\ b.holder # Nobody => b.state = "active"
  /\ b.snap.finished <=> b.outcome # None
  /\ ReasonTellsOutcome /\ b.snap.finished => (b.snap.failed <=> b.outcome = "failed")

(* ... and what it once said of the end of the job stays true.             *)
Step(a, b) ==
  /\ a.outcome # None => b.outcome = a.outcome
  /\ a.state # "none" => b.state # "none" /\ b.drop = a.drop
  /\ a.state = "removed" => b.state = "removed"

Moves == \A j \in Jobs : Step(bull[j], bull'[j])

(* A snapshot that says its job has finished tells how.                    *)
Tells(b, snap) ==
  /\ b.state # "none"
  /\ snap.finished => /\ b.outcome # None
                      /\ ReasonTellsOutcome => (snap.failed <=> b.outcome = "failed")

(* A row that says its job has finished tells how.                         *)
Shows(b, row) ==
  /\ b.state # "none"
  /\ row.status = "unknown" => b.state = "removed"
  /\ IsTerminal(row) /\ ReasonTellsOutcome => row.status = b.outcome

Partial(S) == UNION {[G -> S] : G \in SUBSET Jobs}

RecState == [at : RecStage, todo : SUBSET Jobs, got : Partial(Snapshot), runs : Partial(Run)]

RecTells(b, t) ==
  /\ \A j \in t.todo : b[j].state # "none"
  /\ \A j \in DOMAIN t.got : Tells(b[j], t.got[j])
  /\ t.at = "mark" => \A j \in DOMAIN t.got : b[j].state = "removed"
  /\ \A j \in DOMAIN t.runs : t.runs[j].status # "unknown" /\ Shows(b[j], t.runs[j])

BullInv == bull \in [Jobs -> BullJob] /\ \A j \in Jobs : Sound(bull[j])

WorkerInv ==
  /\ worker \in [Workers -> WorkerState]
  /\ \A w \in Workers : worker[w].at # "idle" =>
       worker[w].job \in Jobs /\ Tells(bull[worker[w].job], worker[w].snap)

EventInv ==
  /\ checking \subseteq JobEvent /\ sending \subseteq JobEvent
  /\ log \in Seq(JobEvent) /\ settled \subseteq DOMAIN log
  /\ \A e \in checking \union sending : Tells(bull[e.job], e.snap)
  /\ \A i \in DOMAIN log : Tells(bull[log[i].job], log[i].snap)

RowInv ==
  /\ jobRuns \in [Jobs -> Run \union {NoRow}]
  /\ \A j \in Jobs : HasRow(jobRuns[j]) => Shows(bull[j], jobRuns[j])

RecInv == rec \in [Reconcilers -> RecState] /\ \A r \in Reconcilers : RecTells(bull, rec[r])

CountInv == notices \in [Jobs -> Nat] /\ faults \in 0..MaxFaults

Inv == BullInv /\ WorkerInv /\ EventInv /\ RowInv /\ RecInv /\ CountInv

-----------------------------------------------------------------------------
(* A map from jobs, as the reconciler builds them, with one more job ...   *)
LEMMA WithOneMore ==
  ASSUME NEW S, NEW f \in Partial(S), NEW j \in Jobs, NEW x \in S
  PROVE  With(f, j, x) \in Partial(S)
<1>1. PICK G \in SUBSET Jobs : f \in [G -> S]
  BY DEF Partial
<1>2. With(f, j, x) \in [G \union {j} -> S]
  BY <1>1 DEF With
<1> QED
  BY <1>1, <1>2 DEF Partial

(* ... and with one less.                                                  *)
LEMMA WithOneLess ==
  ASSUME NEW S, NEW f \in Partial(S), NEW j \in Jobs, NEW g, g = Restrict(f, DOMAIN f \ {j})
  PROVE  g \in Partial(S) /\ DOMAIN g = DOMAIN f \ {j} /\ \A k \in DOMAIN g : g[k] = f[k]
<1>1. PICK G \in SUBSET Jobs : f \in [G -> S]
  BY DEF Partial
<1>2. g \in [G \ {j} -> S]
  BY <1>1 DEF Restrict
<1> QED
  BY <1>1, <1>2 DEF Partial, Restrict

(* The empty one.                                                          *)
LEMMA EmptyPartial == \A S : << >> \in Partial(S) /\ DOMAIN << >> = {}
<1>1. \A S : << >> \in [{} -> S]
  OBVIOUS
<1> QED
  BY <1>1 DEF Partial

(* And one with a single job.                                              *)
LEMMA WithOne ==
  ASSUME NEW S, NEW j \in Jobs, NEW x \in S
  PROVE  /\ With(<<>>, j, x) \in Partial(S) /\ DOMAIN With(<<>>, j, x) = {j}
         /\ With(<<>>, j, x)[j] = x
<1>1. With(<<>>, j, x) \in [{j} -> S]
  BY DEF With
<1> QED
  BY <1>1 DEF Partial, With

-----------------------------------------------------------------------------
(* A job that becomes another, sound one.                                  *)
LEMMA BullGoesOn ==
  ASSUME BullInv, NEW j \in Jobs, NEW b \in BullJob, Sound(b), Step(bull[j], b),
         bull' = [bull EXCEPT ![j] = b]
  PROVE  BullInv' /\ Moves
BY DEF BullInv, Moves, Step

(* Every step of BullMQ and its workers keeps jobs sound and their ends.   *)
LEMMA BullStep == Inv /\ [Next]_vars => BullInv' /\ Moves
<1> SUFFICES ASSUME Inv, [Next]_vars PROVE BullInv' /\ Moves
  OBVIOUS
<1> USE PipelineAssumption DEF PipelineAssumption
<1>0. BullInv /\ WorkerInv
  BY DEF Inv
<1>1. ASSUME bull' = bull PROVE BullInv' /\ Moves
  BY <1>0, <1>1 DEF BullInv, Moves, Step
<1>2. ASSUME NEW j \in Jobs PROVE bull[j] \in BullJob /\ Sound(bull[j])
  BY <1>0 DEF BullInv
<1>3. ASSUME NEW j \in Jobs, NEW outcome \in Terminal, NEW failed \in BOOLEAN,
             bull[j].state = "active", ReasonTellsOutcome => (failed <=> outcome = "failed"),
             bull' = [bull EXCEPT ![j] = Ended(j, outcome, failed)]
      PROVE  BullInv' /\ Moves
  <2> DEFINE b == Ended(j, outcome, failed)
  <2>1. b \in BullJob
    <3>1. bull[j] \in BullJob /\ bull[j].drop \in BOOLEAN
      BY <1>2 DEF BullJob
    <3>2. outcome \in BullStates /\ "removed" \in BullStates
          /\ [finished |-> TRUE, failed |-> failed] \in Snapshot
      BY DEF BullStates, Terminal, Snapshot
    <3> QED
      BY <3>1, <3>2 DEF Ended, BullJob
  <2>2. Sound(b) /\ Step(bull[j], b)
    BY <1>2, <1>3 DEF Ended, BullJob, Snapshot, BullStates, Sound, Step, Terminal, None
  <2> QED
    BY <1>0, <1>3, <2>1, <2>2, BullGoesOn
<1>4. ASSUME NEW j \in Jobs, AddJob(j) PROVE BullInv' /\ Moves
  <2>1. PICK d \in BOOLEAN : bull' = [bull EXCEPT ![j].state = "waiting", ![j].drop = d]
    BY <1>4 DEF AddJob
  <2> DEFINE b == [bull[j] EXCEPT !.state = "waiting", !.drop = d]
  <2>2. b \in BullJob /\ Sound(b) /\ Step(bull[j], b)
    <3>1. bull[j] \in BullJob /\ "waiting" \in BullStates
      BY <1>2 DEF BullStates
    <3>2. b \in BullJob
      BY <3>1 DEF BullJob
    <3>3. Sound(b) /\ Step(bull[j], b)
      BY <1>2, <1>4, <3>1 DEF AddJob, BullJob, Sound, Step, Terminal
    <3> QED
      BY <3>2, <3>3
  <2>3. bull' = [bull EXCEPT ![j] = b]
    BY <1>0, <2>1 DEF BullInv
  <2> QED
    BY <1>0, <2>2, <2>3, BullGoesOn
<1>5. ASSUME NEW j \in Jobs, Promote(j) PROVE BullInv' /\ Moves
  <2> DEFINE b == [bull[j] EXCEPT !.state = "waiting"]
  <2>1. b \in BullJob /\ Sound(b) /\ Step(bull[j], b)
    <3>1. bull[j] \in BullJob /\ "waiting" \in BullStates
      BY <1>2 DEF BullStates
    <3>2. b \in BullJob
      BY <3>1 DEF BullJob
    <3>3. Sound(b) /\ Step(bull[j], b)
      BY <1>2, <1>5, <3>1 DEF Promote, BullJob, Sound, Step, Terminal
    <3> QED
      BY <3>2, <3>3
  <2>2. bull' = [bull EXCEPT ![j] = b]
    BY <1>0, <1>5 DEF Promote, BullInv
  <2> QED
    BY <1>0, <2>1, <2>2, BullGoesOn
<1>6. ASSUME NEW j \in Jobs, Stall(j) PROVE BullInv' /\ Moves
  <2>1. CASE bull' = [bull EXCEPT ![j] = Ended(j, "failed", TRUE)]
    BY <1>3, <1>6, <2>1 DEF Stall, Terminal
  <2>2. CASE bull' = [bull EXCEPT ![j].state = "waiting", ![j].holder = Nobody]
    <3> DEFINE b == [bull[j] EXCEPT !.state = "waiting", !.holder = Nobody]
    <3>1. b \in BullJob /\ Sound(b) /\ Step(bull[j], b)
      <4>1. bull[j] \in BullJob /\ "waiting" \in BullStates
        BY <1>2 DEF BullStates
      <4>2. b \in BullJob
        BY <4>1 DEF BullJob
      <4>3. Sound(b) /\ Step(bull[j], b)
        BY <1>2, <1>6, <4>1 DEF Stall, BullJob, Sound, Step, Terminal
      <4> QED
        BY <4>2, <4>3
    <3>2. bull' = [bull EXCEPT ![j] = b]
      BY <1>0, <2>2 DEF BullInv
    <3> QED
      BY <1>0, <3>1, <3>2, BullGoesOn
  <2> QED
    BY <1>6, <2>1, <2>2 DEF Stall
<1>7. ASSUME NEW w \in Workers, NEW j \in Jobs, PickUp(w, j) PROVE BullInv' /\ Moves
  <2> DEFINE b == [bull[j] EXCEPT !.state = "active", !.holder = w]
  <2>1. b \in BullJob /\ Sound(b) /\ Step(bull[j], b)
    <3>1. bull[j] \in BullJob /\ "active" \in BullStates
      BY <1>2 DEF BullStates
    <3>2. b \in BullJob
      BY <3>1 DEF BullJob
    <3>3. Sound(b) /\ Step(bull[j], b)
      BY <1>2, <1>7, <3>1 DEF PickUp, BullJob, Sound, Step, Terminal
    <3> QED
      BY <3>2, <3>3
  <2>2. bull' = [bull EXCEPT ![j] = b]
    BY <1>0, <1>7 DEF PickUp, BullInv
  <2> QED
    BY <1>0, <2>1, <2>2, BullGoesOn
<1>8. ASSUME NEW w \in Workers, worker[w].at = "run"
      PROVE  /\ worker[w].job \in Jobs
             /\ bull[worker[w].job].holder = w => bull[worker[w].job].state = "active"
  BY <1>0, <1>2, <1>8 DEF WorkerInv, Sound
<1>9. ASSUME NEW w \in Workers, NEW outcome \in Terminal, Finish(w, outcome)
      PROVE  BullInv' /\ Moves
  <2> DEFINE j == worker[w].job
  <2>1. j \in Jobs /\ bull[j].state = "active" /\ bull[j].snap.failed \in BOOLEAN
    BY <1>2, <1>8, <1>9 DEF Finish, BullJob, Snapshot
  <2>2. PICK failed \in Reasons(outcome, bull[j].snap.failed) :
          bull' = [bull EXCEPT ![j] = Ended(j, outcome, failed)]
    BY <1>9 DEF Finish
  <2>3. failed \in BOOLEAN /\ (ReasonTellsOutcome => (failed <=> outcome = "failed"))
    BY <2>1, <2>2 DEF Reasons, Terminal
  <2> QED
    BY <1>3, <2>1, <2>2, <2>3
<1>10. ASSUME NEW w \in Workers, Retry(w) PROVE BullInv' /\ Moves
  <2> DEFINE j    == worker[w].job
             snap == [finished |-> FALSE, failed |-> TRUE]
  <2>1. j \in Jobs /\ bull[j].state = "active" /\ bull[j].tries + 1 < MaxAttempts
    BY <1>8, <1>10 DEF Retry
  <2>2. PICK state \in {"waiting", "delayed"} :
          bull' = [bull EXCEPT ![j].state = state, ![j].snap = snap, ![j].holder = Nobody,
                               ![j].tries = @ + 1]
    BY <1>10 DEF Retry
  <2> DEFINE b == [bull[j] EXCEPT !.state = state, !.snap = snap, !.holder = Nobody,
                                  !.tries = bull[j].tries + 1]
  <2>3. b \in BullJob
    <3>1. bull[j].tries + 1 \in 0..MaxAttempts - 1
      <4>1. bull[j].tries \in 0..MaxAttempts - 1
        BY <1>2, <2>1 DEF BullJob
      <4> QED
        BY <2>1, <4>1
    <3>2. state \in BullStates /\ snap \in Snapshot
      BY DEF BullStates, Snapshot
    <3>3. bull[j] \in BullJob
      BY <1>2, <2>1
    <3> HIDE DEF snap, j
    <3> QED
      BY <3>1, <3>2, <3>3 DEF BullJob
  <2>4. Sound(b) /\ Step(bull[j], b)
    BY <1>2, <2>1 DEF BullJob, Sound, Step, Terminal, None
  <2>5. bull' = [bull EXCEPT ![j] = b]
    BY <1>0, <2>2 DEF BullInv
  <2> QED
    BY <1>0, <2>1, <2>3, <2>4, <2>5, BullGoesOn
<1>11. ASSUME NEW w \in Workers, Register(w) \/ LoseJob(w) \/ Report(w) \/ GiveUp(w)
       PROVE  bull' = bull
  BY <1>11 DEF Register, LoseJob, Report, GiveUp, bullVars
<1>12. CASE Master
  BY <1>1, <1>12 DEF Master, FetchWaiting, CheckWaiting, SendWaiting, LoseWaiting, bullVars
<1>13. CASE Ingest \/ UNCHANGED vars
  BY <1>1, <1>13 DEF Ingest, UpsertBatch, bullVars, vars
<1>14. ASSUME NEW r \in Reconcilers, Reconcile(r) \/ FailTick(r) PROVE bull' = bull
  BY <1>14 DEF Reconcile, Tick, UpsertListed, SelectStale, ReadState, WriteRow, MarkUnknown,
     EndTick, FetchListed, ReadListedState, LookUp, FailTick, bullVars
<1> QED
  BY <1>1, <1>4, <1>5, <1>6, <1>7, <1>9, <1>10, <1>11, <1>12, <1>13, <1>14
     DEF Next, Queue, Process

-----------------------------------------------------------------------------
(* What was once true of a job's end is true after its next step.          *)
LEMMA EndsStayTrue ==
  /\ \A a, b, snap : Step(a, b) /\ Tells(a, snap) => Tells(b, snap)
  /\ \A a, b, row : Step(a, b) /\ Shows(a, row) => Shows(b, row)
  /\ \A b : Sound(b) /\ b.state # "none" => Tells(b, b.snap)
  /\ \A b, failed : b.state # "none" => Tells(b, [finished |-> FALSE, failed |-> failed])
BY DEF Step, Tells, Shows, Sound, IsTerminal, Terminal, None

(* A worker that moves on.                                                 *)
LEMMA WorkerGoesOn ==
  ASSUME WorkerInv, Moves, NEW w \in Workers, NEW x \in WorkerState,
         x.at # "idle" => x.job \in Jobs /\ Tells(bull'[x.job], x.snap),
         worker' = [worker EXCEPT ![w] = x]
  PROVE  WorkerInv'
<1>1. worker' \in [Workers -> WorkerState]
  BY DEF WorkerInv
<1>2. ASSUME NEW v \in Workers, worker'[v].at # "idle"
      PROVE  worker'[v].job \in Jobs /\ Tells(bull'[worker'[v].job], worker'[v].snap)
  <2>1. CASE v = w
    BY <1>2, <2>1 DEF WorkerInv
  <2>2. CASE v # w
    <3>1. worker'[v] = worker[v] /\ worker[v].job \in Jobs
          /\ Tells(bull[worker[v].job], worker[v].snap)
      BY <1>2, <2>2 DEF WorkerInv
    <3> QED
      BY <3>1, EndsStayTrue DEF Moves
  <2> QED
    BY <2>1, <2>2
<1> QED
  BY <1>1, <1>2 DEF WorkerInv

(* Whatever a worker's copy of a job says of its end is true.              *)
LEMMA WorkerStep == Inv /\ [Next]_vars => WorkerInv'
<1> SUFFICES ASSUME Inv, [Next]_vars PROVE WorkerInv'
  OBVIOUS
<1>0. BullInv /\ WorkerInv /\ BullInv' /\ Moves
  BY BullStep DEF Inv
<1>1. ASSUME worker' = worker PROVE WorkerInv'
  <2>1. worker' \in [Workers -> WorkerState]
    BY <1>0, <1>1 DEF WorkerInv
  <2>2. ASSUME NEW v \in Workers, worker[v].at # "idle"
        PROVE  worker[v].job \in Jobs /\ Tells(bull'[worker[v].job], worker[v].snap)
    BY <1>0, <2>2, EndsStayTrue DEF WorkerInv, Moves
  <2> QED
    BY <1>1, <2>1, <2>2 DEF WorkerInv
<1>2. ASSUME NEW w \in Workers, worker[w].at # "idle"
      PROVE  /\ worker[w].job \in Jobs /\ worker[w] \in WorkerState
             /\ Tells(bull'[worker[w].job], worker[w].snap)
             /\ bull'[worker[w].job].state # "none"
  BY <1>0, <1>2, EndsStayTrue DEF WorkerInv, Moves, Tells
<1>3. Idle \in WorkerState /\ Idle.at = "idle"
  BY DEF Idle, WorkerState, Fresh, Snapshot
<1>4. ASSUME NEW w \in Workers, NEW snap \in Snapshot, worker[w].at # "idle",
             ReportWith(w, snap), Tells(bull'[worker[w].job], snap)
      PROVE  WorkerInv'
  <2> DEFINE x == [worker[w] EXCEPT !.at = "report", !.snap = snap]
  <2>1. x \in WorkerState /\ x.job = worker[w].job /\ x.snap = snap
    BY <1>2, <1>4 DEF WorkerState
  <2>2. worker' = [worker EXCEPT ![w] = x]
    BY <1>0, <1>4 DEF ReportWith, WorkerInv
  <2>3. x.at # "idle" => x.job \in Jobs /\ Tells(bull'[x.job], x.snap)
    BY <1>2, <1>4, <2>1
  <2> HIDE DEF x
  <2> QED
    BY <1>0, <2>1, <2>2, <2>3, WorkerGoesOn
<1>5. ASSUME NEW j \in Jobs, NEW w \in Workers, PickUp(w, j) PROVE WorkerInv'
  <2> DEFINE x == [at |-> "register", job |-> j, snap |-> bull[j].snap]
  <2>1. x \in WorkerState
    BY <1>0 DEF WorkerState, BullInv, BullJob
  <2>2. Tells(bull'[j], bull[j].snap)
    <3>1. bull[j].state # "none" /\ Sound(bull[j])
      BY <1>0, <1>5 DEF PickUp, BullInv
    <3> QED
      BY <1>0, <3>1, EndsStayTrue DEF Moves
  <2> QED
    BY <1>0, <1>5, <2>1, <2>2, WorkerGoesOn DEF PickUp
<1>6. ASSUME NEW w \in Workers, Register(w) PROVE WorkerInv'
  <2> DEFINE x == [worker[w] EXCEPT !.at = "run"]
  <2>1. x \in WorkerState /\ x.job = worker[w].job /\ x.snap = worker[w].snap
    BY <1>2, <1>6 DEF Register, WorkerState
  <2>2. worker' = [worker EXCEPT ![w] = x]
    BY <1>0, <1>6 DEF Register, WorkerInv
  <2>3. x.job \in Jobs /\ Tells(bull'[x.job], x.snap)
    BY <1>2, <1>6, <2>1 DEF Register
  <2> HIDE DEF x
  <2> QED
    BY <1>0, <2>1, <2>2, <2>3, WorkerGoesOn
<1>7. ASSUME NEW w \in Workers, NEW outcome \in Terminal, Finish(w, outcome)
      PROVE  WorkerInv'
  <2> DEFINE j == worker[w].job
  <2>1. j \in Jobs /\ worker[w].at # "idle" /\ bull[j].snap.failed \in BOOLEAN
    <3>1. worker[w].at # "idle"
      BY <1>7 DEF Finish
    <3> QED
      BY <1>0, <1>2, <3>1 DEF BullInv, BullJob, Snapshot
  <2>2. PICK failed \in Reasons(outcome, bull[j].snap.failed) :
          /\ bull' = [bull EXCEPT ![j] = Ended(j, outcome, failed)]
          /\ ReportWith(w, [finished |-> TRUE, failed |-> failed])
    BY <1>7 DEF Finish
  <2>3. failed \in BOOLEAN /\ (ReasonTellsOutcome => (failed <=> outcome = "failed"))
    BY <2>1, <2>2, PipelineAssumption DEF Reasons, Terminal, PipelineAssumption
  <2>4. bull'[j].outcome = outcome
    BY <1>0, <2>1, <2>2 DEF BullInv, BullJob, Ended
  <2>5. Tells(bull'[j], [finished |-> TRUE, failed |-> failed])
    BY <1>2, <2>1, <2>3, <2>4 DEF Tells, Terminal, None
  <2>6. [finished |-> TRUE, failed |-> failed] \in Snapshot
    BY <2>3 DEF Snapshot
  <2> QED
    BY <1>4, <2>1, <2>2, <2>5, <2>6
<1>8. ASSUME NEW w \in Workers, Retry(w) \/ LoseJob(w) PROVE WorkerInv'
  <2> DEFINE snap == [finished |-> FALSE, failed |-> TRUE]
  <2>1. worker[w].at # "idle" /\ ReportWith(w, snap)
    BY <1>8 DEF Retry, LoseJob
  <2>2. snap \in Snapshot
    BY DEF Snapshot
  <2>3. Tells(bull'[worker[w].job], snap)
    BY <1>2, <2>1, EndsStayTrue
  <2> QED
    BY <1>4, <2>1, <2>2, <2>3
<1>9. ASSUME NEW w \in Workers, Report(w) \/ GiveUp(w) PROVE WorkerInv'
  <2>1. worker' = [worker EXCEPT ![w] = Idle]
    BY <1>9 DEF Report, GiveUp
  <2> QED
    BY <1>0, <1>3, <2>1, WorkerGoesOn
<1>10. ASSUME NEW j \in Jobs, AddJob(j) \/ Promote(j) \/ Stall(j) PROVE WorkerInv'
  BY <1>1, <1>10 DEF AddJob, Promote, Stall
<1>11. CASE Master
  BY <1>1, <1>11 DEF Master, FetchWaiting, CheckWaiting, SendWaiting, LoseWaiting
<1>12. CASE Ingest \/ UNCHANGED vars
  BY <1>1, <1>12 DEF Ingest, UpsertBatch, vars
<1>13. ASSUME NEW r \in Reconcilers, Reconcile(r) \/ FailTick(r) PROVE worker' = worker
  BY <1>13 DEF Reconcile, Tick, UpsertListed, SelectStale, ReadState, WriteRow, MarkUnknown,
     EndTick, FetchListed, ReadListedState, LookUp, FailTick
<1> QED
  BY <1>1, <1>5, <1>6, <1>7, <1>8, <1>9, <1>10, <1>11, <1>12, <1>13 DEF Next, Queue, Process

-----------------------------------------------------------------------------
(* Events and log entries that were true stay true; those still told of    *)
(* are among them.                                                         *)
LEMMA EventsStayTrue ==
  ASSUME EventInv, Moves
  PROVE  /\ \A e \in checking \union sending : Tells(bull'[e.job], e.snap)
         /\ \A i \in DOMAIN log : Tells(bull'[log[i].job], log[i].snap)
<1>1. ASSUME NEW e \in checking \union sending PROVE Tells(bull'[e.job], e.snap)
  <2>1. e.job \in Jobs /\ Tells(bull[e.job], e.snap)
    BY DEF EventInv, JobEvent
  <2> QED
    BY <2>1, EndsStayTrue DEF Moves
<1>2. ASSUME NEW i \in DOMAIN log PROVE Tells(bull'[log[i].job], log[i].snap)
  <2>1. log[i] \in JobEvent /\ Tells(bull[log[i].job], log[i].snap)
    BY DEF EventInv
  <2> QED
    BY <2>1, EndsStayTrue DEF Moves, JobEvent
<1> QED
  BY <1>1, <1>2

(* Only true events are appended.                                          *)
LEMMA LogGrows ==
  ASSUME EventInv, Moves, NEW e \in JobEvent, Tells(bull'[e.job], e.snap), Xadd(e),
         checking' \subseteq checking, sending' \subseteq sending
  PROVE  EventInv'
<1>1. /\ log' \in Seq(JobEvent) /\ Len(log') = Len(log) + 1
      /\ DOMAIN log = 1..Len(log) /\ DOMAIN log' = 1..Len(log')
      /\ \A i \in 1..Len(log') : log'[i] = IF i <= Len(log) THEN log[i] ELSE e
  <2>1. log \in Seq(JobEvent) /\ log' = Append(log, e)
    BY DEF EventInv, Xadd
  <2> QED
    BY <2>1
<1>2. Len(log) \in Nat
  BY DEF EventInv
<1>3. DOMAIN log \subseteq DOMAIN log' /\ settled' \subseteq DOMAIN log'
  BY <1>1, <1>2 DEF EventInv, Xadd
<1>4. ASSUME NEW i \in DOMAIN log' PROVE Tells(bull'[log'[i].job], log'[i].snap)
  <2>1. CASE i <= Len(log)
    BY <1>1, <1>2, <1>4, <2>1, EventsStayTrue
  <2>2. CASE ~(i <= Len(log))
    BY <1>1, <1>4, <2>2
  <2> QED
    BY <2>1, <2>2
<1>5. \A f \in checking' \union sending' : Tells(bull'[f.job], f.snap)
  BY EventsStayTrue
<1>6. checking' \subseteq JobEvent /\ sending' \subseteq JobEvent
  BY DEF EventInv
<1> QED
  BY <1>1, <1>3, <1>4, <1>5, <1>6 DEF EventInv

(* Every event on its way and every entry of the stream is true.           *)
LEMMA EventStep == Inv /\ [Next]_vars => EventInv'
<1> SUFFICES ASSUME Inv, [Next]_vars PROVE EventInv'
  OBVIOUS
<1>0. BullInv /\ WorkerInv /\ EventInv /\ Moves
  BY BullStep DEF Inv
<1>1. ASSUME NEW C, NEW S, C \subseteq JobEvent, S \subseteq JobEvent,
             \A e \in C \union S : Tells(bull'[e.job], e.snap),
             checking' = C, sending' = S, log' = log, settled' \subseteq DOMAIN log
      PROVE  EventInv'
  <2>1. \A i \in DOMAIN log : Tells(bull'[log[i].job], log[i].snap)
    BY <1>0, EventsStayTrue
  <2>2. log \in Seq(JobEvent)
    BY <1>0 DEF EventInv
  <2> QED
    BY <1>1, <2>1, <2>2 DEF EventInv
<1>2. ASSUME checking' \subseteq checking, sending' \subseteq checking \union sending,
             log' = log, settled' \subseteq DOMAIN log
      PROVE  EventInv'
  <2>1. checking' \subseteq JobEvent /\ sending' \subseteq JobEvent
    BY <1>0, <1>2 DEF EventInv
  <2>2. \A e \in checking' \union sending' : Tells(bull'[e.job], e.snap)
    BY <1>0, <1>2, EventsStayTrue
  <2> QED
    BY <1>1, <1>2, <2>1, <2>2
<1>3. settled \subseteq DOMAIN log
  BY <1>0 DEF EventInv
<1>4. ASSUME NEW w \in Workers, Register(w) \/ Report(w) PROVE EventInv'
  <2>1. worker[w] \in WorkerState /\ worker[w].job \in Jobs
        /\ Tells(bull'[worker[w].job], worker[w].snap)
    BY <1>0, <1>4, EndsStayTrue DEF Register, Report, WorkerInv, Moves
  <2>2. PICK phase \in {"active", "terminal"} :
          Xadd(Event(worker[w].job, phase, worker[w].snap))
    BY <1>4 DEF Register, Report
  <2> DEFINE e == Event(worker[w].job, phase, worker[w].snap)
  <2>3. e \in JobEvent /\ Tells(bull'[e.job], e.snap)
    BY <2>1 DEF Event, JobEvent, WorkerState
  <2>4. checking' = checking /\ sending' = sending
    BY <1>4 DEF Register, Report, masterVars
  <2> HIDE DEF e
  <2> QED
    BY <1>0, <2>2, <2>3, <2>4, LogGrows DEF e
<1>5. ASSUME NEW j \in Jobs, FetchWaiting(j) PROVE EventInv'
  <2> DEFINE e == Event(j, "waiting", bull[j].snap)
  <2>1. CASE Gone(j)
    BY <1>2, <1>3, <1>5, <2>1 DEF FetchWaiting, streamVars
  <2>2. CASE ~Gone(j)
    <3>1. e \in JobEvent
      BY <1>0 DEF Event, JobEvent, BullInv, BullJob
    <3>2. Tells(bull'[e.job], e.snap)
      <4>1. bull[j].state # "none" /\ Sound(bull[j]) /\ bull' = bull
        BY <1>0, <1>5, <2>2 DEF Gone, BullInv, FetchWaiting
      <4> QED
        BY <4>1, EndsStayTrue DEF Event
    <3> HIDE DEF e
    <3>3. /\ checking \union {e} \subseteq JobEvent /\ sending \subseteq JobEvent
          /\ \A f \in (checking \union {e}) \union sending : Tells(bull'[f.job], f.snap)
      BY <1>0, <3>1, <3>2, EventsStayTrue DEF EventInv
    <3>4. /\ checking' = checking \union {e} /\ sending' = sending /\ log' = log
          /\ settled' = settled
      BY <1>5, <2>2 DEF FetchWaiting, streamVars, e
    <3> QED
      BY <1>1, <1>3, <3>3, <3>4
  <2> QED
    BY <2>1, <2>2
<1>6. ASSUME NEW e \in checking, CheckWaiting(e) PROVE EventInv'
  BY <1>2, <1>3, <1>6 DEF CheckWaiting, streamVars
<1>7. ASSUME NEW e \in sending, SendWaiting(e) PROVE EventInv'
  <2>1. e \in JobEvent /\ Tells(bull'[e.job], e.snap)
    BY <1>0, EventsStayTrue DEF EventInv
  <2> QED
    BY <1>0, <1>7, <2>1, LogGrows DEF SendWaiting
<1>8. ASSUME NEW e \in sending, LoseWaiting(e) PROVE EventInv'
  BY <1>2, <1>3, <1>8 DEF LoseWaiting, streamVars
<1>9. ASSUME NEW S \in SUBSET Unsettled, UpsertBatch(S) PROVE EventInv'
  <2>1. PICK T \in SUBSET S : settled' = settled \union T
    BY <1>9 DEF UpsertBatch
  <2>2. settled' \subseteq DOMAIN log
    BY <1>3, <2>1 DEF Unsettled
  <2> QED
    BY <1>2, <1>9, <2>2 DEF UpsertBatch, masterVars
<1>10. ASSUME masterVars' = masterVars, streamVars' = streamVars PROVE EventInv'
  BY <1>2, <1>3, <1>10 DEF masterVars, streamVars
<1>11. ASSUME NEW j \in Jobs, Queue(j) PROVE EventInv'
  BY <1>10, <1>11 DEF Queue, AddJob, Promote, Stall, PickUp
<1>12. ASSUME NEW w \in Workers, Process(w) PROVE EventInv'
  BY <1>4, <1>10, <1>12 DEF Process, Finish, Retry, LoseJob, GiveUp
<1>13. ASSUME NEW r \in Reconcilers, Reconcile(r) \/ FailTick(r)
       PROVE  masterVars' = masterVars /\ streamVars' = streamVars
  BY <1>13 DEF Reconcile, Tick, UpsertListed, SelectStale, ReadState, WriteRow, MarkUnknown,
     EndTick, FetchListed, ReadListedState, LookUp, FailTick
<1>14. CASE UNCHANGED vars
  BY <1>10, <1>14 DEF vars, masterVars, streamVars
<1> QED
  BY <1>5, <1>6, <1>7, <1>8, <1>9, <1>10, <1>11, <1>12, <1>13, <1>14 DEF Next, Master, Ingest

-----------------------------------------------------------------------------
(* The parts of a reconciler's record.                                     *)
LEMMA RecParts ==
  ASSUME RecInv, NEW r \in Reconcilers
  PROVE  /\ rec[r] \in RecState /\ RecTells(bull, rec[r])
         /\ rec[r].got \in Partial(Snapshot) /\ rec[r].runs \in Partial(Run)
         /\ rec[r].todo \in SUBSET Jobs
         /\ DOMAIN rec[r].got \subseteq Jobs /\ DOMAIN rec[r].runs \subseteq Jobs
         /\ \A j \in DOMAIN rec[r].got : rec[r].got[j] \in Snapshot
         /\ \A j \in DOMAIN rec[r].runs : rec[r].runs[j] \in Run
<1>1. /\ rec[r] \in RecState /\ RecTells(bull, rec[r])
      /\ rec[r].got \in Partial(Snapshot) /\ rec[r].runs \in Partial(Run)
      /\ rec[r].todo \in SUBSET Jobs
  BY DEF RecInv, RecState
<1>2. \A S : \A f \in Partial(S) : DOMAIN f \subseteq Jobs /\ \A k \in DOMAIN f : f[k] \in S
  BY DEF Partial
<1> QED
  BY <1>1, <1>2

(* What a reconciler holds stays true while others act.                    *)
LEMMA RecStaysTrue ==
  ASSUME RecInv, Moves, NEW r \in Reconcilers
  PROVE  RecTells(bull', rec[r])
<1>1. RecTells(bull, rec[r]) /\ rec[r].todo \subseteq Jobs /\ DOMAIN rec[r].got \subseteq Jobs
      /\ DOMAIN rec[r].runs \subseteq Jobs
  BY RecParts
<1>2. \A j \in rec[r].todo : bull'[j].state # "none"
  BY <1>1 DEF RecTells, Moves, Step
<1>3. \A j \in DOMAIN rec[r].got : Tells(bull'[j], rec[r].got[j])
  BY <1>1, EndsStayTrue DEF RecTells, Moves
<1>4. rec[r].at = "mark" => \A j \in DOMAIN rec[r].got : bull'[j].state = "removed"
  BY <1>1 DEF RecTells, Moves, Step
<1>5. \A j \in DOMAIN rec[r].runs :
        rec[r].runs[j].status # "unknown" /\ Shows(bull'[j], rec[r].runs[j])
  BY <1>1, EndsStayTrue DEF RecTells, Moves
<1> QED
  BY <1>2, <1>3, <1>4, <1>5 DEF RecTells

(* A reconciler that moves on.                                             *)
LEMMA RecGoesOn ==
  ASSUME RecInv, Moves, NEW r \in Reconcilers, NEW x \in RecState, RecTells(bull', x),
         rec' = [rec EXCEPT ![r] = x]
  PROVE  RecInv'
<1>1. rec' \in [Reconcilers -> RecState]
  BY DEF RecInv
<1>2. ASSUME NEW v \in Reconcilers PROVE RecTells(bull', rec'[v])
  <2>1. CASE v = r
    BY <2>1 DEF RecInv
  <2>2. CASE v # r
    <3>1. rec'[v] = rec[v]
      BY <2>2 DEF RecInv
    <3> QED
      BY <3>1, RecStaysTrue
  <2> QED
    BY <2>1, <2>2
<1> QED
  BY <1>1, <1>2 DEF RecInv

(* A snapshot of one moment and a state of a later one make a true row.    *)
LEMMA RunNowShows ==
  ASSUME BullInv, RecInv, NEW r \in Reconcilers, NEW j \in DOMAIN rec[r].got
  PROVE  RunNow(r, j) \in Run /\ RunNow(r, j).status # "unknown" /\ Shows(bull[j], RunNow(r, j))
<1> DEFINE snap  == rec[r].got[j]
           state == PersistedState(GetState(j))
           row   == RunNow(r, j)
<1>1. j \in Jobs /\ snap \in Snapshot /\ Tells(bull[j], snap)
  BY RecParts DEF RecTells
<1>2. /\ row \in Run /\ row.status # "unknown"
      /\ IsTerminal(row) => \/ row.status = state
                            \/ snap.finished /\ row.status = IF snap.failed THEN "failed"
                                                                            ELSE "completed"
  BY <1>1, FormatsRun DEF RunNow
<1>3. bull[j].outcome \in Terminal \union {None} /\ Sound(bull[j])
  BY <1>1 DEF BullInv, BullJob
<1>4. state \in Terminal => state = bull[j].outcome
  BY <1>3 DEF PersistedState, GetState, Gone, Sound, Terminal, Live, None
<1>5. Shows(bull[j], row)
  BY <1>1, <1>2, <1>3, <1>4 DEF Tells, Shows, IsTerminal, Terminal, None
<1> QED
  BY <1>2, <1>5

(* Every snapshot and every row a reconciler holds is true.                *)
LEMMA RecStep == Inv /\ [Next]_vars => RecInv'
<1> SUFFICES ASSUME Inv, [Next]_vars PROVE RecInv'
  OBVIOUS
<1>0. BullInv /\ RowInv /\ RecInv /\ Moves
  BY BullStep DEF Inv
<1>1. ASSUME rec' = rec PROVE RecInv'
  <2>1. rec' \in [Reconcilers -> RecState]
    BY <1>0, <1>1 DEF RecInv
  <2>2. \A r \in Reconcilers : RecTells(bull', rec'[r])
    BY <1>0, <1>1, RecStaysTrue
  <2> QED
    BY <2>1, <2>2 DEF RecInv
<1>2. ASSUME NEW r \in Reconcilers, NEW x, bull' = bull, rec' = [rec EXCEPT ![r] = x],
             x \in RecState, RecTells(bull, x)
      PROVE  RecInv'
  BY <1>0, <1>2, RecGoesOn
<1>3. ASSUME NEW j \in Jobs, bull[j].state # "none" PROVE Tells(bull[j], bull[j].snap)
  BY <1>0, <1>3, EndsStayTrue DEF BullInv
<1>4. ASSUME NEW r \in Reconcilers, NEW at \in RecStage, NEW todo \in SUBSET Jobs,
             \A j \in todo : bull[j].state # "none", bull' = bull,
             rec' = [rec EXCEPT ![r] = [at |-> at, todo |-> todo, got |-> <<>>, runs |-> <<>>]]
      PROVE  RecInv'
  <2> DEFINE x == [at |-> at, todo |-> todo, got |-> <<>>, runs |-> <<>>]
  <2>1. x \in RecState
    BY EmptyPartial DEF RecState
  <2>2. RecTells(bull, x)
    BY <1>4, EmptyPartial DEF RecTells
  <2> HIDE DEF x
  <2> QED
    BY <1>2, <1>4, <2>1, <2>2 DEF x
<1>5. ASSUME NEW r \in Reconcilers, Tick(r) PROVE RecInv'
  <2> DEFINE todo == {j \in Jobs : bull[j].state \in Live}
  <2>1. \A j \in todo : bull[j].state # "none"
    BY DEF Live
  <2>2. rec' = [rec EXCEPT ![r] = [at |-> "list", todo |-> todo, got |-> <<>>, runs |-> <<>>]]
    BY <1>5 DEF Tick, At
  <2> HIDE DEF todo
  <2>3. todo \in SUBSET Jobs /\ "list" \in RecStage /\ bull' = bull
    BY <1>5 DEF todo, RecStage, Tick, bullVars
  <2> QED
    BY <1>4, <2>1, <2>2, <2>3
<1>6. ASSUME NEW r \in Reconcilers, UpsertListed(r) \/ EndTick(r) \/ FailTick(r) PROVE RecInv'
  <2>1. PICK at \in {"select", "rest"} :
          rec' = [rec EXCEPT ![r] = [at |-> at, todo |-> {}, got |-> <<>>, runs |-> <<>>]]
    BY <1>6 DEF UpsertListed, EndTick, FailTick, Resting, At
  <2>2. at \in RecStage /\ bull' = bull
    BY <1>6 DEF RecStage, UpsertListed, EndTick, FailTick, bullVars
  <2>3. {} \in SUBSET Jobs /\ \A j \in {} : bull[j].state # "none"
    OBVIOUS
  <2> QED
    BY <1>4, <2>1, <2>2, <2>3
<1>7. ASSUME NEW r \in Reconcilers PROVE rec[r] \in RecState /\ RecTells(bull, rec[r])
  BY <1>0, RecParts
<1>8. ASSUME NEW r \in Reconcilers, NEW j \in Jobs, FetchListed(r, j) PROVE RecInv'
  <2> DEFINE got == IF Gone(j) THEN rec[r].got ELSE With(rec[r].got, j, bull[j].snap)
             x   == [rec[r] EXCEPT !.todo = @ \ {j}, !.got = got]
  <2>1. bull[j].snap \in Snapshot
    BY <1>0 DEF BullInv, BullJob
  <2>2. got \in Partial(Snapshot) /\ \A k \in DOMAIN got : Tells(bull[k], got[k])
    <3>1. rec[r].got \in Partial(Snapshot)
          /\ \A k \in DOMAIN rec[r].got : Tells(bull[k], rec[r].got[k])
      BY <1>0, RecParts DEF RecTells
    <3>2. CASE Gone(j)
      BY <3>1, <3>2
    <3>3. CASE ~Gone(j)
      <4>1. Tells(bull[j], bull[j].snap)
        BY <1>3, <3>3 DEF Gone
      <4>2. got = With(rec[r].got, j, bull[j].snap)
        BY <3>3
      <4> HIDE DEF got
      <4> DEFINE g == With(rec[r].got, j, bull[j].snap)
      <4>3. g \in Partial(Snapshot)
        BY <2>1, <3>1, WithOneMore
      <4>4. DOMAIN g = DOMAIN rec[r].got \union {j} /\ g[j] = bull[j].snap
            /\ \A k \in DOMAIN rec[r].got : k # j => g[k] = rec[r].got[k]
        BY DEF With
      <4> QED
        BY <3>1, <4>1, <4>2, <4>3, <4>4
    <3> QED
      BY <3>2, <3>3
  <2> HIDE DEF got
  <2>3. x \in RecState /\ x.at = rec[r].at /\ x.todo = rec[r].todo \ {j} /\ x.got = got
        /\ x.runs = rec[r].runs
    BY <1>7, <2>2 DEF RecState
  <2>4. RecTells(bull, x)
    BY <1>7, <1>8, <2>2, <2>3 DEF RecTells, FetchListed
  <2>5. rec' = [rec EXCEPT ![r] = x] /\ bull' = bull
    BY <1>0, <1>8 DEF FetchListed, RecInv, got, bullVars
  <2> HIDE DEF x
  <2> QED
    BY <1>2, <2>3, <2>4, <2>5
<1>9. ASSUME NEW r \in Reconcilers, NEW j \in Jobs, ReadListedState(r, j) PROVE RecInv'
  <2> DEFINE got  == Restrict(rec[r].got, DOMAIN rec[r].got \ {j})
             runs == With(rec[r].runs, j, RunNow(r, j))
             x    == [rec[r] EXCEPT !.got = got, !.runs = runs]
  <2>1. rec[r].got \in Partial(Snapshot) /\ rec[r].runs \in Partial(Run)
    BY <1>0, RecParts
  <2>2. bull[j].snap \in Snapshot
    BY <1>0 DEF BullInv, BullJob
  <2>3. got \in Partial(Snapshot) /\ DOMAIN got = DOMAIN rec[r].got \ {j}
        /\ \A k \in DOMAIN got : got[k] = rec[r].got[k]
    BY <2>1, WithOneLess
  <2>4. RunNow(r, j) \in Run /\ RunNow(r, j).status # "unknown"
        /\ Shows(bull[j], RunNow(r, j))
    BY <1>0, <1>9, RunNowShows DEF ReadListedState
  <2>5. runs \in Partial(Run) /\ DOMAIN runs = DOMAIN rec[r].runs \union {j}
        /\ runs[j] = RunNow(r, j)
        /\ \A k \in DOMAIN rec[r].runs : k # j => runs[k] = rec[r].runs[k]
    <3>1. runs \in Partial(Run)
      BY <2>1, <2>4, WithOneMore
    <3>2. DOMAIN runs = DOMAIN rec[r].runs \union {j} /\ runs[j] = RunNow(r, j)
          /\ \A k \in DOMAIN rec[r].runs : k # j => runs[k] = rec[r].runs[k]
      BY DEF With
    <3> QED
      BY <3>1, <3>2
  <2>6. rec' = [rec EXCEPT ![r] = x] /\ bull' = bull
    BY <1>0, <1>9 DEF ReadListedState, RecInv, bullVars
  <2> HIDE DEF got, runs
  <2>7. x \in RecState /\ x.at = rec[r].at /\ x.todo = rec[r].todo /\ x.got = got
        /\ x.runs = runs
    BY <1>7, <2>3, <2>5 DEF RecState
  <2>8. RecTells(bull, x)
    BY <1>7, <1>9, <2>3, <2>4, <2>5, <2>7 DEF RecTells, ReadListedState
  <2> HIDE DEF x
  <2> QED
    BY <1>2, <2>6, <2>7, <2>8
<1>10. ASSUME NEW r \in Reconcilers, SelectStale(r) PROVE RecInv'
  <2> DEFINE todo == {j \in Jobs : jobRuns[j].status \in Live \union {"unknown"}}
             x    == [rec[r] EXCEPT !.at = "look", !.todo = todo]
  <2>1. \A j \in todo : bull[j].state # "none"
    BY <1>0 DEF RowInv, Shows, HasRow, NoRow, None, Live
  <2>2. todo \in SUBSET Jobs
    OBVIOUS
  <2>3. rec' = [rec EXCEPT ![r] = x] /\ bull' = bull
    BY <1>0, <1>10 DEF SelectStale, RecInv, bullVars
  <2> HIDE DEF todo
  <2>4. x \in RecState /\ x.at = "look" /\ x.todo = todo /\ x.got = rec[r].got
        /\ x.runs = rec[r].runs
    BY <1>7, <2>2 DEF RecState, RecStage
  <2>5. RecTells(bull, x)
    BY <1>7, <2>1, <2>4 DEF RecTells
  <2> HIDE DEF x
  <2> QED
    BY <1>2, <2>3, <2>4, <2>5
<1>11. ASSUME NEW r \in Reconcilers, NEW j \in Jobs, LookUp(r, j) PROVE RecInv'
  <2> DEFINE at  == IF Gone(j) THEN "mark" ELSE "lookState"
             got == With(<<>>, j, bull[j].snap)
             x   == [rec[r] EXCEPT !.at = at, !.todo = @ \ {j}, !.got = got]
  <2>1. bull[j].state # "none"
    BY <1>7, <1>11 DEF LookUp, RecTells
  <2>2. bull[j].snap \in Snapshot /\ Tells(bull[j], bull[j].snap)
    BY <1>0, <1>3, <2>1 DEF BullInv, BullJob
  <2>3. got \in Partial(Snapshot) /\ DOMAIN got = {j} /\ got[j] = bull[j].snap
    BY <2>2, WithOne, Zenon
  <2>4. at \in RecStage /\ (at = "mark" => bull[j].state = "removed")
    BY <2>1 DEF RecStage, Gone
  <2>5. rec' = [rec EXCEPT ![r] = x] /\ bull' = bull
    BY <1>0, <1>11 DEF LookUp, Load, RecInv, bullVars
  <2> HIDE DEF at, got
  <2>6. x \in RecState /\ x.at = at /\ x.todo = rec[r].todo \ {j} /\ x.got = got
        /\ x.runs = rec[r].runs
    BY <1>7, <2>3, <2>4 DEF RecState
  <2>7. RecTells(bull, x)
    BY <1>7, <2>2, <2>3, <2>4, <2>6 DEF RecTells
  <2> HIDE DEF x
  <2> QED
    BY <1>2, <2>5, <2>6, <2>7
<1>12. ASSUME NEW r \in Reconcilers, ReadState(r) PROVE RecInv'
  <2>1. PICK j \in DOMAIN rec[r].got :
          rec' = [rec EXCEPT ![r].at = "write", ![r].got = <<>>,
                             ![r].runs = With(<<>>, j, RunNow(r, j))]
    BY <1>12 DEF ReadState
  <2> DEFINE runs == With(<<>>, j, RunNow(r, j))
             x    == [rec[r] EXCEPT !.at = "write", !.got = <<>>, !.runs = runs]
  <2>2. j \in Jobs /\ RunNow(r, j) \in Run /\ RunNow(r, j).status # "unknown"
        /\ Shows(bull[j], RunNow(r, j))
    BY <1>0, RecParts, RunNowShows
  <2>3. runs \in Partial(Run) /\ DOMAIN runs = {j} /\ runs[j] = RunNow(r, j)
    BY <2>2, WithOne, Zenon
  <2>4. rec' = [rec EXCEPT ![r] = x] /\ bull' = bull
    BY <1>0, <1>12, <2>1 DEF ReadState, RecInv, bullVars
  <2> HIDE DEF runs
  <2>5. x \in RecState /\ x.at = "write" /\ x.todo = rec[r].todo /\ x.got = <<>>
        /\ x.runs = runs
    BY <1>7, <2>3, EmptyPartial DEF RecState, RecStage
  <2>6. RecTells(bull, x)
    BY <1>7, <2>2, <2>3, <2>5, EmptyPartial DEF RecTells
  <2> HIDE DEF x
  <2> QED
    BY <1>2, <2>4, <2>5, <2>6
<1>13. ASSUME NEW r \in Reconcilers, WriteRow(r) PROVE RecInv'
  <2> DEFINE x == [rec[r] EXCEPT !.at = "look", !.runs = <<>>]
  <2>1. rec' = [rec EXCEPT ![r] = x] /\ bull' = bull
    BY <1>0, <1>13 DEF WriteRow, RecInv, bullVars
  <2>2. x \in RecState /\ x.at = "look" /\ x.todo = rec[r].todo /\ x.got = rec[r].got
        /\ x.runs = <<>>
    BY <1>7, EmptyPartial DEF RecState, RecStage
  <2>3. RecTells(bull, x)
    BY <1>7, <2>2, EmptyPartial DEF RecTells
  <2> HIDE DEF x
  <2> QED
    BY <1>2, <2>1, <2>2, <2>3
<1>14. ASSUME NEW r \in Reconcilers, MarkUnknown(r) PROVE RecInv'
  <2> DEFINE x == [rec[r] EXCEPT !.at = "look", !.got = <<>>]
  <2>1. rec' = [rec EXCEPT ![r] = x] /\ bull' = bull
    BY <1>0, <1>14 DEF MarkUnknown, RecInv, bullVars
  <2>2. x \in RecState /\ x.at = "look" /\ x.todo = rec[r].todo /\ x.got = <<>>
        /\ x.runs = rec[r].runs
    BY <1>7, EmptyPartial DEF RecState, RecStage
  <2>3. RecTells(bull, x)
    BY <1>7, <2>2, EmptyPartial DEF RecTells
  <2> HIDE DEF x
  <2> QED
    BY <1>2, <2>1, <2>2, <2>3
<1>15. ASSUME NEW r \in Reconcilers, Reconcile(r) PROVE RecInv'
  BY <1>5, <1>6, <1>8, <1>9, <1>10, <1>11, <1>12, <1>13, <1>14, <1>15 DEF Reconcile
<1>16. CASE (\E j \in Jobs : Queue(j)) \/ (\E w \in Workers : Process(w))
  BY <1>1, <1>16 DEF Queue, AddJob, Promote, Stall, PickUp, Process, Register, Finish, Retry,
     LoseJob, Report, GiveUp
<1>17. CASE Master \/ Ingest \/ UNCHANGED vars
  BY <1>1, <1>17 DEF Master, FetchWaiting, CheckWaiting, SendWaiting, LoseWaiting, Ingest,
     UpsertBatch, vars
<1> QED
  BY <1>6, <1>15, <1>16, <1>17 DEF Next

-----------------------------------------------------------------------------
(* The row made of a true event is true.                                   *)
LEMMA RunOfShows ==
  ASSUME NEW e \in JobEvent, NEW b, b.outcome \in Terminal \union {None}, Tells(b, e.snap)
  PROVE  RunOf(e) \in Run /\ RunOf(e).status # "unknown" /\ Shows(b, RunOf(e))
<1> DEFINE row   == RunOf(e)
           state == EventState(e.phase)
<1>1. e.snap \in Snapshot /\ state \notin Terminal
  BY DEF JobEvent, EventState, Terminal, None
<1>2. /\ row \in Run /\ row.status # "unknown"
      /\ IsTerminal(row) => \/ row.status = state
                            \/ e.snap.finished /\ row.status = IF e.snap.failed THEN "failed"
                                                                              ELSE "completed"
  BY <1>1, FormatsRun DEF RunOf
<1>3. Shows(b, row)
  BY <1>1, <1>2 DEF Tells, Shows, IsTerminal, Terminal, None
<1> QED
  BY <1>2, <1>3

(* Rows keep the end they show, unless BullMQ drops the job, and tags.     *)
RowsKept ==
  \A j \in Jobs :
    /\ ~bull[j].drop /\ IsTerminal(jobRuns[j]) => IsTerminal(jobRuns'[j])
    /\ jobRuns[j].tagged => jobRuns'[j].tagged

(* An upsert of true rows leaves true rows.                                *)
LEMMA UpsertShows ==
  ASSUME RowInv, Moves, NEW runs,
         \A j \in DOMAIN runs : /\ runs[j] \in Run /\ runs[j].status # "unknown"
                                /\ Shows(bull'[j], runs[j]),
         jobRuns' = UpsertJobRuns(jobRuns, runs)
  PROVE  RowInv' /\ RowsKept
<1>1. jobRuns \in [Jobs -> Run \union {NoRow}]
  BY DEF RowInv
<1>2. /\ jobRuns' \in [Jobs -> Run \union {NoRow}]
      /\ \A j \in Jobs : \/ jobRuns'[j] = jobRuns[j]
                         \/ j \in DOMAIN runs /\ ~HasRow(jobRuns[j]) /\ jobRuns'[j] = runs[j]
                         \/ /\ j \in DOMAIN runs /\ jobRuns[j] \in Run
                            /\ jobRuns'[j] = MergeRow(jobRuns[j], runs[j])
  BY <1>1, UpsertsRows
<1>3. ASSUME NEW j \in Jobs
      PROVE  /\ HasRow(jobRuns'[j]) => Shows(bull'[j], jobRuns'[j])
             /\ IsTerminal(jobRuns[j]) => IsTerminal(jobRuns'[j])
             /\ jobRuns[j].tagged => jobRuns'[j].tagged
  <2>1. HasRow(jobRuns[j]) => Shows(bull'[j], jobRuns[j])
    BY EndsStayTrue DEF RowInv, Moves
  <2>2. CASE jobRuns'[j] = jobRuns[j]
    BY <2>1, <2>2
  <2>3. CASE j \in DOMAIN runs /\ ~HasRow(jobRuns[j]) /\ jobRuns'[j] = runs[j]
    BY <2>3 DEF HasRow, NoRow, IsTerminal, Terminal, None
  <2>4. CASE /\ j \in DOMAIN runs /\ jobRuns[j] \in Run
             /\ jobRuns'[j] = MergeRow(jobRuns[j], runs[j])
    <3> DEFINE old == jobRuns[j]
               new == runs[j]
               row == MergeRow(old, new)
    <3>1. old \in Run /\ new \in Run /\ HasRow(old)
      BY <2>4, RunsAreRows
    <3>2. /\ row.status \in {old.status, new.status}
          /\ row.status = "unknown" => new.status = "unknown"
          /\ IsTerminal(old) => IsTerminal(row)
          /\ old.tagged => row.tagged
      BY <3>1, MergesRow
    <3>3. Shows(bull'[j], old) /\ Shows(bull'[j], new) /\ new.status # "unknown"
      BY <2>1, <2>4, <3>1
    <3> HIDE DEF old, new, row
    <3>4. Shows(bull'[j], row)
      BY <3>2, <3>3 DEF Shows, IsTerminal
    <3> QED
      BY <2>4, <3>2, <3>4 DEF old, new, row
  <2> QED
    BY <1>2, <2>2, <2>3, <2>4
<1> QED
  BY <1>2, <1>3 DEF RowInv, RowsKept

(* No row says of its job's end what is not so, and none forgets.          *)
LEMMA RowStep == Inv /\ [Next]_vars => RowInv' /\ RowsKept
<1> SUFFICES ASSUME Inv, [Next]_vars PROVE RowInv' /\ RowsKept
  OBVIOUS
<1>0. BullInv /\ EventInv /\ RowInv /\ RecInv /\ Moves
  BY BullStep DEF Inv
<1>1. ASSUME jobRuns' = jobRuns PROVE RowInv' /\ RowsKept
  <2>1. jobRuns' \in [Jobs -> Run \union {NoRow}]
    BY <1>0, <1>1 DEF RowInv
  <2>2. \A j \in Jobs : HasRow(jobRuns'[j]) => Shows(bull'[j], jobRuns'[j])
    BY <1>0, <1>1, EndsStayTrue DEF RowInv, Moves
  <2> QED
    BY <1>1, <2>1, <2>2 DEF RowInv, RowsKept
<1>2. ASSUME NEW S \in SUBSET Unsettled, UpsertBatch(S) PROVE RowInv' /\ RowsKept
  <2> DEFINE jobOf == [i \in S |-> log[i].job]
             run   == [i \in S |-> RunOf(log[i])]
             runs  == LastRuns(S, jobOf, run)
  <2>1. Len(log) \in Nat /\ S \in SUBSET (1..Len(log)) /\ S \subseteq DOMAIN log
        /\ \A i \in DOMAIN log : log[i] \in JobEvent
    BY <1>0 DEF EventInv, Unsettled
  <2>2. ASSUME NEW j \in DOMAIN runs
        PROVE  runs[j] \in Run /\ runs[j].status # "unknown" /\ Shows(bull'[j], runs[j])
    <3> HIDE DEF jobOf, run
    <3>0. \A k \in DOMAIN LastRuns(S, jobOf, run) :
            \E i \in S : jobOf[i] = k /\ LastRuns(S, jobOf, run)[k] = run[i]
      <4>1. S \in SUBSET Nat /\ IsFiniteSet(S)
        <5>1. IsFiniteSet(1..Len(log)) /\ S \in SUBSET (1..Len(log)) /\ 1..Len(log) \subseteq Nat
          BY <2>1, FS_Interval
        <5> QED
          BY <5>1, FS_Subset, Zenon
      <4> QED
        BY <4>1, LastRunsOfBatch
    <3>1. PICK i \in S : jobOf[i] = j /\ runs[j] = run[i]
      BY <2>2, <3>0
    <3>2. log[i] \in JobEvent /\ log[i].job = j /\ runs[j] = RunOf(log[i])
      BY <2>1, <3>1 DEF jobOf, run
    <3>3. j \in Jobs /\ bull' = bull /\ Tells(bull[j], log[i].snap)
      BY <1>0, <1>2, <2>1, <3>2 DEF JobEvent, EventInv, UpsertBatch, bullVars
    <3>4. bull[j].outcome \in Terminal \union {None}
      BY <1>0, <3>3 DEF BullInv, BullJob
    <3> QED
      BY <3>2, <3>3, <3>4, RunOfShows
  <2>3. jobRuns' = UpsertJobRuns(jobRuns, runs)
    BY <1>2 DEF UpsertBatch
  <2> HIDE DEF runs
  <2> QED
    BY <1>0, <2>2, <2>3, UpsertShows
<1>3. ASSUME NEW r \in Reconcilers, UpsertListed(r) \/ WriteRow(r) PROVE RowInv' /\ RowsKept
  <2> DEFINE runs == rec[r].runs
  <2>1. jobRuns' = UpsertJobRuns(jobRuns, runs) /\ bull' = bull
    BY <1>3 DEF UpsertListed, WriteRow, bullVars
  <2>2. \A j \in DOMAIN runs :
          runs[j] \in Run /\ runs[j].status # "unknown" /\ Shows(bull'[j], runs[j])
    BY <1>0, <2>1, RecParts DEF RecTells
  <2> HIDE DEF runs
  <2> QED
    BY <1>0, <2>1, <2>2, UpsertShows
<1>4. ASSUME NEW r \in Reconcilers, MarkUnknown(r) PROVE RowInv' /\ RowsKept
  <2>1. PICK j \in DOMAIN rec[r].got : jobRuns' = [jobRuns EXCEPT ![j].status = "unknown"]
    BY <1>4 DEF MarkUnknown
  <2>2. j \in Jobs /\ bull' = bull /\ bull[j].state = "removed" /\ bull[j].drop
    BY <1>0, <1>4, RecParts DEF MarkUnknown, RecTells, BullInv, Sound, bullVars
  <2> DEFINE row == [jobRuns[j] EXCEPT !.status = "unknown"]
  <2>3. jobRuns[j] \in Run \union {NoRow} /\ jobRuns' = [jobRuns EXCEPT ![j] = row]
    BY <1>0, <2>1, <2>2 DEF RowInv
  <2>4. row \in Run /\ row.status = "unknown" /\ (jobRuns[j].tagged => row.tagged)
    <3>1. CASE jobRuns[j] \in Run
      BY <3>1 DEF Run, Statuses
    <3>2. CASE jobRuns[j] = NoRow
      <4>1. NoRow \in [status : {None}, finished : BOOLEAN, error : BOOLEAN, tagged : BOOLEAN]
        BY DEF NoRow
      <4> QED
        BY <3>2, <4>1 DEF Run, Statuses
    <3> QED
      BY <2>3, <3>1, <3>2
  <2> HIDE DEF row
  <2>5. Shows(bull'[j], row)
    BY <2>2, <2>4 DEF Shows, IsTerminal, Terminal
  <2>6. ASSUME NEW k \in Jobs
        PROVE  /\ HasRow(jobRuns'[k]) => Shows(bull'[k], jobRuns'[k])
               /\ ~bull[k].drop /\ IsTerminal(jobRuns[k]) => IsTerminal(jobRuns'[k])
               /\ jobRuns[k].tagged => jobRuns'[k].tagged
    <3>1. CASE k = j
      BY <1>0, <2>2, <2>3, <2>4, <2>5, <3>1 DEF RowInv
    <3>2. CASE k # j
      BY <1>0, <2>2, <2>3, <3>2 DEF RowInv
    <3> QED
      BY <3>1, <3>2
  <2>7. jobRuns' \in [Jobs -> Run \union {NoRow}]
    BY <1>0, <2>3, <2>4 DEF RowInv
  <2> QED
    BY <2>6, <2>7 DEF RowInv, RowsKept
<1>5. ASSUME NEW r \in Reconcilers, Reconcile(r) \/ FailTick(r) PROVE RowInv' /\ RowsKept
  BY <1>1, <1>3, <1>4, <1>5 DEF Reconcile, Tick, SelectStale, ReadState, EndTick, FetchListed,
     ReadListedState, LookUp, FailTick
<1>6. CASE (\E j \in Jobs : Queue(j)) \/ (\E w \in Workers : Process(w))
  BY <1>1, <1>6 DEF Queue, AddJob, Promote, Stall, PickUp, Process, Register, Finish, Retry,
     LoseJob, Report, GiveUp
<1>7. CASE Master \/ UNCHANGED vars
  BY <1>1, <1>7 DEF Master, FetchWaiting, CheckWaiting, SendWaiting, LoseWaiting, vars
<1> QED
  BY <1>2, <1>5, <1>6, <1>7 DEF Next, Ingest

(* Counters stay in range.                                                 *)
LEMMA CountStep == Inv /\ [Next]_vars => CountInv'
<1> SUFFICES ASSUME Inv, [Next]_vars PROVE CountInv'
  OBVIOUS
<1>0. notices \in [Jobs -> Nat] /\ faults \in 0..MaxFaults /\ MaxFaults \in Nat
  BY PipelineAssumption DEF Inv, CountInv, PipelineAssumption
<1>1. ASSUME notices' = notices PROVE notices' \in [Jobs -> Nat]
  BY <1>0, <1>1
<1>2. ASSUME NEW j \in Jobs, Notify(j) PROVE notices' \in [Jobs -> Nat]
  BY <1>0, <1>2 DEF Notify
<1>3. ASSUME NEW j \in Jobs, FetchWaiting(j) PROVE notices' \in [Jobs -> Nat]
  BY <1>0, <1>3 DEF FetchWaiting
<1>4. ASSUME faults' = faults \/ Fault PROVE faults' \in 0..MaxFaults
  BY <1>0, <1>4 DEF Fault
<1>5. ASSUME NEW j \in Jobs, Queue(j) PROVE CountInv'
  BY <1>1, <1>2, <1>4, <1>5 DEF Queue, AddJob, Promote, Stall, PickUp, CountInv
<1>6. ASSUME NEW w \in Workers, Process(w) PROVE CountInv'
  <2>1. CASE Retry(w)
    <3>1. worker[w].job \in Jobs
      BY <2>1 DEF Inv, WorkerInv, Retry
    <3>2. Notify(worker[w].job) \/ notices' = notices
      BY <2>1 DEF Retry
    <3> QED
      BY <1>1, <1>2, <1>4, <2>1, <3>1, <3>2 DEF Retry, CountInv
  <2>2. CASE ~Retry(w)
    BY <1>1, <1>4, <1>6, <2>2 DEF Process, Register, Finish, LoseJob, Report, GiveUp, bullVars,
       CountInv
  <2> QED
    BY <2>1, <2>2
<1>7. CASE Master
  BY <1>1, <1>3, <1>4, <1>7 DEF Master, FetchWaiting, CheckWaiting, SendWaiting, LoseWaiting,
     bullVars, CountInv
<1>8. CASE Ingest \/ UNCHANGED vars
  BY <1>1, <1>4, <1>8 DEF Ingest, UpsertBatch, vars, bullVars, CountInv
<1>9. ASSUME NEW r \in Reconcilers, Reconcile(r) \/ FailTick(r)
      PROVE  notices' = notices /\ (faults' = faults \/ Fault)
  BY <1>9 DEF Reconcile, Tick, UpsertListed, SelectStale, ReadState, WriteRow, MarkUnknown,
     EndTick, FetchListed, ReadListedState, LookUp, FailTick, bullVars
<1> QED
  BY <1>1, <1>4, <1>5, <1>6, <1>7, <1>8, <1>9 DEF Next, CountInv

-----------------------------------------------------------------------------
(* Nothing has been said yet.                                              *)
LEMMA InitInv == Init => Inv
<1> SUFFICES ASSUME Init PROVE Inv
  OBVIOUS
<1> USE PipelineAssumption DEF PipelineAssumption
<1>1. Fresh \in Snapshot /\ Fresh.finished = FALSE
  BY DEF Fresh, Snapshot
<1>2. BullInv
  <2> DEFINE b == [state |-> "none", drop |-> FALSE, snap |-> Fresh, tries |-> 0,
                   outcome |-> None, holder |-> Nobody]
  <2>1. 0 \in 0..MaxAttempts - 1
    OBVIOUS
  <2>2. b \in BullJob /\ Sound(b)
    BY <1>1, <2>1 DEF BullJob, BullStates, Sound, Terminal, None
  <2>3. bull = [j \in Jobs |-> b]
    BY DEF Init
  <2> HIDE DEF b
  <2> QED
    BY <2>2, <2>3 DEF BullInv
<1>3. WorkerInv
  <2>1. Idle \in WorkerState /\ Idle.at = "idle"
    BY <1>1 DEF Idle, WorkerState
  <2> QED
    BY <2>1 DEF Init, WorkerInv
<1>4. EventInv
  BY DEF Init, EventInv
<1>5. RowInv
  BY DEF Init, RowInv, HasRow
<1>6. RecInv
  <2>1. Resting \in RecState /\ Resting.todo = {} /\ Resting.got = <<>> /\ Resting.runs = <<>>
        /\ Resting.at = "rest"
    BY EmptyPartial DEF Resting, At, RecState, RecStage
  <2>2. RecTells(bull, Resting)
    BY <2>1, EmptyPartial DEF RecTells
  <2> QED
    BY <2>1, <2>2 DEF Init, RecInv
<1>7. CountInv
  BY DEF Init, CountInv
<1> QED
  BY <1>2, <1>3, <1>4, <1>5, <1>6, <1>7 DEF Inv

(* The inductive invariant.                                                *)
LEMMA Invariant == Spec => []Inv
<1>1. Inv /\ [Next]_vars => Inv'
  BY BullStep, WorkerStep, EventStep, RowStep, RecStep, CountStep DEF Inv
<1> QED
  BY InitInv, <1>1, PTL DEF Spec

(* The variables keep their types.                                         *)
THEOREM TypeCorrect == Spec => []TypeOK
<1>1. Inv => TypeOK
  <2> SUFFICES ASSUME Inv PROVE TypeOK
    OBVIOUS
  <2>1. ASSUME NEW r \in Reconcilers
        PROVE  /\ rec[r].at \in RecStage /\ rec[r].todo \subseteq Jobs
               /\ \E G \in SUBSET Jobs : rec[r].got \in [G -> Snapshot]
               /\ \E R \in SUBSET Jobs : rec[r].runs \in [R -> Run]
    <3>1. rec[r] \in RecState
      BY RecParts DEF Inv
    <3> QED
      BY <3>1 DEF RecState, Partial
  <2> QED
    BY <2>1 DEF Inv, BullInv, BullJob, WorkerInv, EventInv, RowInv, CountInv, TypeOK
<1> QED
  BY Invariant, <1>1, PTL

(* A row that says completed or failed says what became of the job, if     *)
(* failedReason tells; if it does not, TLC refutes this.                   *)
THEOREM TerminalTrue ==
  ASSUME ReasonTellsOutcome
  PROVE  Spec => []TerminalIsTrue
<1>1. Inv => TerminalIsTrue
  BY DEF Inv, RowInv, Shows, TerminalIsTrue, HasRow, NoRow, IsTerminal, Terminal, None
<1> QED
  BY Invariant, <1>1, PTL

(* A row is given up as unknown only when BullMQ has dropped the job.      *)
THEOREM UnknownGone == Spec => []UnknownMeansGone
<1>1. Inv => UnknownMeansGone
  BY DEF Inv, RowInv, Shows, UnknownMeansGone, HasRow, NoRow, None, Gone
<1> QED
  BY Invariant, <1>1, PTL

(* Nothing takes back the end that a row shows, as long as BullMQ keeps    *)
(* the job.                                                                *)
THEOREM FinishedStays ==
  ASSUME ReasonTellsOutcome
  PROVE  Spec => FinishedStaysFinished
<1>1. Inv /\ [Next]_vars =>
        [\A j \in Jobs :
           ~bull[j].drop /\ IsTerminal(jobRuns[j]) => jobRuns'[j].status = jobRuns[j].status]_vars
  <2> SUFFICES ASSUME Inv, [Next]_vars, NEW j \in Jobs, ~bull[j].drop, IsTerminal(jobRuns[j])
               PROVE  jobRuns'[j].status = jobRuns[j].status
    OBVIOUS
  <2>1. RowInv /\ RowInv' /\ RowsKept /\ Moves
    BY BullStep, RowStep DEF Inv
  <2>2. IsTerminal(jobRuns'[j])
    BY <2>1 DEF RowsKept
  <2>3. HasRow(jobRuns[j]) /\ HasRow(jobRuns'[j])
    BY <2>2 DEF HasRow, NoRow, IsTerminal, Terminal, None
  <2>4. jobRuns[j].status = bull[j].outcome /\ jobRuns'[j].status = bull'[j].outcome
    BY <2>1, <2>2, <2>3 DEF RowInv, Shows
  <2> QED
    BY <2>1, <2>4 DEF Moves, Step, IsTerminal, Terminal, None
<1> QED
  BY Invariant, <1>1, PTL DEF Spec, FinishedStaysFinished

(* Reconciliation never erases the tags of a row.                          *)
THEOREM TagsKept == Spec => TagsSurvive
<1>1. Inv /\ [Next]_vars => [\A j \in Jobs : jobRuns[j].tagged => jobRuns'[j].tagged]_vars
  BY RowStep DEF RowsKept
<1> QED
  BY Invariant, <1>1, PTL DEF Spec, TagsSurvive
=============================================================================
