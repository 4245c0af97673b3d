------------------------------- MODULE JobRuns -------------------------------
(***************************************************************************)
(* The row of a job in Postgres: job-format.ts turns what BullMQ says of a *)
(* job into a row, job-upsert.ts merges a batch of such rows into the      *)
(* table.                                                                  *)
(*                                                                         *)
(* A snapshot is the part of job.toJSON() the row depends on: is           *)
(* finishedOn set, and is failedReason non-empty.                          *)
(***************************************************************************)

EXTENDS Naturals

Terminal == {"completed", "failed"}

(* JOB_TYPES of reconcile-jobs.ts, which the status column shares.         *)
Live == {"waiting", "active", "delayed", "prioritized", "waiting-children"}

Statuses == Terminal \union Live \union {"unknown"}

(* undefined, in the code.                                                 *)
None == "none"

Snapshot == [finished : BOOLEAN, failed : BOOLEAN]

Run == [status : Statuses, finished : BOOLEAN, error : BOOLEAN, tagged : BOOLEAN]

(* The value of a job without a row.                                       *)
NoRow == [status |-> None, finished |-> FALSE, error |-> FALSE, tagged |-> FALSE]

HasRow(row) == row # NoRow

IsTerminal(row) == row.status \in Terminal

-----------------------------------------------------------------------------
(* bullStateToPersistedStatus                                              *)
PersistedState(state) ==
  IF state \in Terminal \union Live THEN state
  ELSE IF state \in {"wait", "paused"} THEN "waiting" ELSE None

(* Mutant of StatusFromSnapshot: a terminal event is taken at its word,    *)
(* without looking at finishedOn.                                          *)
StatusFromPhase(snap, phase, state) ==
  IF PersistedState(state) # None THEN PersistedState(state)
  ELSE IF phase = "terminal" THEN (IF snap.failed THEN "failed" ELSE "completed")
  ELSE IF phase = "waiting" THEN "waiting" ELSE "active"

(* Mutant of StatusFromSnapshot: no default for a job that runs.           *)
StatusWithoutDefault(snap, phase, state) ==
  IF PersistedState(state) # None THEN PersistedState(state)
  ELSE IF snap.finished THEN (IF snap.failed THEN "failed" ELSE "completed")
  ELSE PersistedState(phase)

(* getStatusFromSnapshot                                                   *)
StatusFromSnapshot(snap, phase, state) ==
  IF PersistedState(state) # None THEN PersistedState(state)
  ELSE IF snap.finished THEN (IF snap.failed THEN "failed" ELSE "completed")
  ELSE IF phase = "waiting" THEN "waiting" ELSE "active"

FormatJobRun(snap, phase, state, tagged) ==
  [ status   |-> StatusFromSnapshot(snap, phase, state),
    finished |-> snap.finished,
    error    |-> snap.failed,
    tagged   |-> tagged ]

-----------------------------------------------------------------------------
(* The last row of each job wins within a batch; run[i] is the i-th row of *)
(* it, of job jobOf[i].                                                    *)
LastRuns(S, jobOf, run) ==
  LET Last(j) == CHOOSE i \in S : jobOf[i] = j /\ \A k \in S : jobOf[k] = j => k <= i
  IN  [j \in {jobOf[i] : i \in S} |-> run[Last(j)]]

(* Mutant of MergedStatus: the CASE of statusUpdateSql is forgotten.       *)
NewestStatus(old, new) == new.status

(* statusUpdateSql: a terminal status gives way to a terminal one only.    *)
MergedStatus(old, new) ==
  IF IsTerminal(old) /\ ~IsTerminal(new) THEN old.status ELSE new.status

(* Mutant of MergedTags: tags are overwritten like any other column.       *)
NewestTags(old, new) == new.tagged

(* tagsUpdateSql: an event without tags keeps the tags of the row.         *)
MergedTags(old, new) == new.tagged \/ old.tagged

(* ON CONFLICT DO UPDATE: the other columns are those of the new row.      *)
MergeRow(old, new) ==
  [new EXCEPT !.status = MergedStatus(old, new), !.tagged = MergedTags(old, new)]

(* upsertJobRuns: runs maps the jobs of a batch to their deduplicated row. *)
UpsertJobRuns(table, runs) ==
  [j \in DOMAIN table |->
     IF j \notin DOMAIN runs THEN table[j]
     ELSE IF HasRow(table[j]) THEN MergeRow(table[j], runs[j])
     ELSE runs[j]]

=============================================================================
