------------------------ MODULE JobCancellationProofs ------------------------
(***************************************************************************)
(* What JobCancellation keeps, for every number of queues, jobs, callers,  *)
(* attempts and requests: types, and that a row is recorded as failed only *)
(* if a process on its channel was told to stop or its attempt failed.     *)
(***************************************************************************)
EXTENDS JobCancellation, SequenceTheorems, TLAPS

-----------------------------------------------------------------------------
(* Types.                                                                  *)

(* The row of an event has its type; it says failed for the last attempt.  *)
LEMMA EventRow ==
  ASSUME NEW phase \in {"waiting", "active", "terminal"}, NEW finished \in BOOLEAN,
         NEW failed \in BOOLEAN
  PROVE  LET row == FormatJobRun([finished |-> finished, failed |-> failed], phase,
                                 IF phase = "terminal" THEN None ELSE phase, FALSE) IN
         /\ row \in Run
         /\ row.status = "failed" => finished /\ failed
BY DEF FormatJobRun, StatusFromSnapshot, PersistedState, Run, Statuses, Terminal, Live, None

(* An event goes to the end of the stream.                                 *)
LEMMA EmitType ==
  ASSUME stream \in Seq(StreamRow), NEW j \in Jobs, NEW phase \in {"waiting", "active", "terminal"},
         NEW finished \in BOOLEAN, NEW failed \in BOOLEAN, Emit(j, phase, finished, failed)
  PROVE  /\ stream' \in Seq(StreamRow)
         /\ \A n \in DOMAIN stream' :
              \/ n \in DOMAIN stream /\ stream'[n] = stream[n]
              \/ stream'[n].job = j /\ (stream'[n].run.status = "failed" => finished /\ failed)
<1> DEFINE run == FormatJobRun([finished |-> finished, failed |-> failed], phase,
                               IF phase = "terminal" THEN None ELSE phase, FALSE)
<1>1. run \in Run /\ (run.status = "failed" => finished /\ failed)
  BY EventRow
<1>2. stream' = Append(stream, [job |-> j, run |-> run])
  BY DEF Emit
<1> HIDE DEF run
<1>3. [job |-> j, run |-> run] \in StreamRow
  BY <1>1 DEF StreamRow
<1>4. PICK e \in StreamRow : e.job = j /\ e.run = run /\ stream' = Append(stream, e)
  BY <1>2, <1>3
<1> QED
  BY <1>1, <1>4

(* Ingestion takes the first event; its row is that of the event, or the   *)
(* old one merged with it.                                                 *)
LEMMA IngestType ==
  ASSUME TypeOK, Ingest
  PROVE  /\ stream # <<>> /\ Head(stream) \in StreamRow
         /\ stream' \in Seq(StreamRow) /\ Len(stream') = Len(stream) - 1
         /\ \A n \in DOMAIN stream' : n + 1 \in DOMAIN stream /\ stream'[n] = stream[n + 1]
         /\ jobRuns' \in [Jobs -> Run \union {NoRow}]
         /\ \A j \in Jobs :
              \/ jobRuns'[j].status = jobRuns[j].status
              \/ j = Head(stream).job /\ jobRuns'[j].status = Head(stream).run.status
<1> DEFINE head == Head(stream)
<1>1. stream # <<>> /\ stream \in Seq(StreamRow) /\ stream' = Tail(stream)
      /\ jobRuns \in [Jobs -> Run \union {NoRow}]
      /\ jobRuns' = UpsertJobRuns(jobRuns, [j \in {head.job} |-> head.run])
  BY DEF Ingest, TypeOK
<1>2. head \in StreamRow
  BY <1>1
<1>3. head.job \in Jobs /\ head.run \in Run
  BY <1>2 DEF StreamRow
<1>4. /\ stream' \in Seq(StreamRow) /\ Len(stream') = Len(stream) - 1
      /\ \A n \in DOMAIN stream' : n + 1 \in DOMAIN stream /\ stream'[n] = stream[n + 1]
  BY <1>1
<1> HIDE DEF head
<1>5. ASSUME NEW j \in Jobs
      PROVE  /\ jobRuns'[j] \in Run \union {NoRow}
             /\ \/ jobRuns'[j].status = jobRuns[j].status
                \/ j = head.job /\ jobRuns'[j].status = head.run.status
  <2>1. CASE j # head.job
    BY <1>1, <2>1 DEF UpsertJobRuns
  <2>2. CASE j = head.job /\ ~HasRow(jobRuns[j])
    BY <1>1, <1>3, <2>2 DEF UpsertJobRuns
  <2>3. CASE j = head.job /\ HasRow(jobRuns[j])
    <3>1. jobRuns'[j] = MergeRow(jobRuns[j], head.run) /\ jobRuns[j] \in Run
      BY <1>1, <2>3 DEF UpsertJobRuns, HasRow
    <3>2. /\ MergeRow(jobRuns[j], head.run) \in Run
          /\ MergeRow(jobRuns[j], head.run).status \in {jobRuns[j].status, head.run.status}
      BY <1>3, <3>1 DEF MergeRow, MergedStatus, MergedTags, Run
    <3> QED
      BY <2>3, <3>1, <3>2
  <2> QED
    BY <2>1, <2>2, <2>3
<1>6. jobRuns' = [j \in Jobs |-> jobRuns'[j]]
  BY <1>1 DEF UpsertJobRuns
<1>7. jobRuns' \in [Jobs -> Run \union {NoRow}]
  BY <1>5, <1>6
<1> QED
  BY <1>1, <1>2, <1>4, <1>5, <1>7 DEF head

(* The initial state is typed.                                             *)
LEMMA InitType == Init => TypeOK
BY CancellationAssumption DEF Init, TypeOK, BullJob, BullStates, Calls, Idle, StreamRow, Listening

(* A job and its process change together; what has been sent to the        *)
(* process is lost with it.                                                *)
LEMMA JobMoves ==
  ASSUME TypeOK, NEW j \in Jobs, bull' \in [Jobs -> BullJob],
         child' \in [Jobs -> {"none", "starting", "running", "heard"}],
         \A i \in Jobs \ {j} : bull'[i] = bull[i] /\ child'[i] = child[i],
         child'[j] # "none" <=> bull'[j].state = "active",
         pings' \subseteq pings, j \in pings' => child'[j] \in {"running", "heard"},
         stream' \in Seq(StreamRow), calls' \in 0..MaxCalls, faults' \in 0..MaxFaults,
         UNCHANGED <<call, jobRuns>>,
         pongs' \subseteq pongs \union {u \in Callers : call[u].at = "shake"}
  PROVE  TypeOK'
<1>1. pings' \subseteq Listening'
  BY DEF TypeOK, Listening
<1> QED
  BY <1>1 DEF TypeOK

(* The steps of a job and of the process that runs it.                     *)
LEMMA WorkType ==
  ASSUME TypeOK, NEW j \in Jobs, Work(j)
  PROVE  TypeOK'
<1>0. /\ bull \in [Jobs -> BullJob] /\ stream \in Seq(StreamRow)
      /\ child \in [Jobs -> {"none", "starting", "running", "heard"}]
      /\ child[j] # "none" <=> bull[j].state = "active"
      /\ pings \subseteq Listening /\ calls \in 0..MaxCalls /\ faults \in 0..MaxFaults
  BY DEF TypeOK
<1>b. bull[j].state \in BullStates /\ bull[j].tries \in Nat
  BY <1>0 DEF BullJob
<1> USE <1>0, <1>b
<1>1. CASE AddJob(j)
  <2>1. stream' \in Seq(StreamRow)
    BY <1>1, EmitType DEF AddJob
  <2>2. /\ bull' \in [Jobs -> BullJob] /\ \A i \in Jobs \ {j} : bull'[i] = bull[i]
        /\ bull'[j].state = "waiting" /\ UNCHANGED <<child, pings>>
    BY <1>1 DEF AddJob, BullJob, BullStates
  <2> QED
    BY <1>1, <2>1, <2>2, JobMoves DEF AddJob, callVars, Listening
<1>2. CASE PickUp(j)
  <2>1. stream' \in Seq(StreamRow)
    BY <1>2, EmitType DEF PickUp
  <2>2. /\ bull' \in [Jobs -> BullJob] /\ bull'[j].state = "active" /\ child[j] = "none"
        /\ \A i \in Jobs \ {j} : bull'[i] = bull[i]
    BY <1>2 DEF PickUp, BullJob, BullStates
  <2> QED
    BY <1>2, <2>1, <2>2, JobMoves DEF PickUp, callVars, Listening
<1>3. CASE Listen(j)
  BY <1>3, JobMoves DEF Listen, callVars
<1>4. CASE Return(j)
  <2>1. stream' \in Seq(StreamRow)
    BY <1>4, EmitType DEF Return
  <2>2. /\ bull' \in [Jobs -> BullJob] /\ bull'[j].state = "completed"
        /\ \A i \in Jobs \ {j} : bull'[i] = bull[i]
    BY <1>4 DEF Return, BullJob, BullStates
  <2> QED
    BY <1>4, <2>1, <2>2, JobMoves DEF Return, Stop, callVars
<1>5. CASE RunFails(j) \/ Throw(j)
  <2> DEFINE last == bull[j].tries + 1 >= MaxAttempts
  <2>0. last \in BOOLEAN /\ FailAttempt(j) /\ Stop(j) /\ UNCHANGED <<callVars, jobRuns, calls, faults>>
    BY <1>5 DEF RunFails, Throw
  <2>1. stream' \in Seq(StreamRow)
    BY <2>0, EmitType DEF FailAttempt
  <2>2. PICK at \in {"failed", "waiting"} :
          bull' = [bull EXCEPT ![j].state = at, ![j].tries = @ + 1]
    BY <2>0 DEF FailAttempt
  <2>3. /\ bull' \in [Jobs -> BullJob] /\ bull'[j].state = at
        /\ \A i \in Jobs \ {j} : bull'[i] = bull[i]
    BY <2>2 DEF BullJob, BullStates
  <2>4. /\ child' \in [Jobs -> {"none", "starting", "running", "heard"}] /\ child'[j] = "none"
        /\ \A i \in Jobs \ {j} : child'[i] = child[i]
        /\ pings' \subseteq pings /\ j \notin pings'
    BY <2>0 DEF Stop
  <2>5. UNCHANGED <<call, pongs, jobRuns, calls, faults>>
    BY <2>0 DEF callVars
  <2> QED
    BY <2>1, <2>3, <2>4, <2>5, JobMoves DEF TypeOK
<1>6. CASE Stall(j)
  <2>1. faults' \in 0..MaxFaults
    BY <1>6, CancellationAssumption DEF Stall, Bound
  <2>2. /\ bull' \in [Jobs -> BullJob] /\ bull'[j].state = "waiting"
        /\ \A i \in Jobs \ {j} : bull'[i] = bull[i]
    BY <1>6 DEF Stall, BullJob, BullStates
  <2> QED
    BY <1>6, <2>1, <2>2, JobMoves DEF Stall, Stop, callVars
<1>7. CASE Replay(j)
  <2>1. stream' \in Seq(StreamRow)
    BY <1>7, EmitType DEF Replay
  <2>2. /\ bull' \in [Jobs -> BullJob] /\ bull'[j].state = "waiting" /\ child[j] = "none"
        /\ \A i \in Jobs \ {j} : bull'[i] = bull[i]
    BY <1>7 DEF Replay, BullJob, BullStates
  <2>3. calls' \in 0..MaxCalls
    BY <1>7, CancellationAssumption DEF Replay, Bound
  <2> QED
    BY <1>7, <2>1, <2>2, <2>3, JobMoves DEF Replay, callVars, Listening
<1>8. CASE HearPing(j)
  <2>1. child[j] \in {"running", "heard"} /\ Answered(j) \subseteq {u \in Callers : call[u].at = "shake"}
    BY <1>8 DEF HearPing, Listening, Answered
  <2> QED
    BY <1>8, <2>1, JobMoves DEF HearPing
<1> QED
  BY <1>1, <1>2, <1>3, <1>4, <1>5, <1>6, <1>7, <1>8 DEF Work

(* A caller goes on; it no longer waits for the answers it has had.        *)
LEMMA CallMoves ==
  ASSUME TypeOK, NEW u \in Callers, call' \in [Callers -> Calls],
         \A v \in Callers \ {u} : call'[v] = call[v],
         pongs' \subseteq pongs, u \in pongs' => call'[u].at = "shake",
         calls' \in 0..MaxCalls, jobRuns' \in [Jobs -> Run \union {NoRow}],
         UNCHANGED <<bullVars, stream, faults>>
  PROVE  TypeOK'
<1>1. UNCHANGED <<bull, child, pings>> /\ pings' \subseteq Listening'
  BY DEF bullVars, TypeOK, Listening
<1>2. ASSUME NEW v \in pongs' PROVE call'[v].at = "shake"
  <2>1. CASE v = u
    BY <2>1
  <2>2. CASE v # u
    <3>1. v \in Callers /\ call[v].at = "shake"
      BY DEF TypeOK
    <3> QED
      BY <2>2, <3>1
  <2> QED
    BY <2>1, <2>2
<1> QED
  BY <1>1, <1>2 DEF TypeOK

(* The steps of a caller.                                                  *)
LEMMA CallType ==
  ASSUME TypeOK, NEW u \in Callers, (\E j \in Jobs : Cancel(u, j)) \/ CancelJob(u)
  PROVE  TypeOK'
<1>0. /\ call \in [Callers -> Calls] /\ call[u] \in Calls /\ calls \in 0..MaxCalls
      /\ u \in pongs => call[u].at = "shake"
      /\ jobRuns \in [Jobs -> Run \union {NoRow}]
  BY DEF TypeOK
<1>i. Idle \in Calls /\ Idle.at = "idle"
  BY DEF Idle, Calls
<1> USE <1>0, <1>i
<1>1. ASSUME NEW j \in Jobs, Cancel(u, j) PROVE TypeOK'
  <2>1. call' \in [Callers -> Calls]
    BY <1>1 DEF Cancel, Calls
  <2>2. calls' \in 0..MaxCalls
    BY <1>1, CancellationAssumption DEF Cancel, Bound
  <2> QED
    BY <1>1, <2>1, <2>2, CallMoves DEF Cancel
<1>2. CASE GetJob(u) \/ GetState(u)
  <2>1. call' \in [Callers -> Calls]
    BY <1>2 DEF GetJob, GetState, Goto, Calls
  <2> QED
    BY <1>2, <2>1, CallMoves DEF GetJob, GetState, Goto
<1>3. CASE Remove(u)
  <2> DEFINE j == call[u].job
  <2>1. /\ call' \in [Callers -> Calls] /\ \A v \in Callers \ {u} : call'[v] = call[v]
        /\ u \notin pongs
    BY <1>3 DEF Remove, Goto, Calls
  <2>2. CASE bull[j].state = "active"
    BY <1>3, <2>1, <2>2, CallMoves DEF Remove, bullVars
  <2>3. CASE bull[j].state # "active"
    <3>1. /\ bull' = [bull EXCEPT ![j].state = "removed"]
          /\ UNCHANGED <<child, pings, pongs, stream, jobRuns, calls, faults>>
      BY <1>3, <2>3 DEF Remove
    <3>2. bull' \in [Jobs -> BullJob] /\ \A i \in Jobs : bull[i].state = "active" <=> bull'[i].state = "active"
      <4>1. bull \in [Jobs -> BullJob]
        BY DEF TypeOK
      <4> QED
        BY <2>3, <3>1, <4>1 DEF BullJob, BullStates
    <3>3. pings' \subseteq Listening'
      BY <3>1 DEF TypeOK, Listening
    <3>4. ASSUME NEW v \in pongs' PROVE v \in Callers /\ call'[v].at = "shake"
      BY <2>1, <3>1 DEF TypeOK
    <3> QED
      BY <2>1, <3>1, <3>2, <3>3, <3>4 DEF TypeOK
  <2> QED
    BY <2>2, <2>3
<1>4. CASE SubscribePong(u)
  <2>1. call' \in [Callers -> Calls] /\ call'[u].at = "shake"
    BY <1>4 DEF SubscribePong, Calls
  <2> QED
    BY <1>4, <2>1, CallMoves DEF SubscribePong
<1>5. CASE Ping(u)
  <2>1. pings' \subseteq Listening' /\ UNCHANGED <<call, pongs>>
    BY <1>5 DEF Ping, Listening, TypeOK, callVars
  <2> QED
    BY <1>5, <2>1 DEF Ping, TypeOK
<1>6. CASE GetPong(u)
  <2>1. call' \in [Callers -> Calls]
    BY <1>6 DEF GetPong, Calls
  <2> QED
    BY <1>6, <2>1, CallMoves DEF GetPong
<1>7. CASE TimeOut(u)
  BY <1>7, CallMoves DEF TimeOut
<1>8. CASE SelectRow(u)
  <2>1. call' \in [Callers -> Calls]
    BY <1>8 DEF SelectRow, Calls
  <2> QED
    BY <1>8, <2>1, CallMoves DEF SelectRow
<1>9. CASE UpdateRow(u)
  <2> DEFINE j == call[u].job
  <2>1. jobRuns' \in [Jobs -> Run \union {NoRow}]
    <3>1. jobRuns' = [jobRuns EXCEPT ![j].status = "failed", ![j].error = TRUE]
      BY <1>9 DEF UpdateRow
    <3> HIDE DEF j
    <3>3. CASE j \in Jobs
      <4>1. jobRuns' = [i \in Jobs |-> IF i = j THEN [jobRuns[j] EXCEPT !.status = "failed", !.error = TRUE]
                                       ELSE jobRuns[i]]
        BY <3>1, <3>3
      <4>2. ASSUME NEW row \in Run \union {NoRow}
            PROVE  [row EXCEPT !.status = "failed", !.error = TRUE] \in Run
        <5>1. CASE row \in Run
          BY <5>1 DEF Run, Statuses, Terminal
        <5>2. CASE row = NoRow
          BY <5>2 DEF NoRow, Run, Statuses, Terminal
        <5> QED
          BY <5>1, <5>2
      <4>3. jobRuns[j] \in Run \union {NoRow}
        BY <3>3
      <4>4. [jobRuns[j] EXCEPT !.status = "failed", !.error = TRUE] \in Run
        BY <4>2, <4>3
      <4> QED
        BY <4>1, <4>4
    <3>4. CASE j \notin Jobs
      BY <3>1, <3>4
    <3> QED
      BY <3>3, <3>4
  <2> QED
    BY <1>9, <2>1, CallMoves DEF UpdateRow
<1> QED
  BY <1>1, <1>2, <1>3, <1>4, <1>5, <1>6, <1>7, <1>8, <1>9 DEF CancelJob

(* Every step keeps types.                                                 *)
LEMMA NextType == TypeOK /\ [Next]_vars => TypeOK'
<1> SUFFICES ASSUME TypeOK, [Next]_vars PROVE TypeOK'
  OBVIOUS
<1>1. ASSUME NEW j \in Jobs, Work(j) PROVE TypeOK'
  BY <1>1, WorkType
<1>2. ASSUME NEW u \in Callers, (\E j \in Jobs : Cancel(u, j)) \/ CancelJob(u) PROVE TypeOK'
  BY <1>2, CallType
<1>3. ASSUME Ingest PROVE TypeOK'
  <2>1. /\ stream' \in Seq(StreamRow) /\ jobRuns' \in [Jobs -> Run \union {NoRow}]
        /\ UNCHANGED <<bull, child, pings, call, pongs, calls, faults>> /\ Listening' = Listening
    BY <1>3, IngestType DEF Ingest, bullVars, callVars, Listening
  <2> QED
    BY <2>1 DEF TypeOK
<1>4. ASSUME UNCHANGED vars PROVE TypeOK'
  BY <1>4 DEF vars, TypeOK, bullVars, callVars, Listening
<1> QED
  BY <1>1, <1>2, <1>3, <1>4 DEF Next

(* Every variable has its type, for every value of the constants: the      *)
(* messages of the handshake are on their way only to processes that       *)
(* listen and to callers that wait.                                        *)
THEOREM TypeHolds == Spec => []TypeOK
BY InitType, NextType, PTL DEF Spec

-----------------------------------------------------------------------------
(* Who was told to stop.                                                   *)

(* The job's process has heard that it is to stop, or the job is past      *)
(* what could: an attempt failed, it completed, it was removed.            *)
Told(j) == child[j] = "heard" \/ bull[j].tries > 0 \/ bull[j].state \in {"completed", "removed"}

(* A job whose channel this job's cancellation uses is.                    *)
ChannelTold(j) == \E i \in Jobs : SameChannel(i, j) /\ Told(i)

(* A job that failed made an attempt.                                      *)
FailedTried == \A j \in Jobs : bull[j].state = "failed" => bull[j].tries > 0

(* Whoever cancels cancels a job that was added.                           *)
CallsKnown ==
  \A u \in Callers : call[u].at # "idle" => call[u].job \in Jobs /\ bull[call[u].job].state # "none"

(* Answers, callers on their way to the row, events of failed jobs on      *)
(* their way and failed rows all come from a job that was told.            *)
AnswersTold ==
  \A u \in Callers : u \in pongs \/ call[u].at \in {"row", "update"} => ChannelTold(call[u].job)
EventsTold ==
  \A n \in DOMAIN stream : stream[n].run.status = "failed" => bull[stream[n].job].tries > 0
RowsTold == \A j \in Jobs : jobRuns[j].status = "failed" => ChannelTold(j)

(* A process that dies takes what it heard with it: until then.            *)
Inv == TypeOK /\ FailedTried /\ CallsKnown
       /\ (faults = 0 => AnswersTold /\ EventsTold /\ RowsTold)

(* What a step leaves of a job.                                            *)
Keeps(j) ==
  /\ bull[j].state # "none" => bull'[j].state # "none"
  /\ bull'[j].tries >= bull[j].tries
  /\ bull'[j].state = "failed" => bull'[j].tries > 0
  /\ faults' = 0 /\ Told(j) => Told(j)'

(* All jobs but one, and their processes, are as they were.                *)
OthersRest(j) == \A i \in Jobs \ {j} : bull'[i] = bull[i] /\ child'[i] = child[i]

(* What is new in the stream is of one job; it says failed only after an   *)
(* attempt.                                                                *)
EventsOf(j) ==
  /\ stream' \in Seq(StreamRow)
  /\ \A n \in DOMAIN stream' :
       \/ n \in DOMAIN stream /\ stream'[n] = stream[n]
       \/ stream'[n].job = j /\ (stream'[n].run.status = "failed" => bull'[j].tries > 0)

(* A step of a job's own keeps that of every job, and adds an event that   *)
(* says failed only after an attempt.                                      *)
LEMMA WorkKeeps ==
  ASSUME TypeOK, FailedTried, NEW j \in Jobs, Work(j)
  PROVE  (\A i \in Jobs : Keeps(i)) /\ EventsOf(j)
<1>0. /\ bull \in [Jobs -> BullJob] /\ stream \in Seq(StreamRow)
      /\ child \in [Jobs -> {"none", "starting", "running", "heard"}]
      /\ child[j] # "none" <=> bull[j].state = "active"
      /\ bull[j].state \in BullStates /\ bull[j].tries \in Nat /\ faults \in Nat
      /\ bull[j].state = "failed" => bull[j].tries > 0
  BY CancellationAssumption DEF TypeOK, BullJob, FailedTried
<1>s. SUFFICES OthersRest(j) /\ Keeps(j) /\ EventsOf(j)
  <2>1. ASSUME NEW i \in Jobs, i # j, OthersRest(j) PROVE Keeps(i)
    <3>1. bull'[i] = bull[i] /\ child'[i] = child[i] /\ bull[i].tries \in Nat
          /\ (bull[i].state = "failed" => bull[i].tries > 0)
      BY <1>0, <2>1 DEF OthersRest, BullJob, FailedTried
    <3> QED
      BY <3>1 DEF Keeps, Told
  <2> QED
    BY <2>1
<1> USE <1>0
<1>1. CASE AddJob(j)
  <2>1. EventsOf(j)
    <3>1. Emit(j, "waiting", FALSE, FALSE)
      BY <1>1 DEF AddJob
    <3> QED
      BY <3>1, EmitType DEF EventsOf
  <2>2. OthersRest(j) /\ Keeps(j)
    BY <1>1 DEF AddJob, OthersRest, Keeps, Told, BullJob, BullStates
  <2> QED
    BY <2>1, <2>2
<1>2. CASE PickUp(j)
  <2>1. EventsOf(j)
    <3>1. Emit(j, "active", FALSE, FALSE)
      BY <1>2 DEF PickUp
    <3> QED
      BY <3>1, EmitType DEF EventsOf
  <2>2. OthersRest(j) /\ Keeps(j)
    BY <1>2 DEF PickUp, OthersRest, Keeps, Told, BullJob, BullStates
  <2> QED
    BY <2>1, <2>2
<1>3. CASE Listen(j)
  BY <1>3 DEF Listen, OthersRest, EventsOf, Keeps, Told
<1>4. CASE Return(j)
  <2>1. EventsOf(j)
    <3>1. Emit(j, "terminal", TRUE, FALSE)
      BY <1>4 DEF Return
    <3> QED
      BY <3>1, EmitType DEF EventsOf
  <2>2. OthersRest(j) /\ Keeps(j)
    BY <1>4 DEF Return, Stop, OthersRest, Keeps, Told, BullJob, BullStates
  <2> QED
    BY <2>1, <2>2
<1>5. CASE RunFails(j) \/ Throw(j)
  <2>0. FailAttempt(j) /\ Stop(j) /\ UNCHANGED faults
    BY <1>5 DEF RunFails, Throw
  <2>1. PICK at \in {"failed", "waiting"} :
          bull' = [bull EXCEPT ![j].state = at, ![j].tries = @ + 1]
    BY <2>0 DEF FailAttempt
  <2>2. bull'[j].state = at /\ bull'[j].tries = bull[j].tries + 1
        /\ \A i \in Jobs \ {j} : bull'[i] = bull[i]
    BY <2>1 DEF BullJob, BullStates
  <2>3. OthersRest(j) /\ Keeps(j)
    BY <2>0, <2>2 DEF Stop, OthersRest, Keeps, Told
  <2>4. /\ stream' \in Seq(StreamRow)
        /\ \A n \in DOMAIN stream' :
             \/ n \in DOMAIN stream /\ stream'[n] = stream[n]
             \/ stream'[n].job = j
    <3>1. Emit(j, "terminal", TRUE, TRUE) \/ Emit(j, "terminal", FALSE, TRUE)
      <4>1. CASE bull[j].tries + 1 >= MaxAttempts
        BY <2>0, <4>1 DEF FailAttempt, Emit
      <4>2. CASE ~ (bull[j].tries + 1 >= MaxAttempts)
        <5>1. (bull[j].tries + 1 >= MaxAttempts) = FALSE
          BY <4>2
        <5> QED
          BY <2>0, <5>1, Zenon DEF FailAttempt
      <4> QED
        BY <4>1, <4>2
    <3> QED
      BY <3>1, EmitType
  <2>5. EventsOf(j)
    BY <2>2, <2>4 DEF EventsOf
  <2> QED
    BY <2>3, <2>5
<1>6. CASE Stall(j)
  BY <1>6 DEF Stall, Stop, OthersRest, EventsOf, Keeps, Told, BullJob, BullStates
<1>7. CASE Replay(j)
  <2>1. EventsOf(j)
    <3>1. Emit(j, "waiting", FALSE, FALSE)
      BY <1>7 DEF Replay
    <3> QED
      BY <3>1, EmitType DEF EventsOf
  <2>2. OthersRest(j) /\ Keeps(j)
    BY <1>7 DEF Replay, OthersRest, Keeps, Told, BullJob, BullStates
  <2> QED
    BY <2>1, <2>2
<1>8. CASE HearPing(j)
  BY <1>8 DEF HearPing, OthersRest, EventsOf, Keeps, Told
<1> QED
  BY <1>1, <1>2, <1>3, <1>4, <1>5, <1>6, <1>7, <1>8 DEF Work

(* A caller's steps, and those of ingestion, keep that of every job.       *)
LEMMA OthersKeep ==
  ASSUME TypeOK, FailedTried,
         Ingest \/ \E u \in Callers : CancelJob(u) \/ \E j \in Jobs : Cancel(u, j)
  PROVE  \A j \in Jobs : Keeps(j)
<1> SUFFICES ASSUME NEW j \in Jobs PROVE Keeps(j)
  OBVIOUS
<1>0. /\ bull \in [Jobs -> BullJob] /\ child[j] # "none" <=> bull[j].state = "active"
      /\ bull[j].tries \in Nat /\ (bull[j].state = "failed" => bull[j].tries > 0)
  BY DEF TypeOK, BullJob, FailedTried
<1>1. CASE UNCHANGED <<bull, child, faults>>
  BY <1>0, <1>1 DEF Keeps, Told
<1>2. ASSUME NEW u \in Callers, Remove(u) PROVE Keeps(j)
  <2>1. CASE UNCHANGED bull
    BY <1>0, <1>2, <2>1 DEF Remove, Keeps, Told
  <2>2. CASE /\ bull[call[u].job].state # "active"
             /\ bull' = [bull EXCEPT ![call[u].job].state = "removed"]
    BY <1>0, <1>2, <2>2 DEF Remove, Keeps, Told, BullJob, BullStates
  <2> QED
    BY <1>2, <2>1, <2>2 DEF Remove
<1>3. ASSUME NEW u \in Callers, CancelJob(u), ~Remove(u) PROVE UNCHANGED <<bull, child, faults>>
  BY <1>3 DEF CancelJob, GetJob, GetState, SubscribePong, Ping, GetPong, TimeOut, SelectRow,
              UpdateRow, bullVars
<1>4. ASSUME NEW u \in Callers, NEW i \in Jobs, Cancel(u, i) PROVE UNCHANGED <<bull, child, faults>>
  BY <1>4 DEF Cancel, bullVars
<1>5. ASSUME Ingest PROVE UNCHANGED <<bull, child, faults>>
  BY <1>5 DEF Ingest, bullVars
<1> QED
  BY <1>1, <1>2, <1>3, <1>4, <1>5

(* Who was told stays told, as long as no process dies.                    *)
LEMMA ChannelStays ==
  ASSUME \A i \in Jobs : Keeps(i), NEW j, faults' = 0, ChannelTold(j)
  PROVE  ChannelTold(j)'
BY DEF ChannelTold, Keeps, SameChannel

(* A job is on its own channel.                                            *)
LEMMA OwnChannel == \A j \in Jobs : (Told(j) => ChannelTold(j)) /\ (Told(j)' => ChannelTold(j)')
BY DEF ChannelTold, SameChannel

(* Failed events are told of while the events go on and jobs are tried.    *)
LEMMA EventsGoOn ==
  ASSUME TypeOK, TypeOK', EventsTold, \A i \in Jobs : Keeps(i),
         \A n \in DOMAIN stream' :
           \/ \E m \in DOMAIN stream : stream'[n] = stream[m]
           \/ stream'[n].run.status = "failed" => bull'[stream'[n].job].tries > 0
  PROVE  EventsTold'
<1> SUFFICES ASSUME NEW n \in DOMAIN stream', stream'[n].run.status = "failed"
             PROVE  bull'[stream'[n].job].tries > 0
  BY DEF EventsTold
<1>1. CASE \E m \in DOMAIN stream : stream'[n] = stream[m]
  <2>1. PICK m \in DOMAIN stream : stream'[n] = stream[m]
    BY <1>1
  <2>2. stream[m] \in StreamRow
    BY DEF TypeOK
  <2>3. PICK j \in Jobs : j = stream[m].job
    BY <2>2 DEF StreamRow
  <2>4. bull[j].tries \in Nat /\ bull'[j].tries \in Nat /\ bull[j].tries > 0
    BY <2>1, <2>3 DEF TypeOK, BullJob, EventsTold
  <2> QED
    BY <2>1, <2>3, <2>4 DEF Keeps
<1> QED
  BY <1>1

(* Which steps change what a caller cancels, and how.                      *)
LEMMA CallsGoOn ==
  ASSUME CallsKnown, \A j \in Jobs : Keeps(j),
         \A u \in Callers :
           \/ call'[u].at = "idle"
           \/ call'[u].job = call[u].job /\ call[u].at # "idle"
           \/ call'[u].job \in Jobs /\ bull[call'[u].job].state # "none"
  PROVE  CallsKnown'
BY DEF CallsKnown, Keeps

(* Rows and answers are told of while steps that add none go on.           *)
LEMMA AnswersGoOn ==
  ASSUME AnswersTold, \A j \in Jobs : Keeps(j), faults' = 0,
         \A u \in Callers :
           u \in pongs' \/ call'[u].at \in {"row", "update"} =>
             \/ /\ call'[u].job = call[u].job
                /\ u \in pongs \/ call[u].at \in {"row", "update"}
             \/ (ChannelTold(call[u].job))'
  PROVE  AnswersTold'
<1> SUFFICES ASSUME NEW u \in Callers, u \in pongs' \/ call'[u].at \in {"row", "update"}
             PROVE  (ChannelTold(call[u].job))'
  BY DEF AnswersTold
<1>1. CASE /\ call'[u].job = call[u].job
           /\ u \in pongs \/ call[u].at \in {"row", "update"}
  <2>1. PICK j : j = call[u].job
    OBVIOUS
  <2>2. ChannelTold(j)
    BY <1>1, <2>1 DEF AnswersTold
  <2>3. ChannelTold(j)'
    BY <2>2, ChannelStays
  <2> QED
    BY <1>1, <2>1, <2>3 DEF ChannelTold
<1> QED
  BY <1>1

(* A step of a job's own keeps the invariant.                              *)
LEMMA WorkInv ==
  ASSUME Inv, NEW j \in Jobs, Work(j)
  PROVE  Inv'
<1>1. TypeOK /\ TypeOK' /\ FailedTried /\ CallsKnown
  BY WorkType DEF Inv
<1>2. (\A i \in Jobs : Keeps(i)) /\ EventsOf(j)
  BY <1>1, WorkKeeps
<1>3. FailedTried'
  BY <1>2 DEF FailedTried, Keeps
<1>4. call' = call /\ jobRuns' = jobRuns /\ (faults' = 0 => faults = 0)
  <2>1. CASE Stall(j)
    BY <1>1, <2>1 DEF Stall, callVars, TypeOK
  <2>2. CASE AddJob(j) \/ PickUp(j) \/ Listen(j) \/ Replay(j) \/ HearPing(j)
    BY <2>2 DEF AddJob, PickUp, Listen, Replay, HearPing, callVars
  <2>3. CASE Return(j) \/ RunFails(j) \/ Throw(j)
    BY <2>3 DEF Return, RunFails, Throw, callVars
  <2> QED
    BY <2>1, <2>2, <2>3 DEF Work
<1>5. CallsKnown'
  BY <1>1, <1>2, <1>4, CallsGoOn DEF CallsKnown
<1>6. ASSUME faults' = 0 PROVE AnswersTold' /\ EventsTold' /\ RowsTold'
  <2>0. AnswersTold /\ EventsTold /\ RowsTold
    BY <1>4, <1>6 DEF Inv
  <2>1. EventsTold'
    BY <1>1, <1>2, <2>0, EventsGoOn DEF EventsOf
  <2>2. RowsTold'
    BY <1>2, <1>4, <1>6, <2>0, ChannelStays DEF RowsTold
  <2>3. \A u \in Callers : u \in pongs' => u \in pongs \/ (ChannelTold(call[u].job))'
    <3>1. CASE pongs' = pongs
      BY <3>1
    <3>2. ASSUME HearPing(j), NEW u \in Callers, u \in Answered(j) PROVE (ChannelTold(call[u].job))'
      <4>1. SameChannel(j, call'[u].job)
        BY <1>4, <3>2 DEF Answered, SameChannel
      <4>2. child'[j] = "heard"
        BY <1>1, <3>2 DEF HearPing, TypeOK
      <4> QED
        BY <4>1, <4>2 DEF ChannelTold, Told
    <3>3. CASE HearPing(j)
      BY <3>2, <3>3 DEF HearPing
    <3> QED
      BY <3>1, <3>3 DEF Work, AddJob, PickUp, Listen, Return, RunFails, Stall, Replay, Throw,
                        callVars
  <2>4. AnswersTold'
    BY <1>2, <1>4, <1>6, <2>0, <2>3, AnswersGoOn
  <2> QED
    BY <2>1, <2>2, <2>4
<1> QED
  BY <1>1, <1>3, <1>5, <1>6 DEF Inv

(* So does a caller's request.                                             *)
LEMMA CancelInv ==
  ASSUME Inv, NEW u \in Callers, NEW j \in Jobs, Cancel(u, j)
  PROVE  Inv'
<1>1. TypeOK /\ TypeOK' /\ FailedTried /\ CallsKnown
  BY CallType DEF Inv
<1>2. \A i \in Jobs : Keeps(i)
  BY <1>1, OthersKeep
<1>3. /\ UNCHANGED <<bull, child, stream, jobRuns, pongs, faults>>
      /\ call'[u].at = "getJob" /\ call'[u].job = j /\ bull[j].state # "none"
      /\ call[u].at = "idle"
      /\ \A v \in Callers \ {u} : call'[v] = call[v]
  BY <1>1 DEF Cancel, bullVars, TypeOK, Idle
<1>4. FailedTried' /\ (EventsTold => EventsTold') /\ (RowsTold => RowsTold')
  BY <1>1, <1>3 DEF FailedTried, EventsTold, RowsTold, ChannelTold, Told
<1>5. CallsKnown'
  BY <1>1, <1>2, <1>3, CallsGoOn DEF CallsKnown
<1>6. u \notin pongs
  BY <1>1, <1>3 DEF TypeOK
<1>7. faults' = 0 /\ AnswersTold => AnswersTold'
  BY <1>2, <1>3, <1>6, AnswersGoOn
<1> QED
  BY <1>1, <1>3, <1>4, <1>5, <1>7 DEF Inv

(* Steps of a caller that leave the table as it is.                        *)
LEMMA CallInv ==
  ASSUME Inv, NEW u \in Callers, CancelJob(u)
  PROVE  Inv'
<1>1. TypeOK /\ TypeOK' /\ FailedTried /\ CallsKnown
  BY CallType DEF Inv
<1>2. \A i \in Jobs : Keeps(i)
  BY <1>1, OthersKeep
<1> DEFINE j == call[u].job
<1>3. /\ UNCHANGED <<stream, faults>> /\ pongs' \subseteq pongs
      /\ \A v \in Callers \ {u} : call'[v] = call[v]
      /\ call'[u].at = "idle" \/ (call'[u].job = j /\ call[u].at # "idle")
  <2>1. CASE GetJob(u) \/ GetState(u) \/ Remove(u)
    BY <1>1, <2>1 DEF GetJob, GetState, Remove, Goto, TypeOK, Calls
  <2>2. CASE SubscribePong(u) \/ Ping(u)
    BY <1>1, <2>2 DEF SubscribePong, Ping, callVars, TypeOK, Calls
  <2>3. CASE GetPong(u) \/ TimeOut(u)
    BY <1>1, <2>3 DEF GetPong, TimeOut, TypeOK, Calls, Idle
  <2>4. CASE SelectRow(u) \/ UpdateRow(u)
    BY <1>1, <2>4 DEF SelectRow, UpdateRow, TypeOK, Calls, Idle
  <2> QED
    BY <2>1, <2>2, <2>3, <2>4 DEF CancelJob
<1>4. FailedTried'
  BY <1>2 DEF FailedTried, Keeps
<1>5. CallsKnown'
  BY <1>1, <1>2, <1>3, CallsGoOn DEF CallsKnown
<1>6. ASSUME faults' = 0 PROVE AnswersTold' /\ EventsTold' /\ RowsTold'
  <2>0. AnswersTold /\ EventsTold /\ RowsTold
    BY <1>3, <1>6 DEF Inv
  <2>1. EventsTold'
    BY <1>1, <1>2, <1>3, <2>0, EventsGoOn
  <2>2. ASSUME call'[u].at \in {"row", "update"}
        PROVE  \/ u \in pongs \/ call[u].at \in {"row", "update"}
               \/ (ChannelTold(call[u].job))'
    <3>1. CASE GetJob(u) \/ GetState(u) \/ Remove(u)
      <4>1. PICK i \in Jobs : i = j /\ bull[i].state # "none" /\ i = call'[u].job
        BY <1>1, <1>3, <2>2, <3>1 DEF CallsKnown, GetJob, GetState, Remove
      <4>2. Told(i)'
        <5>1. CASE GetJob(u)
          BY <1>1, <2>2, <4>1, <5>1 DEF GetJob, Goto, Told, TypeOK, Calls, bullVars
        <5>2. CASE GetState(u)
          BY <1>1, <2>2, <4>1, <5>2 DEF GetState, Goto, Told, TypeOK, Calls, Terminal,
             FailedTried, bullVars
        <5>3. CASE Remove(u)
          BY <1>1, <2>2, <4>1, <5>3 DEF Remove, Goto, Told, TypeOK, Calls, BullJob
        <5> QED
          BY <3>1, <5>1, <5>2, <5>3
      <4> QED
        BY <4>1, <4>2, OwnChannel
    <3>2. CASE SubscribePong(u) \/ Ping(u)
      <4>1. CASE SubscribePong(u)
        BY <1>1, <2>2, <4>1 DEF SubscribePong, TypeOK, Calls
      <4>2. CASE Ping(u)
        BY <2>2, <4>2 DEF Ping, callVars
      <4> QED
        BY <3>2, <4>1, <4>2
    <3>3. CASE GetPong(u) \/ TimeOut(u)
      BY <1>1, <2>2, <3>3 DEF GetPong, TimeOut, TypeOK, Idle
    <3>4. CASE SelectRow(u) \/ UpdateRow(u)
      BY <1>1, <2>2, <3>4 DEF SelectRow, UpdateRow, TypeOK, Idle
    <3> QED
      BY <3>1, <3>2, <3>3, <3>4 DEF CancelJob
  <2>r. ASSUME NEW v \in Callers, v \in pongs' \/ call'[v].at \in {"row", "update"}
        PROVE  \/ /\ call'[v].job = call[v].job
                  /\ v \in pongs \/ call[v].at \in {"row", "update"}
               \/ (ChannelTold(call[v].job))'
    <3>1. CASE v # u
      BY <1>3, <2>r, <3>1
    <3>2. CASE v = u
      <4>1. call'[u].at # "idle"
        BY <1>1, <2>r, <3>2 DEF TypeOK
      <4>2. call'[u].job = j
        BY <1>3, <4>1
      <4> QED
        BY <1>3, <2>r, <2>2, <3>2, <4>2
    <3> QED
      BY <3>1, <3>2
  <2>3. AnswersTold'
    BY <1>2, <1>6, <2>0, <2>r, AnswersGoOn
  <2>4. RowsTold'
    <3>1. CASE jobRuns' = jobRuns
      BY <1>2, <1>6, <2>0, <3>1, ChannelStays DEF RowsTold
    <3>2. CASE UpdateRow(u)
      <4>1. ChannelTold(j)
        BY <2>0, <3>2 DEF UpdateRow, AnswersTold
      <4>2. PICK i : i = j
        OBVIOUS
      <4>3. ChannelTold(i)'
        BY <1>2, <1>6, <4>1, <4>2, ChannelStays
      <4>4. \A k \in Jobs : k # i => jobRuns'[k] = jobRuns[k]
        BY <1>1, <3>2, <4>2 DEF UpdateRow, TypeOK
      <4> HIDE DEF j
      <4>5. ASSUME NEW k \in Jobs, jobRuns'[k].status = "failed" PROVE ChannelTold(k)'
        <5>1. CASE k = i
          BY <4>3, <5>1
        <5>2. CASE k # i
          BY <1>2, <1>6, <2>0, <4>4, <4>5, <5>2, ChannelStays DEF RowsTold
        <5> QED
          BY <5>1, <5>2
      <4> QED
        BY <4>5 DEF RowsTold
    <3> QED
      BY <3>1, <3>2 DEF CancelJob, GetJob, GetState, Remove, SubscribePong, Ping, GetPong, TimeOut,
                        SelectRow
  <2> QED
    BY <2>1, <2>3, <2>4
<1> QED
  BY <1>1, <1>4, <1>5, <1>6 DEF Inv

(* And ingestion, which takes the rows of the events to the table.         *)
LEMMA IngestInv ==
  ASSUME Inv, Ingest, TypeOK'
  PROVE  Inv'
<1>1. TypeOK /\ FailedTried /\ CallsKnown
  BY DEF Inv
<1>2. \A i \in Jobs : Keeps(i)
  BY <1>1, OthersKeep
<1>3. UNCHANGED <<bull, child, pings, call, pongs, calls, faults>>
  BY DEF Ingest, bullVars, callVars
<1>4. FailedTried' /\ CallsKnown' /\ (AnswersTold => AnswersTold')
  BY <1>1, <1>3 DEF FailedTried, CallsKnown, AnswersTold, ChannelTold, Told
<1>5. ASSUME AnswersTold, EventsTold, RowsTold PROVE EventsTold' /\ RowsTold'
  <2>1. EventsTold'
    BY <1>1, <1>2, <1>5, IngestType, EventsGoOn
  <2>2. PICK head \in StreamRow : head = Head(stream) /\ head = stream[1] /\ 1 \in DOMAIN stream
    BY <1>1, IngestType
  <2>3. head.run.status = "failed" => Told(head.job)
    BY <1>5, <2>2 DEF EventsTold, Told
  <2>4. ASSUME NEW j \in Jobs, jobRuns'[j].status = "failed" PROVE ChannelTold(j)
    <3>1. CASE jobRuns[j].status = "failed"
      BY <1>5, <3>1 DEF RowsTold
    <3>2. CASE jobRuns[j].status # "failed"
      BY <1>1, <2>2, <2>3, <2>4, <3>2, IngestType, OwnChannel
    <3> QED
      BY <3>1, <3>2
  <2>5. RowsTold'
    BY <1>3, <2>4 DEF RowsTold, ChannelTold, Told
  <2> QED
    BY <2>1, <2>5
<1> QED
  BY <1>1, <1>3, <1>4, <1>5 DEF Inv

(* The invariant holds.                                                    *)
LEMMA InvHolds == Spec => []Inv
<1>1. Init => Inv
  BY InitType DEF Init, Inv, FailedTried, CallsKnown, AnswersTold, EventsTold, RowsTold, Idle,
                  NoRow, None
<1>2. Inv /\ [Next]_vars => Inv'
  <2> SUFFICES ASSUME Inv, [Next]_vars PROVE Inv'
    OBVIOUS
  <2>1. TypeOK'
    BY NextType DEF Inv
  <2>2. ASSUME UNCHANGED vars PROVE Inv'
    BY <2>1, <2>2 DEF vars, bullVars, callVars, Inv, FailedTried, CallsKnown, AnswersTold, EventsTold,
                      RowsTold, ChannelTold, Told
  <2> QED
    BY <2>1, <2>2, WorkInv, CancelInv, CallInv, IngestInv DEF Next
<1> QED
  BY <1>1, <1>2, PTL DEF Spec

(* As long as no process has died, a row says failed only if the process   *)
(* of a job on its channel was told to stop, or that job is past it. The   *)
(* channel is named after an id, which jobs of other queues may have.      *)
THEOREM FailedRowsWereTold ==
  Spec => [](faults = 0 => \A j \in Jobs : jobRuns[j].status = "failed" => ChannelTold(j))
<1>1. Inv => (faults = 0 => \A j \in Jobs : jobRuns[j].status = "failed" => ChannelTold(j))
  BY DEF Inv, RowsTold
<1> QED
  BY <1>1, InvHolds, PTL

(* Where an id is of one job, as in a system with one queue, a job on its  *)
(* first attempt that has not been told to stop is not recorded as failed, *)
(* whoever cancels it and whichever caller gives up.                       *)
THEOREM TimedOutLeavesTheRow ==
  ASSUME \A i, j \in Jobs : Id(i) = Id(j) => i = j
  PROVE  Spec => []UnheardNotFailed
<1>1. Inv => UnheardNotFailed
  <2> SUFFICES ASSUME Inv, NEW j \in Jobs, faults = 0, child[j] \in {"starting", "running"},
                      bull[j].tries = 0, jobRuns[j].status = "failed"
               PROVE  FALSE
    BY DEF UnheardNotFailed
  <2>1. Told(j)
    BY DEF Inv, RowsTold, ChannelTold, SameChannel
  <2>2. bull[j].state = "active"
    BY DEF Inv, TypeOK
  <2> QED
    BY <2>1, <2>2 DEF Told
<1> QED
  BY <1>1, InvHolds, PTL
=============================================================================
