-------------------------- MODULE LogPipelineProofs --------------------------
(***************************************************************************)
(* What LogPipeline keeps, for every number of jobs, processes, replicas   *)
(* and lines: types, the place of a line in its process, the lines of the  *)
(* first job of a process, the foreign key of job_logs and, from the       *)
(* stream to the table, a line for every key that was printed.             *)
(***************************************************************************)
EXTENDS LogPipeline, TLAPS

-----------------------------------------------------------------------------
(* Where a process is and the lines it has printed; what flushConsoleRelay *)
(* waits for, which is all of them in the first job only.                  *)

Busy(p) == proc[p].at \in {"run", "flush"} => proc[p].job \in Jobs

Counted(p) ==
  IF proc[p].lines = 0 THEN proc[p].lastTs = 0 /\ proc[p].counter = 0
                       ELSE proc[p].counter < proc[p].lines

AwaitsOwn(p) ==
  proc[p].calls = 1 => /\ proc[p].at = "flush" => Own(p) \subseteq proc[p].awaits
                       /\ proc[p].at = "done" => Own(p) = {}

ProcInv == \A p \in Procs : Busy(p) /\ Counted(p) /\ AwaitsOwn(p) /\ proc[p].lastTs <= clock

Inv == TypeOK /\ ProcInv

(* The initial state is typed.                                             *)
LEMMA InitInv == Init => Inv
BY LogAssumption DEF Init, Inv, TypeOK, ProcInv, Busy, Counted, AwaitsOwn, ProcState, SyncState,
   SolverState, Waiting, Resting, At, Own

(* A line is typed, and leaves its process in a state of its type.         *)
LEMMA PrintLineInv ==
  ASSUME Inv, NEW p \in Procs, NEW now \in clock..MaxClock, PrintLine(p, now)
  PROVE  Inv'
<1> DEFINE l == [job |-> proc[p].job, ts |-> now, seq |-> NextSeq(p, now),
                 text |-> <<p, proc[p].lines + 1>>]
<1>1. /\ proc[p] \in ProcState /\ proc[p].at = "run" /\ proc[p].lines < MaxLogs
      /\ proc[p].job \in Jobs /\ Counted(p) /\ proc[p].lastTs <= clock /\ clock \in 1..MaxClock
      /\ clock' = now /\ pending' = pending \union {l}
      /\ proc' = [proc EXCEPT ![p].lastTs = l.ts, ![p].counter = l.seq, ![p].lines = @ + 1]
      /\ UNCHANGED <<failed, sent, stream, row, tables, sync, solver, lock, faults>>
  BY DEF Inv, TypeOK, ProcInv, Busy, PrintLine
<1>2. /\ proc[p].lines \in 0..MaxLogs /\ proc[p].lastTs \in 0..MaxClock
      /\ proc[p].counter \in 0..MaxLogs /\ proc[p].calls \in 0..MaxCalls
      /\ proc[p].awaits \in SUBSET Line
  BY <1>1 DEF ProcState
<1>3. NextSeq(p, now) \in 0..proc[p].lines /\ now \in 1..MaxClock
  BY <1>1, <1>2, LogAssumption DEF NextSeq, Counted
<1>4. l \in Line
  BY <1>1, <1>2, <1>3, LogAssumption DEF Line, Text
<1>5. proc' \in [Procs -> ProcState]
  BY <1>1, <1>2, <1>3, LogAssumption DEF Inv, TypeOK, ProcState
<1>6. TypeOK'
  BY <1>1, <1>3, <1>4, <1>5 DEF Inv, TypeOK, tables
<1>7. ASSUME NEW q \in Procs
      PROVE  (Busy(q) /\ Counted(q) /\ AwaitsOwn(q) /\ proc[q].lastTs <= clock)'
  <2>1. CASE q = p
    BY <1>1, <1>2, <1>3, <2>1, LogAssumption
       DEF Inv, TypeOK, ProcInv, Busy, Counted, AwaitsOwn, ProcState
  <2>2. CASE q # p
    <3>1. proc'[q] = proc[q] /\ Own(q)' = Own(q)
      BY <1>1, <2>2 DEF Inv, TypeOK, Own
    <3>2. proc'[q].lastTs <= clock'
      BY <1>1, <1>3, <3>1 DEF Inv, TypeOK, ProcInv, ProcState
    <3>3. Busy(q) /\ Counted(q) /\ AwaitsOwn(q)
      BY DEF Inv, ProcInv
    <3> QED
      BY <3>1, <3>2, <3>3 DEF Busy, Counted, AwaitsOwn
  <2> QED
    BY <2>1, <2>2
<1> QED
  BY <1>6, <1>7 DEF Inv, ProcInv

(* A process that is given a job, returns, is flushed, throws or dies: its *)
(* own state stays that of a process, and no line is added.                *)
LEMMA ProcessMoves ==
  ASSUME Inv, NEW p \in Procs, proc' \in [Procs -> ProcState],
         \A q \in Procs \ {p} : proc'[q] = proc[q],
         proc'[p].lines = proc[p].lines, proc'[p].lastTs = proc[p].lastTs,
         proc'[p].counter = proc[p].counter, Busy(p)', AwaitsOwn(p)',
         pending' \subseteq pending, faults' \in 0..MaxFaults,
         UNCHANGED <<clock, failed, sent, stream, row, tables, sync, solver, lock>>
  PROVE  Inv'
<1>1. TypeOK'
  BY DEF Inv, TypeOK, tables
<1>2. ASSUME NEW q \in Procs
      PROVE  (Busy(q) /\ Counted(q) /\ AwaitsOwn(q) /\ proc[q].lastTs <= clock)'
  <2>0. Busy(q) /\ Counted(q) /\ AwaitsOwn(q) /\ proc[q].lastTs <= clock
    BY DEF Inv, ProcInv
  <2>1. CASE q = p
    BY <2>0, <2>1 DEF Counted
  <2>2. CASE q # p
    <3>1. proc'[q] = proc[q] /\ Own(q)' \subseteq Own(q)
      BY <2>2 DEF Own
    <3> QED
      BY <2>0, <3>1 DEF Busy, Counted, AwaitsOwn
  <2> QED
    BY <2>1, <2>2
<1> QED
  BY <1>1, <1>2 DEF Inv, ProcInv

(* The actions of a process.                                               *)
LEMMA WorkInv ==
  ASSUME Inv, NEW p \in Procs, Work(p)
  PROVE  Inv'
<1>0. /\ proc \in [Procs -> ProcState] /\ proc[p] \in ProcState /\ pending \subseteq Line
      /\ Busy(p) /\ AwaitsOwn(p) /\ faults \in 0..MaxFaults
  BY DEF Inv, TypeOK, ProcInv
<1>t. /\ proc[p].calls \in 0..MaxCalls /\ proc[p].job \in Jobs \union {NoJob}
      /\ proc[p].awaits \in SUBSET Line
  BY <1>0 DEF ProcState
<1> USE <1>0, <1>t
<1>1. ASSUME NEW j \in Jobs, StartJob(p, j) PROVE Inv'
  <2>1. proc' \in [Procs -> ProcState]
    BY <1>1, LogAssumption DEF StartJob, ProcState
  <2>2. Busy(p)' /\ AwaitsOwn(p)'
    BY <1>1 DEF StartJob, Busy, AwaitsOwn
  <2> QED
    BY <1>1, <2>1, <2>2, ProcessMoves DEF StartJob
<1>2. ASSUME NEW now \in clock..MaxClock, PrintLine(p, now) PROVE Inv'
  BY <1>2, PrintLineInv
<1>3. ASSUME RunReturns(p) PROVE Inv'
  <2>1. Own(p) \subseteq Line /\ Own(p)' = Own(p)
    BY <1>3 DEF RunReturns, Own
  <2>2. proc' \in [Procs -> ProcState]
    BY <1>3, <2>1 DEF RunReturns, Awaited, ProcState
  <2>3. Busy(p)' /\ AwaitsOwn(p)'
    BY <1>3, <2>1 DEF RunReturns, Awaited, Busy, AwaitsOwn
  <2> QED
    BY <1>3, <2>2, <2>3, ProcessMoves DEF RunReturns
<1>4. ASSUME Flushed(p) PROVE Inv'
  <2>1. Own(p) \subseteq pending /\ Own(p)' = Own(p)
    BY <1>4 DEF Flushed, Own
  <2>2. proc' \in [Procs -> ProcState]
    BY <1>4 DEF Flushed, ProcState
  <2>3. Busy(p)' /\ AwaitsOwn(p)'
    BY <1>4, <2>1 DEF Flushed, Busy, AwaitsOwn
  <2> QED
    BY <1>4, <2>2, <2>3, ProcessMoves DEF Flushed
<1>5. ASSUME RunThrows(p) PROVE Inv'
  <2>1. proc' \in [Procs -> ProcState]
    BY <1>5 DEF RunThrows, ProcState
  <2>2. Busy(p)' /\ AwaitsOwn(p)'
    BY <1>5 DEF RunThrows, Busy, AwaitsOwn
  <2> QED
    BY <1>5, <2>1, <2>2, ProcessMoves DEF RunThrows
<1>6. ASSUME ProcDies(p) PROVE Inv'
  <2>1. proc' \in [Procs -> ProcState]
    BY <1>6 DEF ProcDies, ProcState
  <2>2. Busy(p)' /\ AwaitsOwn(p)'
    BY <1>6 DEF ProcDies, Busy, AwaitsOwn
  <2>3. faults' \in 0..MaxFaults /\ pending' \subseteq pending
    BY <1>6, LogAssumption DEF ProcDies, Fault
  <2> QED
    BY <1>6, <2>1, <2>2, <2>3, ProcessMoves DEF ProcDies
<1> QED
  BY <1>1, <1>2, <1>3, <1>4, <1>5, <1>6 DEF Work

(* Whatever leaves the processes alone, and adds no line to those on their *)
(* way, leaves ProcInv.                                                    *)
LEMMA ProcessesRest ==
  ASSUME ProcInv, UNCHANGED <<clock, proc>>, pending' \subseteq pending
  PROVE  ProcInv'
<1>1. ASSUME NEW p \in Procs
      PROVE  (Busy(p) /\ Counted(p) /\ AwaitsOwn(p) /\ proc[p].lastTs <= clock)'
  <2>1. Busy(p) /\ Counted(p) /\ AwaitsOwn(p) /\ proc[p].lastTs <= clock
    BY DEF ProcInv
  <2>2. Own(p)' \subseteq Own(p)
    BY DEF Own
  <2> QED
    BY <2>1, <2>2 DEF Busy, Counted, AwaitsOwn
<1> QED
  BY <1>1 DEF ProcInv

(* What an INSERT adds is among what it was given.                         *)
LEMMA NewToIsNew ==
  ASSUME NEW T, NEW L
  PROVE  NewTo(T, L) \subseteq L
<1>1. ASSUME NEW M, NEW x \in OnePerKey(M) PROVE x \in M
  <2>1. PICK k \in {Key(m) : m \in M} : x = CHOOSE m \in M : Key(m) = k
    BY DEF OnePerKey
  <2> QED
    BY <2>1
<1> QED
  BY <1>1 DEF NewTo

(* An INSERT leaves, for every line it was given, one of its key.          *)
LEMMA NewToHasEveryKey ==
  ASSUME NEW T, NEW L, NEW l \in L
  PROVE  \E m \in T \union NewTo(T, L) : Key(m) = Key(l)
<1> DEFINE M == {x \in L : \A m \in T : Key(m) # Key(x)}
<1>1. CASE l \in M
  <2> DEFINE m == CHOOSE x \in M : Key(x) = Key(l)
  <2>1. m \in M /\ Key(m) = Key(l)
    BY <1>1
  <2>2. m \in OnePerKey(M)
    BY <1>1 DEF OnePerKey
  <2>3. NewTo(T, L) = OnePerKey(M)
    BY DEF NewTo
  <2> QED
    BY <2>1, <2>2, <2>3
<1>2. CASE l \notin M
  BY <1>2
<1> QED
  BY <1>1, <1>2

(* A state of the stream loop of a replica, and of its resolver.           *)
LEMMA SyncMoves ==
  ASSUME Inv, NEW r \in Replicas, sync' \in [Replicas -> SyncState],
         \A q \in Replicas \ {r} : sync'[q] = sync[q],
         sync'[r].todo \union sync'[r].rest \subseteq sync'[r].batch,
         stream' \subseteq stream, jobLogs' \subseteq Line, buffer' \subseteq BufferRow,
         inserts' \in Nat, \A b \in buffer' : b.at < inserts', faults' \in 0..MaxFaults,
         UNCHANGED <<procVars, sent, row, solver, lock>>
  PROVE  Inv'
<1>1. ProcInv'
  BY ProcessesRest DEF Inv, procVars
<1>2. stream' \subseteq sent' /\ sent' \subseteq Line /\ UNCHANGED <<clock, proc, pending, failed>>
  BY DEF Inv, TypeOK, procVars
<1>3. \A q \in Replicas : sync'[q].todo \union sync'[q].rest \subseteq sync'[q].batch
  BY DEF Inv, TypeOK
<1> QED
  BY <1>1, <1>2, <1>3 DEF Inv, TypeOK

(* The steps of the stream loop.                                           *)
LEMMA SyncInv ==
  ASSUME Inv, NEW r \in Replicas, Sync(r) \/ FailSync(r)
  PROVE  Inv'
<1>0. /\ sync \in [Replicas -> SyncState] /\ sync[r] \in SyncState /\ stream \subseteq Line
      /\ sync[r].todo \union sync[r].rest \subseteq sync[r].batch
      /\ jobLogs \subseteq Line /\ buffer \subseteq BufferRow /\ faults \in 0..MaxFaults
      /\ inserts \in Nat /\ \A b \in buffer : b.at < inserts
  BY DEF Inv, TypeOK
<1>t. /\ sync[r].batch \in SUBSET Line /\ sync[r].todo \in SUBSET Line
      /\ sync[r].rest \in SUBSET Line
  BY <1>0 DEF SyncState
<1>w. Waiting \in SyncState /\ Waiting.todo \union Waiting.rest \subseteq Waiting.batch
  BY DEF Waiting, SyncState
<1> USE <1>0, <1>t, <1>w
<1>1. ASSUME NEW B \in SUBSET stream, Receive(r, B) PROVE Inv'
  <2>1. Holding(B) \in SyncState
    BY DEF Holding, SyncState
  <2>2. Holding(B).todo \union Holding(B).rest \subseteq Holding(B).batch
    BY DEF Holding
  <2> QED
    BY <1>1, <2>1, <2>2, SyncMoves DEF Receive, tables
<1>2. ASSUME ResolveJobRunIds(r) PROVE Inv'
  <2>1. Resolved(sync[r].batch) \subseteq sync[r].batch
    BY DEF Resolved
  <2>2. /\ sync' \in [Replicas -> SyncState] /\ sync'[r].batch = sync[r].batch
        /\ sync'[r].todo = Resolved(sync[r].batch)
        /\ sync'[r].rest = sync[r].batch \ Resolved(sync[r].batch)
    BY <1>2, <2>1 DEF ResolveJobRunIds, SyncState
  <2> QED
    BY <1>2, <2>1, <2>2, SyncMoves DEF ResolveJobRunIds, tables
<1>3. ASSUME InsertResolvedLogs(r) PROVE Inv'
  <2>1. PICK C \in SUBSET sync[r].todo :
          InsertChunk(sync[r].todo, C) /\ sync' = [sync EXCEPT ![r].todo = @ \ C]
    BY <1>3 DEF InsertResolvedLogs
  <2>2. jobLogs' \subseteq Line
    BY <2>1, NewToIsNew DEF InsertChunk
  <2>3. /\ sync' \in [Replicas -> SyncState] /\ sync'[r].batch = sync[r].batch
        /\ sync'[r].todo = sync[r].todo \ C /\ sync'[r].rest = sync[r].rest
    BY <2>1 DEF SyncState
  <2> QED
    BY <1>3, <2>1, <2>2, <2>3, SyncMoves DEF InsertResolvedLogs, InsertChunk
<1>4. ASSUME BufferUnresolvedLogs(r) PROVE Inv'
  <2> DEFINE new == NewTo(Buffered, sync[r].rest)
  <2>1. new \subseteq Line
    BY NewToIsNew
  <2>2. /\ buffer' = buffer \union {[line |-> l, at |-> inserts] : l \in new}
        /\ inserts' = IF new = {} THEN inserts ELSE inserts + 1
        /\ sync' = [sync EXCEPT ![r].at = "ack"]
    BY <1>4 DEF BufferUnresolvedLogs
  <2> HIDE DEF new
  <2>3. buffer' \subseteq BufferRow /\ inserts' \in Nat /\ \A b \in buffer' : b.at < inserts'
    <3>1. CASE new = {}
      BY <2>2, <3>1
    <3>2. CASE new # {}
      BY <2>1, <2>2, <3>2 DEF BufferRow
    <3> QED
      BY <3>1, <3>2
  <2>4. /\ sync' \in [Replicas -> SyncState] /\ sync'[r].batch = sync[r].batch
        /\ sync'[r].todo = sync[r].todo /\ sync'[r].rest = sync[r].rest
    BY <2>2 DEF SyncState
  <2> QED
    BY <1>4, <2>2, <2>3, <2>4, SyncMoves DEF BufferUnresolvedLogs
<1>5. ASSUME AckAndDelete(r) PROVE Inv'
  BY <1>5, SyncMoves DEF AckAndDelete, tables
<1>6. ASSUME InsertRejected(r) PROVE Inv'
  BY <1>6, SyncMoves DEF InsertRejected, tables
<1>7. ASSUME FailSync(r) PROVE Inv'
  <2>1. faults' \in 0..MaxFaults
    BY <1>7, LogAssumption DEF FailSync, Fault
  <2> QED
    BY <1>7, <2>1, SyncMoves DEF FailSync, tables
<1> QED
  BY <1>1, <1>2, <1>3, <1>4, <1>5, <1>6, <1>7 DEF Sync

(* The lines a resolver is about to insert are of rows it has selected.    *)
Selected(r) ==
  solver[r].at = "insert" => \A l \in solver[r].todo : \E b \in solver[r].rows : b.line = l

(* A state of the resolver of a replica.                                   *)
LEMMA SolverMoves ==
  ASSUME Inv, NEW r \in Resolvers, solver' \in [Resolvers -> SolverState],
         \A q \in Resolvers \ {r} : solver'[q] = solver[q],
         Selected(r)', jobLogs' \subseteq Line, buffer' \subseteq buffer,
         lock' \in Resolvers \union {Nobody}, faults' \in 0..MaxFaults,
         UNCHANGED <<procVars, sent, stream, row, inserts, sync>>
  PROVE  Inv'
<1>1. ProcInv'
  BY ProcessesRest DEF Inv, procVars
<1>2. /\ buffer' \subseteq BufferRow /\ \A b \in buffer' : b.at < inserts'
      /\ UNCHANGED <<clock, proc, pending, failed>>
  BY DEF Inv, TypeOK, procVars
<1>3. ASSUME NEW q \in Resolvers PROVE Selected(q)'
  BY DEF Inv, TypeOK, Selected
<1> QED
  BY <1>1, <1>2, <1>3 DEF Inv, TypeOK, Selected

(* The steps of the resolver.                                              *)
LEMMA ResolveInv ==
  ASSUME Inv, NEW r \in Resolvers, Resolve(r) \/ FailSolver(r)
  PROVE  Inv'
<1>0. /\ solver \in [Resolvers -> SolverState] /\ solver[r] \in SolverState
      /\ Selected(r) /\ jobLogs \subseteq Line /\ buffer \subseteq BufferRow /\ faults \in 0..MaxFaults
      /\ lock \in Resolvers \union {Nobody}
  BY DEF Inv, TypeOK, Selected
<1>t. solver[r].rows \in SUBSET BufferRow /\ solver[r].todo \in SUBSET Line
  BY <1>0 DEF SolverState
<1>w. /\ At("rest") \in SolverState /\ At("release") \in SolverState /\ Resting = At("rest")
      /\ At("rest").at = "rest" /\ At("release").at = "release"
  BY DEF At, Resting, SolverState
<1> USE <1>0, <1>t, <1>w
<1>1. ASSUME AcquireLock(r) PROVE Inv'
  <2>1. solver' \in [Resolvers -> SolverState] /\ Selected(r)'
    BY <1>1 DEF AcquireLock, SolverState, Selected
  <2> QED
    BY <1>1, <2>1, SolverMoves DEF AcquireLock, tables
<1>2. ASSUME SelectBuffered(r) PROVE Inv'
  <2>1. PICK S \in SUBSET buffer :
          solver' = [solver EXCEPT ![r].at = IF S = {} THEN "release" ELSE "resolve", ![r].rows = S]
    BY <1>2 DEF SelectBuffered
  <2>2. S \in SUBSET BufferRow
    OBVIOUS
  <2>3. solver' \in [Resolvers -> SolverState]
    BY <2>1, <2>2 DEF SolverState
  <2>4. Selected(r)'
    BY <2>1 DEF Selected
  <2> QED
    BY <1>2, <2>1, <2>3, <2>4, SolverMoves DEF SelectBuffered, tables
<1>3. ASSUME ResolveBuffered(r) PROVE Inv'
  <2> DEFINE found == {b \in solver[r].rows : row[b.line.job] = "live"}
             lines == {b.line : b \in found}
  <2>1. solver' = [solver EXCEPT ![r].at = "insert", ![r].rows = found, ![r].todo = lines]
    BY <1>3 DEF ResolveBuffered
  <2>2. found \in SUBSET BufferRow /\ \A l \in lines : \E b \in found : b.line = l
    OBVIOUS
  <2>3. lines \in SUBSET Line
    BY <2>2 DEF BufferRow
  <2> HIDE DEF found, lines
  <2>4. solver' \in [Resolvers -> SolverState]
    BY <2>1, <2>2, <2>3 DEF SolverState
  <2>5. Selected(r)'
    BY <2>1, <2>2 DEF Selected
  <2> QED
    BY <1>3, <2>1, <2>4, <2>5, SolverMoves DEF ResolveBuffered, tables
<1>4. ASSUME InsertBuffered(r) PROVE Inv'
  <2>1. PICK C \in SUBSET solver[r].todo :
          InsertChunk(solver[r].todo, C) /\ solver' = [solver EXCEPT ![r].todo = @ \ C]
    BY <1>4 DEF InsertBuffered
  <2>2. jobLogs' \subseteq Line
    BY <2>1, NewToIsNew DEF InsertChunk
  <2>3. solver' \in [Resolvers -> SolverState]
    BY <2>1 DEF SolverState
  <2>4. Selected(r)'
    BY <2>1 DEF Selected
  <2> QED
    BY <1>4, <2>1, <2>2, <2>3, <2>4, SolverMoves DEF InsertBuffered, InsertChunk
<1>5. ASSUME DeleteResolved(r) PROVE Inv'
  BY <1>5, SolverMoves DEF DeleteResolved, Selected
<1>6. ASSUME BufferedInsertRejected(r) PROVE Inv'
  BY <1>6, SolverMoves DEF BufferedInsertRejected, tables, Selected
<1>7. ASSUME ReleaseLock(r) PROVE Inv'
  BY <1>7, SolverMoves DEF ReleaseLock, tables, Selected
<1>8. ASSUME FailSolver(r) PROVE Inv'
  <2>1. faults' \in 0..MaxFaults
    BY <1>8, LogAssumption DEF FailSolver, Fault
  <2> QED
    BY <1>8, <2>1, SolverMoves DEF FailSolver, tables, Selected
<1> QED
  BY <1>1, <1>2, <1>3, <1>4, <1>5, <1>6, <1>7, <1>8 DEF Resolve

(* Every step keeps types and processes.                                   *)
LEMMA NextInv == Inv /\ [Next]_vars => Inv'
<1> SUFFICES ASSUME Inv, [Next]_vars PROVE Inv'
  OBVIOUS
<1>1. ASSUME NEW p \in Procs, Work(p) PROVE Inv'
  BY <1>1, WorkInv
<1>2. ASSUME NEW l \in pending, XaddDone(l) PROVE Inv'
  <2>1. pending' \subseteq pending /\ ProcInv'
    BY <1>2, ProcessesRest DEF XaddDone, Inv
  <2> QED
    BY <1>2, <2>1 DEF XaddDone, Inv, TypeOK, tables
<1>3. ASSUME NEW l \in pending, XaddFails(l) PROVE Inv'
  <2>1. pending' \subseteq pending /\ ProcInv'
    BY <1>3, ProcessesRest DEF XaddFails, Inv
  <2>2. faults' \in 0..MaxFaults
    BY <1>3, LogAssumption DEF XaddFails, Fault, Inv, TypeOK
  <2> QED
    BY <1>3, <2>1, <2>2 DEF XaddFails, Inv, TypeOK, tables
<1>4. ASSUME NEW j \in Jobs, RowAppears(j) \/ RowExpires(j) PROVE Inv'
  <2>1. ProcInv'
    BY <1>4, ProcessesRest DEF RowAppears, RowExpires, Inv, procVars
  <2> QED
    BY <1>4, <2>1 DEF RowAppears, RowExpires, Inv, TypeOK, procVars, tables
<1>5. ASSUME NEW r \in Replicas, Sync(r) \/ FailSync(r) PROVE Inv'
  BY <1>5, SyncInv
<1>6. ASSUME NEW r \in Resolvers, Resolve(r) \/ FailSolver(r) PROVE Inv'
  BY <1>6, ResolveInv
<1>7. ASSUME LockExpires PROVE Inv'
  <2>1. ProcInv'
    BY <1>7, ProcessesRest DEF LockExpires, Inv, procVars
  <2> QED
    BY <1>7, <2>1 DEF LockExpires, Inv, TypeOK, procVars, tables
<1>8. ASSUME UNCHANGED vars PROVE Inv'
  <2>1. ProcInv'
    BY <1>8, ProcessesRest DEF vars, Inv, procVars
  <2> QED
    BY <1>8, <2>1 DEF vars, Inv, TypeOK, procVars, tables
<1> QED
  BY <1>1, <1>2, <1>3, <1>4, <1>5, <1>6, <1>7, <1>8 DEF Next

(* Every variable has its type, for every value of the constants; a line's *)
(* place among those of its millisecond stays below the bound on lines     *)
(* only because nextLogTimestamp starts again in every millisecond.        *)
THEOREM TypeHolds == Spec => []TypeOK
<1>1. Spec => []Inv
  BY InitInv, NextInv, PTL DEF Spec
<1>2. Inv => TypeOK
  BY DEF Inv
<1> QED
  BY <1>1, <1>2, PTL

(* Every line of a process that lives is on its way, has reached the       *)
(* stream, or its XADD has failed.                                         *)
Known(p) ==
  proc[p].at # "dead" =>
    \A n \in 1..proc[p].lines : \E l \in pending \union sent \union failed : l.text = <<p, n>>

AllKnown == \A p \in Procs : Known(p)

(* A process in which nothing is printed knows its lines as before.        *)
LEMMA StillKnown ==
  ASSUME AllKnown, NEW p \in Procs, proc'[p].lines = proc[p].lines,
         proc'[p].at # "dead" => proc[p].at # "dead",
         \A l \in pending : l.text[1] # p \/ l \in pending' \union sent' \union failed',
         sent \subseteq sent', failed \subseteq failed'
  PROVE  Known(p)'
<1> SUFFICES ASSUME proc'[p].at # "dead", NEW n \in 1..proc[p].lines
             PROVE  \E l \in pending' \union sent' \union failed' : l.text = <<p, n>>
  BY DEF Known
<1>1. PICK l \in pending \union sent \union failed : l.text = <<p, n>>
  BY DEF AllKnown, Known
<1>2. l.text[1] = p
  BY <1>1
<1> QED
  BY <1>1, <1>2

(* Lines go on being known.                                                *)
LEMMA KnownGoesOn ==
  ASSUME Inv, AllKnown, [Next]_vars
  PROVE  AllKnown'
<1>0. /\ proc \in [Procs -> ProcState] /\ pending \subseteq Line
      /\ \A p \in Procs : proc[p].lines \in Nat
  BY LogAssumption DEF Inv, TypeOK, ProcState
<1>1. CASE UNCHANGED procVars /\ sent \subseteq sent'
  BY <1>1 DEF AllKnown, Known, procVars
<1>2. ASSUME NEW p \in Procs, NEW now \in clock..MaxClock, PrintLine(p, now) PROVE AllKnown'
  <2> DEFINE l == [job |-> proc[p].job, ts |-> now, seq |-> NextSeq(p, now),
                   text |-> <<p, proc[p].lines + 1>>]
  <2>a. proc[p] \in ProcState /\ l.text = <<p, proc[p].lines + 1>>
    BY <1>0
  <2>1. /\ l.text = <<p, proc[p].lines + 1>> /\ pending' = pending \union {l}
        /\ sent' = sent /\ failed' = failed /\ proc[p].at = "run"
        /\ proc'[p].lines = proc[p].lines + 1
        /\ \A q \in Procs \ {p} : proc'[q] = proc[q]
    BY <1>0, <1>2, <2>a DEF PrintLine, ProcState
  <2> HIDE DEF l
  <2>2. ASSUME NEW q \in Procs, q # p PROVE Known(q)'
    <3>1. \A m \in pending : m \in pending'
      BY <2>1
    <3>2. proc'[q].lines = proc[q].lines /\ proc'[q].at = proc[q].at
      BY <2>1, <2>2
    <3> QED
      BY <2>1, <3>1, <3>2, StillKnown
  <2>3. Known(p)'
    <3> SUFFICES ASSUME NEW n \in 1..proc[p].lines + 1
                 PROVE  \E m \in pending' \union sent' \union failed' : m.text = <<p, n>>
      BY <1>0, <2>1 DEF Known
    <3>1. CASE n = proc[p].lines + 1
      BY <2>1, <3>1
    <3>2. CASE n \in 1..proc[p].lines
      <4>1. PICK m \in pending \union sent \union failed : m.text = <<p, n>>
        BY <2>1, <3>2 DEF AllKnown, Known
      <4> QED
        BY <2>1, <4>1
    <3> QED
      BY <1>0, <3>1, <3>2
  <2> QED
    BY <2>2, <2>3 DEF AllKnown
<1>3. ASSUME NEW p \in Procs,
             (\E j \in Jobs : StartJob(p, j)) \/ RunReturns(p) \/ Flushed(p) \/ RunThrows(p)
      PROVE  AllKnown'
  <2>1. ASSUME NEW q \in Procs
        PROVE  proc'[q].lines = proc[q].lines /\ (proc'[q].at # "dead" => proc[q].at # "dead")
    <3>1. \A x \in Procs \ {p} : proc'[x] = proc[x]
      BY <1>0, <1>3 DEF StartJob, RunReturns, Flushed, RunThrows
    <3>2. proc'[p].lines = proc[p].lines /\ proc[p].at # "dead"
      <4>1. proc[p] \in ProcState
        BY <1>0
      <4>2. CASE \E j \in Jobs : StartJob(p, j)
        BY <1>0, <4>1, <4>2 DEF StartJob, ProcState
      <4>3. CASE RunReturns(p)
        BY <1>0, <4>1, <4>3 DEF RunReturns, ProcState
      <4>4. CASE Flushed(p) \/ RunThrows(p)
        BY <1>0, <4>1, <4>4 DEF Flushed, RunThrows, ProcState
      <4> QED
        BY <1>3, <4>2, <4>3, <4>4
    <3> QED
      BY <3>1, <3>2
  <2>2. pending' = pending /\ sent' = sent /\ failed' = failed
    BY <1>3 DEF StartJob, RunReturns, Flushed, RunThrows
  <2> QED
    BY <2>1, <2>2, StillKnown DEF AllKnown
<1>4. ASSUME NEW p \in Procs, ProcDies(p) PROVE AllKnown'
  <2>1. /\ pending' = pending \ Own(p) /\ sent' = sent /\ failed' = failed
        /\ proc'[p].at = "dead" /\ \A q \in Procs \ {p} : proc'[q] = proc[q]
    BY <1>0, <1>4 DEF ProcDies
  <2>2. ASSUME NEW q \in Procs, q # p PROVE Known(q)'
    BY <2>1, <2>2, StillKnown DEF Own
  <2> QED
    BY <2>1, <2>2 DEF AllKnown, Known
<1>5. ASSUME NEW l \in pending, XaddDone(l) \/ XaddFails(l) PROVE AllKnown'
  <2>1. /\ proc' = proc /\ sent \subseteq sent' /\ failed \subseteq failed'
        /\ pending \subseteq pending' \union sent' \union failed'
    BY <1>5 DEF XaddDone, XaddFails
  <2> QED
    BY <2>1, StillKnown DEF AllKnown
<1>a. ASSUME NEW p \in Procs, Work(p) PROVE AllKnown'
  <2>1. CASE \E j \in Jobs : StartJob(p, j)
    BY <1>3, <2>1
  <2>2. CASE \E now \in clock..MaxClock : PrintLine(p, now)
    BY <1>2, <2>2
  <2>3. CASE RunReturns(p) \/ Flushed(p) \/ RunThrows(p)
    BY <1>3, <2>3
  <2> QED
    BY <1>4, <1>a, <2>1, <2>2, <2>3 DEF Work
<1>6. ASSUME NEW j \in Jobs, RowAppears(j) \/ RowExpires(j) PROVE UNCHANGED procVars /\ sent' = sent
  BY <1>6 DEF RowAppears, RowExpires
<1>7. ASSUME NEW r \in Replicas, Sync(r) \/ FailSync(r) PROVE UNCHANGED procVars /\ sent' = sent
  BY <1>7 DEF Sync, FailSync, Receive, ResolveJobRunIds, InsertResolvedLogs, InsertRejected,
              BufferUnresolvedLogs, AckAndDelete
<1>8. ASSUME NEW r \in Resolvers, Resolve(r) \/ FailSolver(r) PROVE UNCHANGED procVars /\ sent' = sent
  BY <1>8 DEF Resolve, FailSolver, AcquireLock, SelectBuffered, ResolveBuffered, InsertBuffered,
              BufferedInsertRejected, DeleteResolved, ReleaseLock
<1>9. ASSUME LockExpires \/ UNCHANGED vars PROVE UNCHANGED procVars /\ sent' = sent
  BY <1>9 DEF LockExpires, vars
<1> QED
  BY <1>1, <1>5, <1>6, <1>7, <1>8, <1>9, <1>a DEF Next

(* When the first job of a process returns its result, each of its lines   *)
(* has reached the stream or its XADD has failed: flushConsoleRelay waits  *)
(* for the set that the relay of that job keeps, and every line that is    *)
(* printed goes there.                                                     *)
THEOREM FirstJobIsFlushed == Spec => []FirstJobFlushed
<1>1. Init => Inv /\ AllKnown
  BY InitInv, LogAssumption DEF Init, AllKnown, Known
<1>2. (Inv /\ AllKnown) /\ [Next]_vars => (Inv /\ AllKnown)'
  BY NextInv, KnownGoesOn
<1>3. Inv /\ AllKnown => FirstJobFlushed
  <2> SUFFICES ASSUME Inv, AllKnown, NEW p \in Procs, proc[p].at = "done", proc[p].calls = 1,
                      NEW n \in 1..proc[p].lines
               PROVE  \E l \in sent \union failed : l.text = <<p, n>>
    BY DEF FirstJobFlushed
  <2>1. PICK l \in pending \union sent \union failed : l.text = <<p, n>>
    BY DEF AllKnown, Known
  <2>2. l \notin pending
    BY <2>1 DEF Inv, ProcInv, AwaitsOwn, Own
  <2> QED
    BY <2>1, <2>2
<1> QED
  BY <1>1, <1>2, <1>3, PTL DEF Spec

-----------------------------------------------------------------------------
(* The foreign key of job_logs.                                            *)

(* A chunk is inserted only with every one of its rows in place.           *)
LEMMA ChunkIsLive ==
  ASSUME Inv, NEW todo \in SUBSET Line, NEW C \in SUBSET todo, InsertChunk(todo, C),
         NoneShownForGoneJobs, UNCHANGED row
  PROVE  NoneShownForGoneJobs'
<1>1. \A l \in C : row[l.job] = "live"
  BY DEF InsertChunk, Resolved
<1>2. jobLogs' \subseteq jobLogs \union C
  BY NewToIsNew DEF InsertChunk
<1> QED
  BY <1>1, <1>2 DEF NoneShownForGoneJobs

(* Every step keeps rows under the lines that are shown.                   *)
LEMMA NextKeepsRows == Inv /\ NoneShownForGoneJobs /\ [Next]_vars => NoneShownForGoneJobs'
<1> SUFFICES ASSUME Inv, NoneShownForGoneJobs, [Next]_vars PROVE NoneShownForGoneJobs'
  OBVIOUS
<1>1. CASE UNCHANGED <<jobLogs, row>>
  BY <1>1 DEF NoneShownForGoneJobs
<1>2. ASSUME NEW j \in Jobs, RowAppears(j) PROVE NoneShownForGoneJobs'
  BY <1>2 DEF RowAppears, NoneShownForGoneJobs, Inv, TypeOK, tables, Line
<1>3. ASSUME NEW j \in Jobs, RowExpires(j) PROVE NoneShownForGoneJobs'
  BY <1>3 DEF RowExpires, NoneShownForGoneJobs, Inv, TypeOK, Line
<1>4. ASSUME NEW r \in Replicas, InsertResolvedLogs(r) PROVE NoneShownForGoneJobs'
  BY <1>4, ChunkIsLive DEF InsertResolvedLogs, Inv, TypeOK, SyncState
<1>5. ASSUME NEW r \in Resolvers, InsertBuffered(r) PROVE NoneShownForGoneJobs'
  BY <1>5, ChunkIsLive DEF InsertBuffered, Inv, TypeOK, SolverState
<1>6. ASSUME NEW p \in Procs, Work(p) PROVE UNCHANGED <<jobLogs, row>>
  BY <1>6 DEF Work, StartJob, PrintLine, RunReturns, Flushed, RunThrows, ProcDies, tables
<1>7. ASSUME NEW l \in pending, XaddDone(l) \/ XaddFails(l) PROVE UNCHANGED <<jobLogs, row>>
  BY <1>7 DEF XaddDone, XaddFails, tables
<1>8. ASSUME NEW r \in Replicas, Sync(r) \/ FailSync(r), ~InsertResolvedLogs(r)
      PROVE  UNCHANGED <<jobLogs, row>>
  BY <1>8 DEF Sync, FailSync, Receive, ResolveJobRunIds, InsertRejected, BufferUnresolvedLogs,
     AckAndDelete, tables
<1>9. ASSUME NEW r \in Resolvers, Resolve(r) \/ FailSolver(r), ~InsertBuffered(r)
      PROVE  UNCHANGED <<jobLogs, row>>
  BY <1>9 DEF Resolve, FailSolver, AcquireLock, SelectBuffered, ResolveBuffered,
     BufferedInsertRejected, DeleteResolved, ReleaseLock, tables
<1>10. LockExpires \/ UNCHANGED vars => UNCHANGED <<jobLogs, row>>
  BY DEF LockExpires, vars, tables
<1> QED
  BY <1>1, <1>2, <1>3, <1>4, <1>5, <1>6, <1>7, <1>8, <1>9, <1>10 DEF Next

(* No line is shown for a job whose row is gone, however the row's expiry  *)
(* falls between the reading of its id and the INSERT.                     *)
THEOREM ShownJobsHaveRows == Spec => []NoneShownForGoneJobs
<1>1. Init => NoneShownForGoneJobs
  BY DEF Init, NoneShownForGoneJobs
<1> QED
  BY <1>1, InitInv, NextInv, NextKeepsRows, PTL DEF Spec

-----------------------------------------------------------------------------
(* The log clock of a process.                                             *)

Printed == pending \union sent

(* A process has printed no line after the last; no two have one place.    *)
NotAfter(l, p) ==
  \/ l.ts < proc[p].lastTs
  \/ l.ts = proc[p].lastTs /\ l.seq <= proc[p].counter

LinesInOrder == \A p \in Procs : \A l \in Printed : l.text[1] = p => NotAfter(l, p)

SamePlace(l, m) == l.text[1] = m.text[1] /\ l.ts = m.ts /\ l.seq = m.seq

PlacesDiffer == \A l, m \in Printed : SamePlace(l, m) => l = m

ClockInv == LinesInOrder /\ PlacesDiffer

(* A new line comes after all others of its process.                       *)
LEMMA PrintLineClock ==
  ASSUME Inv, ClockInv, NEW p \in Procs, NEW now \in clock..MaxClock, PrintLine(p, now)
  PROVE  ClockInv'
<1>0. PICK new : new = [job |-> proc[p].job, ts |-> now, seq |-> NextSeq(p, now),
                        text |-> <<p, proc[p].lines + 1>>]
  OBVIOUS
<1>1. /\ proc[p] \in ProcState /\ Counted(p) /\ proc[p].lastTs <= clock /\ clock \in 1..MaxClock
      /\ proc \in [Procs -> ProcState] /\ Printed' = Printed \union {new}
      /\ proc' = [proc EXCEPT ![p].lastTs = new.ts, ![p].counter = new.seq, ![p].lines = @ + 1]
  BY <1>0 DEF Inv, TypeOK, ProcInv, PrintLine, Printed
<1>2. /\ new.text[1] = p /\ new.ts = now /\ new.seq = NextSeq(p, now)
      /\ proc'[p].lastTs = now /\ proc'[p].counter = NextSeq(p, now)
      /\ \A q \in Procs \ {p} : proc'[q] = proc[q]
  BY <1>0, <1>1 DEF ProcState
<1>3. /\ now \in Nat /\ proc[p].lastTs \in Nat /\ proc[p].counter \in Nat
      /\ proc[p].lastTs <= now
  BY <1>1, LogAssumption DEF ProcState
<1>4. IF now = proc[p].lastTs THEN NextSeq(p, now) = proc[p].counter + 1
                              ELSE NextSeq(p, now) = 0
  BY DEF NextSeq
<1>5. ASSUME NEW l \in Printed PROVE l.ts \in Nat /\ l.seq \in Nat /\ l \in Line
  BY LogAssumption DEF Inv, TypeOK, Printed, Line
<1>6. ASSUME NEW l \in Printed, l.text[1] = p
      PROVE  NotAfter(l, p)' /\ ~SamePlace(l, new) /\ ~SamePlace(new, l)
  <2>1. NotAfter(l, p)
    BY <1>6 DEF ClockInv, LinesInOrder
  <2>2. NotAfter(l, p)' /\ (l.ts # now \/ l.seq # NextSeq(p, now))
    BY <1>2, <1>3, <1>4, <1>5, <2>1 DEF NotAfter
  <2> QED
    BY <1>2, <2>2 DEF SamePlace
<1>7. NotAfter(new, p)'
  BY <1>2, <1>3, <1>4 DEF NotAfter
<1>8. LinesInOrder'
  <2>1. ASSUME NEW q \in Procs, NEW l \in Printed', l.text[1] = q PROVE NotAfter(l, q)'
    <3>1. CASE l = new
      BY <1>2, <1>7, <2>1, <3>1
    <3>2. CASE l # new /\ q = p
      BY <1>1, <1>6, <2>1, <3>2
    <3>3. CASE l # new /\ q # p
      BY <1>1, <1>2, <2>1, <3>3 DEF ClockInv, LinesInOrder, NotAfter
    <3> QED
      BY <3>1, <3>2, <3>3
  <2> QED
    BY <2>1 DEF LinesInOrder
<1>9. PlacesDiffer'
  <2>1. ASSUME NEW l \in Printed, SamePlace(l, new) \/ SamePlace(new, l) PROVE FALSE
    BY <1>2, <1>6, <2>1 DEF SamePlace
  <2> QED
    BY <1>1, <2>1 DEF ClockInv, PlacesDiffer, SamePlace
<1> QED
  BY <1>8, <1>9 DEF ClockInv

(* Every other step prints nothing and leaves the clocks alone.            *)
LEMMA NextKeepsClock == Inv /\ ClockInv /\ [Next]_vars => ClockInv'
<1> SUFFICES ASSUME Inv, ClockInv, [Next]_vars PROVE ClockInv'
  OBVIOUS
<1> DEFINE Still == /\ Printed' \subseteq Printed
                    /\ \A p \in Procs : /\ proc'[p].lastTs = proc[p].lastTs
                                        /\ proc'[p].counter = proc[p].counter
<1>1. CASE Still
  BY <1>1 DEF ClockInv, LinesInOrder, NotAfter, PlacesDiffer, SamePlace
<1>2. ASSUME NEW p \in Procs, NEW now \in clock..MaxClock, PrintLine(p, now) PROVE ClockInv'
  BY <1>2, PrintLineClock
<1>3. ASSUME NEW p \in Procs, \/ \E j \in Jobs : StartJob(p, j)
                              \/ RunReturns(p) \/ Flushed(p) \/ RunThrows(p) \/ ProcDies(p)
      PROVE  Still
  <2>1. proc \in [Procs -> ProcState]
    BY DEF Inv, TypeOK
  <2>2. ASSUME NEW j \in Jobs, StartJob(p, j) PROVE Still
    BY <2>1, <2>2 DEF StartJob, Printed, ProcState
  <2>3. CASE RunReturns(p)
    BY <2>1, <2>3 DEF RunReturns, Printed, ProcState
  <2>4. CASE Flushed(p)
    BY <2>1, <2>4 DEF Flushed, Printed, ProcState
  <2>5. CASE RunThrows(p)
    BY <2>1, <2>5 DEF RunThrows, Printed, ProcState
  <2>6. CASE ProcDies(p)
    BY <2>1, <2>6 DEF ProcDies, Printed, ProcState
  <2> QED
    BY <1>3, <2>2, <2>3, <2>4, <2>5, <2>6
<1>4. ASSUME NEW l \in pending, XaddDone(l) \/ XaddFails(l) PROVE Still
  BY <1>4 DEF XaddDone, XaddFails, Printed
<1>5. ASSUME NEW j \in Jobs, RowAppears(j) \/ RowExpires(j) PROVE Still
  BY <1>5 DEF RowAppears, RowExpires, Printed, procVars
<1>6. ASSUME NEW r \in Replicas, Sync(r) \/ FailSync(r) PROVE Still
  BY <1>6 DEF Sync, FailSync, Receive, ResolveJobRunIds, InsertResolvedLogs, InsertRejected,
     BufferUnresolvedLogs, AckAndDelete, Printed, procVars
<1>7. ASSUME NEW r \in Resolvers, Resolve(r) \/ FailSolver(r) PROVE Still
  BY <1>7 DEF Resolve, FailSolver, AcquireLock, SelectBuffered, ResolveBuffered, InsertBuffered,
     BufferedInsertRejected, DeleteResolved, ReleaseLock, Printed, procVars
<1>8. LockExpires \/ UNCHANGED vars => Still
  BY DEF LockExpires, vars, Printed, procVars
<1> QED
  BY <1>1, <1>2, <1>3, <1>4, <1>5, <1>6, <1>7, <1>8 DEF Next, Work

(* Lines of one process never share a place, and so no key.                *)
LEMMA ClockHolds == Spec => [](Inv /\ ClockInv)
<1>1. Init => ClockInv
  BY DEF Init, ClockInv, LinesInOrder, PlacesDiffer, Printed
<1> QED
  BY <1>1, InitInv, NextInv, NextKeepsClock, PTL DEF Spec

-----------------------------------------------------------------------------
(* From the stream to the table.                                           *)

(* A line of this key is in job_logs, or its job has expired.              *)
Listed(l) == row[l.job] = "expired" \/ \E m \in jobLogs : Key(m) = Key(l)

Kept(l) == Listed(l) \/ \E b \in buffer : Key(b.line) = Key(l)

(* A replica's batch: before the ACK every line is kept.                   *)
Handled(r) ==
  /\ sync[r].batch \subseteq sent
  /\ sync[r].at = "insert" =>
       \A l \in sync[r].batch : l \in sync[r].todo \/ l \in sync[r].rest \/ Listed(l)
  /\ sync[r].at = "ack" => \A l \in sync[r].batch : Kept(l)

(* A resolver's rows: before they are deleted every line is listed, even   *)
(* if the lock ran out and another resolver has had the same rows.         *)
MovedOn(r) ==
  /\ \A b \in solver[r].rows : b.line \in sent
  /\ solver[r].at = "insert" =>
       \A b \in solver[r].rows : b.line \in solver[r].todo \/ Listed(b.line)

Sources == jobLogs \subseteq sent /\ \A b \in buffer : b.line \in sent

KeysAreKept == \A l \in sent \ stream : Kept(l)

KeptInv ==
  /\ Sources /\ KeysAreKept
  /\ \A r \in Replicas : Handled(r)
  /\ \A r \in Resolvers : MovedOn(r)

(* job_logs only grows, but for the lines of a job that expires for good.  *)
LEMMA LogsGrow ==
  ASSUME Inv, [Next]_vars, \A j \in Jobs : ~RowExpires(j)
  PROVE  jobLogs \subseteq jobLogs' /\ \A j \in Jobs : row[j] = "expired" => row'[j] = "expired"
<1> DEFINE Grow == /\ jobLogs \subseteq jobLogs'
                   /\ \A j \in Jobs : row[j] = "expired" => row'[j] = "expired"
<1>1. ASSUME NEW j \in Jobs, RowAppears(j) PROVE Grow
  BY <1>1 DEF RowAppears, Inv, TypeOK, tables
<1>2. ASSUME NEW r \in Replicas, Sync(r) \/ FailSync(r) PROVE Grow
  BY <1>2 DEF Sync, FailSync, Receive, ResolveJobRunIds, InsertResolvedLogs, InsertChunk,
     InsertRejected, BufferUnresolvedLogs, AckAndDelete, tables
<1>3. ASSUME NEW r \in Resolvers, Resolve(r) \/ FailSolver(r) PROVE Grow
  BY <1>3 DEF Resolve, FailSolver, AcquireLock, SelectBuffered, ResolveBuffered, InsertBuffered,
     InsertChunk, BufferedInsertRejected, DeleteResolved, ReleaseLock, tables
<1>4. ASSUME NEW p \in Procs, Work(p) PROVE Grow
  BY <1>4 DEF Work, StartJob, PrintLine, RunReturns, Flushed, RunThrows, ProcDies, tables
<1>5. ASSUME NEW l \in pending, XaddDone(l) \/ XaddFails(l) PROVE Grow
  BY <1>5 DEF XaddDone, XaddFails, tables
<1>6. LockExpires \/ UNCHANGED vars => Grow
  BY DEF LockExpires, vars, tables
<1> QED
  BY <1>1, <1>2, <1>3, <1>4, <1>5, <1>6 DEF Next

(* A line that is listed stays listed, or expires.                         *)
LEMMA ListedStays ==
  ASSUME Inv, [Next]_vars, NEW l \in Line, Listed(l)
  PROVE  Listed(l)'
<1>0. l.job \in Jobs /\ row \in [Jobs -> {"none", "live", "expired"}]
  BY DEF Inv, TypeOK, Line
<1>1. CASE \A j \in Jobs : ~RowExpires(j)
  BY <1>0, <1>1, LogsGrow DEF Listed
<1>2. ASSUME NEW j \in Jobs, RowExpires(j) PROVE Listed(l)'
  <2>1. row' = [row EXCEPT ![j] = "expired"] /\ jobLogs' = {m \in jobLogs : m.job # j}
    BY <1>2 DEF RowExpires
  <2>2. CASE l.job = j
    BY <1>0, <2>1, <2>2 DEF Listed
  <2>3. CASE l.job # j /\ row[l.job] = "expired"
    BY <1>0, <2>1, <2>3 DEF Listed
  <2>4. CASE l.job # j /\ row[l.job] # "expired"
    BY <2>1, <2>4 DEF Listed, Key
  <2> QED
    BY <2>2, <2>3, <2>4
<1> QED
  BY <1>1, <1>2

(* Two lines of a key are listed together.                                 *)
LEMMA ListedByKey ==
  ASSUME NEW l, NEW m, Key(l) = Key(m), Listed(m)
  PROVE  Listed(l)
BY DEF Listed, Key

(* The buffer loses a row only to a resolver that has listed its line.     *)
LEMMA BufferShrinks ==
  ASSUME Inv, KeptInv, [Next]_vars, NEW b \in buffer, b \notin buffer'
  PROVE  Listed(b.line)
<1>1. ASSUME NEW r \in Resolvers, DeleteResolved(r) PROVE Listed(b.line)
  BY <1>1 DEF DeleteResolved, KeptInv, MovedOn
<1>2. CASE \A r \in Resolvers : ~DeleteResolved(r)
  <2>1. ASSUME NEW j \in Jobs, RowAppears(j) \/ RowExpires(j) PROVE buffer \subseteq buffer'
    BY <2>1 DEF RowAppears, RowExpires, tables
  <2>2. ASSUME NEW r \in Replicas, Sync(r) \/ FailSync(r) PROVE buffer \subseteq buffer'
    BY <2>2 DEF Sync, FailSync, Receive, ResolveJobRunIds, InsertResolvedLogs, InsertChunk,
       InsertRejected, BufferUnresolvedLogs, AckAndDelete, tables
  <2>3. ASSUME NEW r \in Resolvers, Resolve(r) \/ FailSolver(r) PROVE buffer \subseteq buffer'
    BY <1>2, <2>3 DEF Resolve, FailSolver, AcquireLock, SelectBuffered, ResolveBuffered,
       InsertBuffered, InsertChunk, BufferedInsertRejected, ReleaseLock, tables
  <2>4. ASSUME NEW p \in Procs, Work(p) PROVE buffer \subseteq buffer'
    BY <2>4 DEF Work, StartJob, PrintLine, RunReturns, Flushed, RunThrows, ProcDies, tables
  <2>5. ASSUME NEW l \in pending, XaddDone(l) \/ XaddFails(l) PROVE buffer \subseteq buffer'
    BY <2>5 DEF XaddDone, XaddFails, tables
  <2>6. LockExpires \/ UNCHANGED vars => buffer \subseteq buffer'
    BY DEF LockExpires, vars, tables
  <2> QED
    BY <2>1, <2>2, <2>3, <2>4, <2>5, <2>6 DEF Next
<1> QED
  BY <1>1, <1>2

(* A line that is kept stays kept, or expires.                             *)
LEMMA KeptStays ==
  ASSUME Inv, KeptInv, [Next]_vars, NEW l \in Line, Kept(l)
  PROVE  Kept(l)'
<1>1. CASE Listed(l)
  BY <1>1, ListedStays DEF Kept
<1>2. ASSUME NEW b \in buffer, Key(b.line) = Key(l) PROVE Kept(l)'
  <2>1. CASE b \in buffer'
    BY <1>2, <2>1 DEF Kept, Key
  <2>2. CASE b \notin buffer'
    <3>1. Listed(b.line)
      BY <2>2, BufferShrinks
    <3>2. Listed(l)
      BY <1>2, <3>1, ListedByKey
    <3> QED
      BY <3>2, ListedStays DEF Kept
  <2> QED
    BY <2>1, <2>2
<1> QED
  BY <1>1, <1>2 DEF Kept

(* Redis and a replica's memory: what a step that is not of replica r, or  *)
(* not of resolver r, leaves true of its batch or its rows.                *)
LEMMA SentGrows ==
  ASSUME [Next]_vars
  PROVE  sent \subseteq sent'
<1>1. ASSUME NEW r \in Replicas, Sync(r) \/ FailSync(r) PROVE sent' = sent
  BY <1>1 DEF Sync, FailSync, Receive, ResolveJobRunIds, InsertResolvedLogs, InsertRejected,
     BufferUnresolvedLogs, AckAndDelete
<1>2. ASSUME NEW r \in Resolvers, Resolve(r) \/ FailSolver(r) PROVE sent' = sent
  BY <1>2 DEF Resolve, FailSolver, AcquireLock, SelectBuffered, ResolveBuffered, InsertBuffered,
     BufferedInsertRejected, DeleteResolved, ReleaseLock
<1>3. ASSUME NEW p \in Procs, Work(p) PROVE sent' = sent
  BY <1>3 DEF Work, StartJob, PrintLine, RunReturns, Flushed, RunThrows, ProcDies
<1>4. ASSUME NEW l \in pending, XaddDone(l) \/ XaddFails(l) PROVE sent \subseteq sent'
  BY <1>4 DEF XaddDone, XaddFails
<1>5. ASSUME NEW j \in Jobs, RowAppears(j) \/ RowExpires(j) PROVE sent' = sent
  BY <1>5 DEF RowAppears, RowExpires
<1>6. LockExpires \/ UNCHANGED vars => sent' = sent
  BY DEF LockExpires, vars
<1> QED
  BY <1>1, <1>2, <1>3, <1>4, <1>5, <1>6 DEF Next

(* A batch that a step leaves in its replica's hands.                      *)
LEMMA BatchRests ==
  ASSUME Inv, KeptInv, [Next]_vars, NEW r \in Replicas, sync'[r] = sync[r]
  PROVE  Handled(r)'
<1>1. Handled(r) /\ sync[r].batch \subseteq Line
  BY DEF KeptInv, Inv, TypeOK, SyncState
<1>2. \A l \in sync[r].batch : (Listed(l) => Listed(l)') /\ (Kept(l) => Kept(l)')
  BY <1>1, ListedStays, KeptStays
<1> QED
  BY <1>1, <1>2, SentGrows DEF Handled

(* Rows that a step leaves in their resolver's hands.                      *)
LEMMA RowsRest ==
  ASSUME Inv, KeptInv, [Next]_vars, NEW r \in Resolvers, solver'[r] = solver[r]
  PROVE  MovedOn(r)'
<1>1. MovedOn(r) /\ solver[r].rows \subseteq BufferRow
  BY DEF KeptInv, Inv, TypeOK, SolverState
<1>2. \A b \in solver[r].rows : b.line \in Line /\ (Listed(b.line) => Listed(b.line)')
  BY <1>1, ListedStays DEF BufferRow
<1> QED
  BY <1>1, <1>2, SentGrows DEF MovedOn

(* After the INSERT of a chunk all its lines are listed.                   *)
LEMMA ChunkIsListed ==
  ASSUME NEW todo, NEW C, InsertChunk(todo, C), NEW l \in C
  PROVE  Listed(l)'
BY NewToHasEveryKey DEF InsertChunk, Listed, Key

(* After the INSERT into the buffer all its lines are kept.                *)
LEMMA RestIsBuffered ==
  ASSUME NEW L, NEW at, NEW l \in L,
         buffer' = buffer \union {[line |-> m, at |-> at] : m \in NewTo(Buffered, L)}
  PROVE  Kept(l)'
<1>1. PICK m \in Buffered \union NewTo(Buffered, L) : Key(m) = Key(l)
  BY NewToHasEveryKey
<1>2. \E b \in buffer' : b.line = m
  <2>1. CASE m \in Buffered
    BY <2>1 DEF Buffered
  <2>2. CASE m \in NewTo(Buffered, L)
    <3>1. [line |-> m, at |-> at] \in buffer' /\ [line |-> m, at |-> at].line = m
      BY <2>2
    <3> QED
      BY <3>1
  <2> QED
    BY <2>1, <2>2
<1> QED
  BY <1>1, <1>2 DEF Kept, Key

(* What the steps of the stream loop do to the batch of their replica.     *)
LEMMA SyncHandles ==
  ASSUME Inv, KeptInv, [Next]_vars, NEW r \in Replicas, Sync(r) \/ FailSync(r)
  PROVE  Handled(r)' /\ \A q \in Replicas \ {r} : sync'[q] = sync[q]
<1>0. /\ sync \in [Replicas -> SyncState] /\ sync[r] \in SyncState /\ stream \subseteq sent
      /\ sync[r].batch \subseteq Line /\ Handled(r)
      /\ sync[r].todo \union sync[r].rest \subseteq sync[r].batch
  BY DEF Inv, TypeOK, KeptInv, SyncState
<1>l. \A l \in sync[r].batch : (Listed(l) => Listed(l)') /\ (Kept(l) => Kept(l)')
  BY <1>0, ListedStays, KeptStays
<1>s. sent \subseteq sent'
  BY SentGrows
<1>w. Waiting.at = "wait" /\ Waiting.batch = {}
  BY DEF Waiting
<1> USE <1>0
<1>1. ASSUME NEW B \in SUBSET stream, Receive(r, B)
      PROVE  Handled(r)' /\ \A q \in Replicas \ {r} : sync'[q] = sync[q]
  <2>1. /\ sync'[r] = Holding(B) /\ \A q \in Replicas \ {r} : sync'[q] = sync[q]
        /\ Holding(B).at = "resolve" /\ Holding(B).batch = B
    BY <1>1 DEF Receive, Holding
  <2> QED
    BY <1>1, <1>s, <2>1 DEF Handled
<1>2. ASSUME ResolveJobRunIds(r)
      PROVE  Handled(r)' /\ \A q \in Replicas \ {r} : sync'[q] = sync[q]
  <2>1. /\ \A q \in Replicas \ {r} : sync'[q] = sync[q]
        /\ sync'[r].at = "insert" /\ sync'[r].batch = sync[r].batch
        /\ sync'[r].rest = sync[r].batch \ sync'[r].todo
    BY <1>2 DEF ResolveJobRunIds, SyncState
  <2> QED
    BY <1>s, <2>1 DEF Handled
<1>3. ASSUME InsertResolvedLogs(r)
      PROVE  Handled(r)' /\ \A q \in Replicas \ {r} : sync'[q] = sync[q]
  <2>1. PICK C \in SUBSET sync[r].todo :
          InsertChunk(sync[r].todo, C) /\ sync' = [sync EXCEPT ![r].todo = @ \ C]
    BY <1>3 DEF InsertResolvedLogs
  <2>2. /\ \A q \in Replicas \ {r} : sync'[q] = sync[q]
        /\ sync[r].at = "insert" /\ sync'[r].at = "insert" /\ sync'[r].batch = sync[r].batch
        /\ sync'[r].todo = sync[r].todo \ C /\ sync'[r].rest = sync[r].rest
    BY <1>3, <2>1 DEF InsertResolvedLogs, SyncState
  <2>3. \A l \in C : Listed(l)'
    BY <2>1, ChunkIsListed
  <2> QED
    BY <1>l, <1>s, <2>2, <2>3 DEF Handled
<1>4. ASSUME BufferUnresolvedLogs(r)
      PROVE  Handled(r)' /\ \A q \in Replicas \ {r} : sync'[q] = sync[q]
  <2>1. /\ \A q \in Replicas \ {r} : sync'[q] = sync[q]
        /\ sync[r].at = "insert" /\ sync[r].todo = {}
        /\ sync'[r].at = "ack" /\ sync'[r].batch = sync[r].batch
        /\ buffer' = buffer \union {[line |-> l, at |-> inserts] : l \in NewTo(Buffered, sync[r].rest)}
    BY <1>4 DEF BufferUnresolvedLogs, SyncState
  <2>2. \A l \in sync[r].rest : Kept(l)'
    BY <2>1, RestIsBuffered
  <2>3. \A l \in sync[r].batch : l \in sync[r].rest \/ Listed(l)'
    BY <1>l, <2>1 DEF Handled
  <2> QED
    BY <1>s, <2>1, <2>2, <2>3 DEF Handled, Kept
<1>5. ASSUME AckAndDelete(r) \/ InsertRejected(r) \/ FailSync(r)
      PROVE  Handled(r)' /\ \A q \in Replicas \ {r} : sync'[q] = sync[q]
  <2>1. sync'[r] = Waiting /\ \A q \in Replicas \ {r} : sync'[q] = sync[q]
    BY <1>5 DEF AckAndDelete, InsertRejected, FailSync
  <2> QED
    BY <1>w, <2>1 DEF Handled
<1> QED
  BY <1>1, <1>2, <1>3, <1>4, <1>5 DEF Sync

(* What the steps of the resolver do to the rows of their replica.         *)
LEMMA ResolveMovesOn ==
  ASSUME Inv, KeptInv, [Next]_vars, NEW r \in Resolvers, Resolve(r) \/ FailSolver(r)
  PROVE  MovedOn(r)' /\ \A q \in Resolvers \ {r} : solver'[q] = solver[q]
<1>0. /\ solver \in [Resolvers -> SolverState] /\ solver[r] \in SolverState
      /\ solver[r].rows \subseteq BufferRow /\ MovedOn(r)
      /\ \A b \in buffer : b.line \in sent
  BY DEF Inv, TypeOK, KeptInv, Sources, SolverState
<1>l. \A b \in solver[r].rows : b.line \in Line /\ (Listed(b.line) => Listed(b.line)')
  BY <1>0, ListedStays DEF BufferRow
<1>s. sent \subseteq sent'
  BY SentGrows
<1>w. \A at : At(at).at = at /\ At(at).rows = {}
  BY DEF At
<1> USE <1>0
<1>1. ASSUME AcquireLock(r)
      PROVE  MovedOn(r)' /\ \A q \in Resolvers \ {r} : solver'[q] = solver[q]
  <2>1. /\ \A q \in Resolvers \ {r} : solver'[q] = solver[q]
        /\ solver'[r].at = "select" /\ solver'[r].rows = solver[r].rows
    BY <1>1 DEF AcquireLock, SolverState
  <2> QED
    BY <1>s, <2>1 DEF MovedOn
<1>2. ASSUME SelectBuffered(r)
      PROVE  MovedOn(r)' /\ \A q \in Resolvers \ {r} : solver'[q] = solver[q]
  <2>1. PICK S \in SUBSET buffer :
          solver' = [solver EXCEPT ![r].at = IF S = {} THEN "release" ELSE "resolve", ![r].rows = S]
    BY <1>2 DEF SelectBuffered
  <2>2. /\ \A q \in Resolvers \ {r} : solver'[q] = solver[q]
        /\ solver'[r].at \in {"release", "resolve"} /\ solver'[r].rows = S
    BY <2>1 DEF SolverState
  <2> QED
    BY <1>s, <2>2 DEF MovedOn
<1>3. ASSUME ResolveBuffered(r)
      PROVE  MovedOn(r)' /\ \A q \in Resolvers \ {r} : solver'[q] = solver[q]
  <2> DEFINE found == {b \in solver[r].rows : row[b.line.job] = "live"}
  <2>1. /\ \A q \in Resolvers \ {r} : solver'[q] = solver[q]
        /\ solver'[r].rows = found /\ solver'[r].todo = {b.line : b \in found}
    BY <1>3 DEF ResolveBuffered, SolverState
  <2>2. \A b \in found : b.line \in solver'[r].todo
    BY <2>1
  <2> QED
    BY <1>s, <2>1, <2>2 DEF MovedOn
<1>4. ASSUME InsertBuffered(r)
      PROVE  MovedOn(r)' /\ \A q \in Resolvers \ {r} : solver'[q] = solver[q]
  <2>1. PICK C \in SUBSET solver[r].todo :
          InsertChunk(solver[r].todo, C) /\ solver' = [solver EXCEPT ![r].todo = @ \ C]
    BY <1>4 DEF InsertBuffered
  <2>2. /\ \A q \in Resolvers \ {r} : solver'[q] = solver[q]
        /\ solver[r].at = "insert" /\ solver'[r].rows = solver[r].rows
        /\ solver'[r].todo = solver[r].todo \ C
    BY <1>4, <2>1 DEF InsertBuffered, SolverState
  <2>3. \A l \in C : Listed(l)'
    BY <2>1, ChunkIsListed
  <2> QED
    BY <1>l, <1>s, <2>2, <2>3 DEF MovedOn
<1>5. ASSUME \E at \in {"rest", "release"} : solver' = [solver EXCEPT ![r] = At(at)]
      PROVE  MovedOn(r)' /\ \A q \in Resolvers \ {r} : solver'[q] = solver[q]
  BY <1>5, <1>w DEF MovedOn
<1> QED
  BY <1>1, <1>2, <1>3, <1>4, <1>5
     DEF Resolve, FailSolver, DeleteResolved, BufferedInsertRejected, ReleaseLock, Resting

(* Both tables hold only lines that Redis has had.                         *)
LEMMA NextKeepsSources == Inv /\ KeptInv /\ [Next]_vars => Sources'
<1> SUFFICES ASSUME Inv, KeptInv, [Next]_vars PROVE Sources'
  OBVIOUS
<1>s. sent \subseteq sent' /\ Sources
  BY SentGrows DEF KeptInv
<1>1. CASE jobLogs' \subseteq jobLogs /\ buffer' \subseteq buffer
  BY <1>s, <1>1 DEF Sources
<1>2. ASSUME NEW r \in Replicas, InsertResolvedLogs(r) PROVE Sources'
  <2>1. sync[r].todo \subseteq sent /\ UNCHANGED buffer
    BY <1>2 DEF InsertResolvedLogs, InsertChunk, KeptInv, Handled, Inv, TypeOK
  <2>2. jobLogs' \subseteq jobLogs \union sync[r].todo
    BY <1>2, NewToIsNew DEF InsertResolvedLogs, InsertChunk
  <2> QED
    BY <1>s, <2>1, <2>2 DEF Sources
<1>3. ASSUME NEW r \in Resolvers, InsertBuffered(r) PROVE Sources'
  <2>1. solver[r].at = "insert" /\ UNCHANGED buffer
    BY <1>3 DEF InsertBuffered, InsertChunk
  <2>2. solver[r].todo \subseteq sent
    BY <2>1 DEF KeptInv, MovedOn, Inv, TypeOK
  <2>3. jobLogs' \subseteq jobLogs \union solver[r].todo
    BY <1>3, NewToIsNew DEF InsertBuffered, InsertChunk
  <2> QED
    BY <1>s, <2>1, <2>2, <2>3 DEF Sources
<1>4. ASSUME NEW r \in Replicas, BufferUnresolvedLogs(r) PROVE Sources'
  <2>1. sync[r].rest \subseteq sent /\ UNCHANGED jobLogs
    BY <1>4 DEF BufferUnresolvedLogs, KeptInv, Handled, Inv, TypeOK
  <2>2. buffer' = buffer \union {[line |-> l, at |-> inserts] : l \in NewTo(Buffered, sync[r].rest)}
    BY <1>4 DEF BufferUnresolvedLogs
  <2>3. NewTo(Buffered, sync[r].rest) \subseteq sent
    BY <2>1, NewToIsNew
  <2>4. \A b \in buffer' : b \in buffer \/ b.line \in sent
    BY <2>2, <2>3
  <2> QED
    BY <1>s, <2>1, <2>4 DEF Sources
<1>5. ASSUME NEW p \in Procs, Work(p) PROVE UNCHANGED <<jobLogs, buffer>>
  BY <1>5 DEF Work, StartJob, PrintLine, RunReturns, Flushed, RunThrows, ProcDies, tables
<1>6. ASSUME NEW l \in pending, XaddDone(l) \/ XaddFails(l) PROVE UNCHANGED <<jobLogs, buffer>>
  BY <1>6 DEF XaddDone, XaddFails, tables
<1>7. ASSUME NEW j \in Jobs, RowAppears(j) \/ RowExpires(j)
      PROVE  jobLogs' \subseteq jobLogs /\ buffer' = buffer
  BY <1>7 DEF RowAppears, RowExpires, tables
<1>8. ASSUME NEW r \in Replicas, Sync(r) \/ FailSync(r),
             ~InsertResolvedLogs(r), ~BufferUnresolvedLogs(r)
      PROVE  UNCHANGED <<jobLogs, buffer>>
  BY <1>8 DEF Sync, FailSync, Receive, ResolveJobRunIds, InsertRejected, AckAndDelete, tables
<1>9. ASSUME NEW r \in Resolvers, Resolve(r) \/ FailSolver(r), ~InsertBuffered(r)
      PROVE  jobLogs' = jobLogs /\ buffer' \subseteq buffer
  BY <1>9 DEF Resolve, FailSolver, AcquireLock, SelectBuffered, ResolveBuffered,
     BufferedInsertRejected, DeleteResolved, ReleaseLock, tables
<1>10. LockExpires \/ UNCHANGED vars => UNCHANGED <<jobLogs, buffer>>
  BY DEF LockExpires, vars, tables
<1> QED
  BY <1>1, <1>2, <1>3, <1>4, <1>5, <1>6, <1>7, <1>8, <1>9, <1>10 DEF Next

(* A line leaves the stream with an acknowledged batch, and is kept.       *)
LEMMA NextKeepsKeys == Inv /\ KeptInv /\ [Next]_vars => KeysAreKept'
<1> SUFFICES ASSUME Inv, KeptInv, [Next]_vars PROVE KeysAreKept'
  OBVIOUS
<1>k. \A l \in sent : Kept(l) => Kept(l)'
  BY KeptStays DEF Inv, TypeOK
<1>1. CASE sent' \ stream' \subseteq sent \ stream
  BY <1>k, <1>1 DEF KeptInv, KeysAreKept
<1>2. ASSUME NEW r \in Replicas, AckAndDelete(r) PROVE KeysAreKept'
  <2>1. sent' = sent /\ stream' = stream \ sync[r].batch /\ \A l \in sync[r].batch : Kept(l)
    BY <1>2 DEF AckAndDelete, KeptInv, Handled
  <2>2. \A l \in sent' \ stream' : l \in sent /\ Kept(l)
    BY <2>1 DEF KeptInv, KeysAreKept
  <2> QED
    BY <1>k, <2>2 DEF KeysAreKept
<1>3. ASSUME NEW l \in pending, XaddDone(l) \/ XaddFails(l)
      PROVE  sent' \ stream' \subseteq sent \ stream
  BY <1>3 DEF XaddDone, XaddFails
<1>4. ASSUME NEW r \in Replicas, Sync(r) \/ FailSync(r), ~AckAndDelete(r)
      PROVE  UNCHANGED <<sent, stream>>
  BY <1>4 DEF Sync, FailSync, Receive, ResolveJobRunIds, InsertResolvedLogs, InsertRejected,
     BufferUnresolvedLogs
<1>5. ASSUME NEW r \in Resolvers, Resolve(r) \/ FailSolver(r) PROVE UNCHANGED <<sent, stream>>
  BY <1>5 DEF Resolve, FailSolver, AcquireLock, SelectBuffered, ResolveBuffered, InsertBuffered,
     BufferedInsertRejected, DeleteResolved, ReleaseLock
<1>6. ASSUME NEW p \in Procs, Work(p) PROVE UNCHANGED <<sent, stream>>
  BY <1>6 DEF Work, StartJob, PrintLine, RunReturns, Flushed, RunThrows, ProcDies
<1>7. ASSUME NEW j \in Jobs, RowAppears(j) \/ RowExpires(j) PROVE UNCHANGED <<sent, stream>>
  BY <1>7 DEF RowAppears, RowExpires
<1>8. LockExpires \/ UNCHANGED vars => UNCHANGED <<sent, stream>>
  BY DEF LockExpires, vars
<1> QED
  BY <1>1, <1>2, <1>3, <1>4, <1>5, <1>6, <1>7, <1>8 DEF Next

(* Every step keeps a line of every key.                                   *)
LEMMA NextKeeps == Inv /\ KeptInv /\ [Next]_vars => KeptInv'
<1> SUFFICES ASSUME Inv, KeptInv, [Next]_vars PROVE KeptInv'
  OBVIOUS
<1>1. ASSUME NEW r \in Replicas PROVE Handled(r)'
  <2>1. CASE \E q \in Replicas : Sync(q) \/ FailSync(q)
    BY <2>1, SyncHandles, BatchRests
  <2>2. CASE sync' = sync
    BY <2>2, BatchRests
  <2>3. ASSUME NEW p \in Procs, Work(p) PROVE sync' = sync
    BY <2>3 DEF Work, StartJob, PrintLine, RunReturns, Flushed, RunThrows, ProcDies
  <2>4. ASSUME NEW q \in Resolvers, Resolve(q) \/ FailSolver(q) PROVE sync' = sync
    BY <2>4 DEF Resolve, FailSolver, AcquireLock, SelectBuffered, ResolveBuffered,
       InsertBuffered, BufferedInsertRejected, DeleteResolved, ReleaseLock
  <2>5. \/ \E l \in pending : XaddDone(l) \/ XaddFails(l)
        \/ \E j \in Jobs : RowAppears(j) \/ RowExpires(j)
        \/ LockExpires \/ UNCHANGED vars
        => sync' = sync
    BY DEF XaddDone, XaddFails, RowAppears, RowExpires, LockExpires, vars
  <2> QED
    BY <2>1, <2>2, <2>3, <2>4, <2>5 DEF Next
<1>2. ASSUME NEW r \in Resolvers PROVE MovedOn(r)'
  <2>1. CASE \E q \in Resolvers : Resolve(q) \/ FailSolver(q)
    BY <2>1, ResolveMovesOn, RowsRest
  <2>2. CASE solver' = solver
    BY <2>2, RowsRest
  <2>3. ASSUME NEW p \in Procs, Work(p) PROVE solver' = solver
    BY <2>3 DEF Work, StartJob, PrintLine, RunReturns, Flushed, RunThrows, ProcDies
  <2>4. ASSUME NEW q \in Replicas, Sync(q) \/ FailSync(q) PROVE solver' = solver
    BY <2>4 DEF Sync, FailSync, Receive, ResolveJobRunIds, InsertResolvedLogs, InsertRejected,
       BufferUnresolvedLogs, AckAndDelete
  <2>5. \/ \E l \in pending : XaddDone(l) \/ XaddFails(l)
        \/ \E j \in Jobs : RowAppears(j) \/ RowExpires(j)
        \/ LockExpires \/ UNCHANGED vars
        => solver' = solver
    BY DEF XaddDone, XaddFails, RowAppears, RowExpires, LockExpires, vars
  <2> QED
    BY <2>1, <2>2, <2>3, <2>4, <2>5 DEF Next
<1> QED
  BY <1>1, <1>2, NextKeepsSources, NextKeepsKeys DEF KeptInv

(* Both invariants hold.                                                   *)
LEMMA KeptHolds == Spec => [](Inv /\ KeptInv)
<1>1. Init => KeptInv
  BY DEF Init, KeptInv, Sources, KeysAreKept, Handled, MovedOn, Waiting, Resting, At
<1> QED
  BY <1>1, InitInv, NextInv, NextKeeps, PTL DEF Spec

(* For every line that has left the stream one of its key is in job_logs   *)
(* or in the buffer, or its job has expired: whatever fails, dies or runs  *)
(* out of its lock between persistLogEvents, resolveBufferedJobLogs and    *)
(* the acknowledgement.                                                    *)
THEOREM EveryKeyIsKept == Spec => []KeysAreKept
<1>1. KeptInv => KeysAreKept
  BY DEF KeptInv
<1> QED
  BY <1>1, KeptHolds, PTL

(* The attempts of a job print in one process.                             *)
OneProcessPerJob == \A l, m \in sent : l.job = m.job => l.text[1] = m.text[1]

(* No line that has left the stream is lost as long as the attempts of     *)
(* each job have printed in one process.  (Two processes may print in one  *)
(* millisecond at one place; then the unique index keeps one of the two.)  *)
THEOREM LinesOfOneProcessAreKept == Spec => [](OneProcessPerJob => LogsAreKept)
<1>1. Inv /\ KeptInv /\ ClockInv /\ OneProcessPerJob => LogsAreKept
  <2> SUFFICES ASSUME Inv, KeptInv, ClockInv, OneProcessPerJob,
                      NEW l \in sent \ stream, row[l.job] # "expired"
               PROVE  l \in jobLogs \union Buffered
    BY DEF LogsAreKept
  <2>1. Kept(l)
    BY DEF KeptInv, KeysAreKept
  <2>2. PICK m \in jobLogs \union Buffered : Key(m) = Key(l)
    BY <2>1 DEF Kept, Listed, Buffered
  <2>3. m \in sent
    BY <2>2 DEF KeptInv, Sources, Buffered
  <2>4. m.job = l.job /\ m.ts = l.ts /\ m.seq = l.seq
    BY <2>2 DEF Key
  <2>5. SamePlace(l, m)
    BY <2>3, <2>4 DEF SamePlace, OneProcessPerJob
  <2>6. l = m
    BY <2>3, <2>5 DEF ClockInv, PlacesDiffer, Printed
  <2> QED
    BY <2>2, <2>6
<1> QED
  BY <1>1, KeptHolds, ClockHolds, PTL
=============================================================================
