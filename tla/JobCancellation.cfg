\* A job with two attempts, two callers that cancel it, a replay.
\* The system stops once the calls are used up and the job is over.
SPECIFICATION FairSpec
CONSTANTS
  NoJob = NoJob
  Queues = {q1}
  Ids = {i1}
  Callers = {u1, u2}
  MaxAttempts = 2
  MaxCalls = 3
  MaxFaults = 1
INVARIANTS UnheardNotFailed
PROPERTIES CancelWorks
CHECK_DEADLOCK FALSE
