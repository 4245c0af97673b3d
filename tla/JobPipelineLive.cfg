\* A job that BullMQ keeps, tried twice; what reconciliation achieves in the end.
SPECIFICATION FairSpec
CONSTANTS
  NoJob = NoJob
  Nobody = Nobody
  Jobs = {j1}
  Workers = {w1}
  Reconcilers = {r1}
  MaxAttempts = 2
  MaxEntries = 3
  BatchSize = 2
  MaxFaults = 0
  Removal = {FALSE}
  ReasonTellsOutcome = TRUE
PROPERTIES FinishedJobsSettle
