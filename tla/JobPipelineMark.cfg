\* BullMQ drops the job while the reconciler looks for it.
SPECIFICATION Spec
CONSTANTS
  NoJob = NoJob
  Nobody = Nobody
  Jobs = {j1}
  Workers = {w1}
  Reconcilers = {r1}
  MaxAttempts = 1
  MaxEntries = 3
  BatchSize = 2
  MaxFaults = 0
  Removal = {TRUE}
  ReasonTellsOutcome = TRUE
PROPERTIES ReconcileOnlyRepairs
