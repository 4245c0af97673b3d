\* A page that shows the table of queues, which two kinds of changes concern.
SPECIFICATION FairSpec
CONSTANTS
  Kinds = {"queue", "scheduler"}
  Queries = {"queues/table"}
  MaxAttempts = 1
  MaxVersions = 2
  MaxLosses = 1
INVARIANTS BehindOnlyForAWhile
PROPERTIES PageCatchesUp ConnectedOrGaveUp
