\* Two replicas, one crash or failed task, a job that expires; three hours.
SPECIFICATION Spec
CONSTANTS
  Replicas = {r1, r2}
  Jobs = {j1}
  QueueOf <- MCQueueOf
  TagOf <- MCTagOf
  Retention = 2
  MaxTime = 4
  MaxFaults = 1
  Periods = {4, 8}
  LongPeriod = 8
  Day = 4
  MaxWait = 1
SYMMETRY MCSymmetry
CHECK_DEADLOCK FALSE
INVARIANTS HoursAreCounted TagsAreListed OldRunsStayGone RunGraphCountsOnce ChartCountsOnce
