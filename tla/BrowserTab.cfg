\* Five jobs, three queues, pages of two; four clicks while one row changes.
\* Lists of five entries, of which two come or go; one failure each.
SPECIFICATION BrowserSpec
CONSTANTS
  Rows <- MCRows
  Queues <- MCQueues
  Created <- MCCreated
  QueueOf <- MCQueueOf
  Pressure <- MCPressure
  JobIdOf <- MCJobIdOf
  StartTable <- MCStartTable
  Limit = 2
  MaxClicks = 4
  MaxChanges = 1
  MaxFaults = 1
  JobNamed = {2}
  Entries = {1, 2, 3, 4, 5}
  PageSize = 2
  MaxTouched = 2
  MaxListFaults = 1
CHECK_DEADLOCK FALSE
INVARIANTS WalkShowsAll LogsShownInOrder SelectorShowsAll DataIsForTheQueue
PROPERTIES PreviousComesBack FrozenWhilePaused
