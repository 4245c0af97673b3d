\* A job that BullMQ keeps or drops; two workers; one fault: a stall, a lost event, ...
SPECIFICATION Spec
CONSTANTS
  NoJob = NoJob
  Nobody = Nobody
  Jobs = {j1}
  Workers = {w1, w2}
  Reconcilers = {r1}
  MaxAttempts = 1
  MaxEntries = 4
  BatchSize = 2
  MaxFaults = 1
  Removal = {TRUE, FALSE}
  ReasonTellsOutcome = TRUE
SYMMETRY MCSymmetry
INVARIANTS TypeOK TerminalIsTrue UnknownMeansGone
PROPERTIES FinishedStaysFinished TagsSurvive
