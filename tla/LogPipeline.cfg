\* A process given two jobs; one fault; lines inserted one by one, read and resolved in twos.
SPECIFICATION FairSpec
CONSTANTS
  NoJob = NoJob
  Nobody = Nobody
  Jobs = {j1}
  Procs = {p1}
  Rowless = {}
  Replicas = {r1}
  Resolvers = {r1}
  StreamBatch = 2
  BufferBatch = 2
  ChunkSize = 1
  MaxClock = 1
  MaxLogs = 2
  MaxCalls = 2
  MaxFaults = 1
CHECK_DEADLOCK FALSE
INVARIANTS TypeOK LogsAreKept NoneShownForGoneJobs FirstJobFlushed
PROPERTIES LogsArrive
