\* One queue with one scheduler, two replicas, one user.
SPECIFICATION FairSpec
CONSTANTS
  None = None
  Nobody = Nobody
  Queues = {q1}
  Keys = {k1}
  Specs = {s1}
  Ends = {}
  Pollers = {p1, p2}
  Users = {u1}
  Concurrency = 1
  MaxChanges = 1
  MaxFaults = 1
INVARIANTS OneTickInTime
PROPERTIES PresentQueuesKept BoardSettles
