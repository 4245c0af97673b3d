---------------------------- MODULE MCBrowserTab ----------------------------
(* A small instance of BrowserTab: five jobs, of which one is still to      *)
(* come; rows 1 and 2 are of two queues and have the same jobId.           *)
EXTENDS BrowserTab

MCRows == 1..5
MCQueues == 1..3
MCCreated == <<1, 1, 1, 2, 2>>
MCQueueOf == <<1, 2, 1, 2, 1>>
MCPressure == <<1, 0, 1>>
MCJobIdOf == <<1, 1, 2, 3, 4>>
MCStartTable ==
  << [status |-> "completed", duration |-> 2], [status |-> "active", duration |-> 0],
     Absent, [status |-> "completed", duration |-> 1], [status |-> "waiting", duration |-> 0] >>

=============================================================================
