------------------------------ MODULE BrowserTab ------------------------------
(***************************************************************************)
(* A tab of the web application: on one of the tables, on the form that    *)
(* creates a job, which leads to /runs, or on a list that grows as one     *)
(* scrolls (a run opens in a tab of its own).                              *)
(***************************************************************************)
EXTENDS CreateRun, InfiniteLists

BrowserInit ==
  /\ FormInit /\ Init /\ ListInit
  /\ tab # "tables" => url = Runs
  /\ tab # "lists" => list = "logs" /\ stored = {}

OnTables == tab = "tables" /\ Next /\ UNCHANGED <<formVars, listVars>>

OnForm == tab = "create" /\ FormNext /\ UNCHANGED listVars

OnList == tab = "lists" /\ ListNext /\ UNCHANGED <<formVars, vars>>

BrowserNext == OnTables \/ OnForm \/ OnList

BrowserSpec == BrowserInit /\ [][BrowserNext]_<<vars, formVars, listVars>>

=============================================================================
