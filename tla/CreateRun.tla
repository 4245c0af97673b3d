------------------------------- MODULE CreateRun -------------------------------
(***************************************************************************)
(* The form that creates a job (runs/create/page.tsx).  The data of the    *)
(* last run of the selected queue, which may change meanwhile, is put in   *)
(* the form by an effect that runs whenever this data, the queue or the    *)
(* name in the form changes.  When the job is created the tab goes to      *)
(* /runs, with the query client it has.                                    *)
(***************************************************************************)
EXTENDS WebTables

CONSTANT JobNamed  \* the rows whose job has a name that ends with "-job"

ASSUME CreateRunAssumption == JobNamed \subseteq Rows

VARIABLES
  tab,       \* the page the tab is on
  form,      \* the fields: what they hold, and for the data under which queue it got there
  lastRun,   \* ["jobs/last-run-data", queue] of the query client
  creating   \* the request under way

formVars == <<tab, form, lastRun, creating>>

(* NoQueue is the empty selection; NoRun the answer { data: null }.        *)
NoQueue == 0
NoRun == 0
Nothing == [of |-> None, id |-> 0]

EmptyForm == [queue |-> NoQueue, name |-> Nothing, data |-> Nothing, under |-> NoQueue]

EndsWithJob(name) ==
  \/ name.of = "queue" \/ (name.of = "run" /\ name.id \in JobNamed)

(* getLastRunDataHandler                                                   *)
LastRunData(q) ==
  LET runs == {r \in Present(table) : QueueOf[r] = q} IN
  IF runs = {} THEN {NoRun} ELSE {r \in runs : \A o \in runs : Created[o] <= Created[r]}

(* Mutant of Prefilled: what is in the form already is not written over.   *)
PrefilledOnce(f, last) ==
  IF f.queue \notin DOMAIN last \/ f.data # Nothing THEN f
  ELSE IF last[f.queue] = NoRun THEN f
  ELSE LET run == [of |-> "run", id |-> last[f.queue]] IN
       [f EXCEPT !.data = run, !.under = f.queue, !.name = IF EndsWithJob(@) THEN @ ELSE run]

(* The effect.                                                             *)
Prefilled(f, last) ==
  IF f.queue \notin DOMAIN last THEN f
  ELSE IF last[f.queue] = NoRun THEN f
  ELSE LET run == [of |-> "run", id |-> last[f.queue]] IN
       [f EXCEPT !.data = run, !.under = f.queue, !.name = IF EndsWithJob(@) THEN @ ELSE run]

-----------------------------------------------------------------------------
(* handleQueueChange                                                       *)
SelectQueue(q) ==
  /\ Click
  /\ q # form.queue
  /\ form' = Prefilled([form EXCEPT !.queue = q,
                                    !.name = IF @ = Nothing THEN [of |-> "queue", id |-> q] ELSE @],
                       lastRun)
  /\ UNCHANGED <<tableVars, lastRun, creating>>

(* What was there before, if it is no different, leaves the effect alone.  *)
LastRunLoaded ==
  /\ form.queue # NoQueue
  /\ \E run \in LastRunData(form.queue) :
       /\ lastRun' = Put(lastRun, form.queue, run)
       /\ form' = IF lastRun' = lastRun THEN form ELSE Prefilled(form, lastRun')
  /\ UNCHANGED <<tableVars, clicks, creating>>

TypeName(name) ==
  /\ Click
  /\ form' = Prefilled([form EXCEPT !.name = name], lastRun)
  /\ UNCHANGED <<tableVars, lastRun, creating>>

EditData(text) ==
  /\ Click
  /\ form' = [form EXCEPT !.data = [of |-> text, id |-> 0], !.under = form.queue]
  /\ UNCHANGED <<tableVars, lastRun, creating>>

(* handleSubmit                                                            *)
SubmitRun ==
  /\ Click
  /\ creating = EmptyForm
  /\ form.queue # NoQueue /\ form.name # Nothing
  /\ form.data.of # "invalid"
  /\ creating' = form
  /\ UNCHANGED <<tableVars, form, lastRun>>

(* onSuccess: the tab goes to /runs; the job gets its row in its own time. *)
RunCreated ==
  /\ creating # EmptyForm
  /\ tab' = "tables"
  /\ form' = EmptyForm /\ creating' = EmptyForm /\ lastRun' = <<>>
  /\ touched' = {}
  /\ UNCHANGED <<table, changes, pageVars, dataVars, selected, bulk, clicks, faults>>

CreateFails ==
  /\ creating # EmptyForm
  /\ faults < MaxFaults
  /\ faults' = faults + 1
  /\ creating' = EmptyForm
  /\ UNCHANGED <<tab, form, lastRun, tableVars, pageVars, dataVars, selected, bulk, clicks>>

-----------------------------------------------------------------------------
FormInit ==
  /\ tab \in {"tables", "create", "lists"}
  /\ form = EmptyForm /\ creating = EmptyForm
  /\ lastRun = <<>>

Form ==
  \/ \E q \in Queues : SelectQueue(q)
  \/ LastRunLoaded
  \/ \E name \in {Nothing, [of |-> "user", id |-> 0]} : TypeName(name)
  \/ \E text \in {"user", "invalid"} : EditData(text)
  \/ SubmitRun

FormNext ==
  \/ Form /\ UNCHANGED <<tab, pageVars, dataVars, selected, bulk, faults>>
  \/ RunCreated \/ CreateFails
  \/ \E r \in Rows : Change(r) /\ UNCHANGED formVars

-----------------------------------------------------------------------------
(* Once the last run of the selected queue is known, the data in the form  *)
(* is a run's of that queue, or was typed after the queue was selected,    *)
(* whether the answers came late, in another order or from the cache       *)
(* (page.tsx: the effect).  Nothing is said of a queue that has no run, or *)
(* whose answer is still to come: the effect then leaves what the queue    *)
(* before put there.                                                       *)
DataIsForTheQueue ==
  form.queue \in DOMAIN lastRun /\ lastRun[form.queue] # NoRun =>
    /\ form.under = form.queue
    /\ form.data.of = "run" => QueueOf[form.data.id] = form.queue

=============================================================================
