------------------------------- MODULE Dashboard -------------------------------
(***************************************************************************)
(* What the web application makes of the hourly counts: the run graph of   *)
(* the dashboard (api/dashboard/summary/handler.ts) and the chart of a     *)
(* queue (api/queues/table/route.ts), over the last half hours p.  The     *)
(* other figures of the dashboard are plain sums over the rows of the      *)
(* graph, of the columns left out in Maintenance or by queue.              *)
(*                                                                         *)
(* A request takes its dates at once, in the half hour "at", and sends     *)
(* its statements, each a transaction of its own: every operator below is  *)
(* what one statement counts in the state in which it is carried out.      *)
(* Jobs of the half hour of a request are taken to be older than it.       *)
(***************************************************************************)
EXTENDS Maintenance

CONSTANTS
  Periods,    \* the periods one can choose, in days
  LongPeriod, \* a period as long as this is shown by the day: eight days
  Day,
  MaxWait     \* bound on how long the statements of a request take

ASSUME DashboardAssumption ==
  /\ {LongPeriod, MaxWait} \subseteq Nat
  /\ Day \in Nat \ {0} /\ Day % Hour = 0
  /\ Periods \subseteq {p \in Nat : p % Day = 0}

Floor(t, step) == t - (t % step)

(* Nothing is older than the clock.                                        *)
DateFrom(p, at) == IF p > at THEN 0 ELSE at - p

(* graphInterval                                                           *)
Interval(p) == IF p < LongPeriod THEN Hour ELSE Day

BucketFrom(p, at) == Floor(DateFrom(p, at), Interval(p))

(* getDashboardWindow: the buckets of the queues in it.                    *)
StatRows == [p \in Periods |-> [at \in Time |->
  {h \in Hours : BucketFrom(p, at) <= h /\ h <= at} \X Queues]]

(* date_trunc of the buckets to the interval.                              *)
OfPlace == [t \in Time |-> [p \in Periods |-> [at \in Time |->
  {row \in StatRows[p][at] : Floor(row[1], Interval(p)) = t}]]]

(* Mutant of Steps: the loop goes by the day whatever the interval is.     *)
StepsByDay(from, to, step) == {t \in Time : from <= t /\ t <= to /\ (t - from) % Day = 0}

(* The loops of fillRunGraph and fillChartData.                            *)
Steps(from, to, step) == {t \in Time : from <= t /\ t <= to /\ (t - from) % step = 0}

(* SUM of numbers of runs: each run as often as a row counts it.           *)
Sum(rows, field) ==
  Cardinality({pair \in rows \X Jobs : pair[2] \in rollups[pair[1][1]][pair[1][2]][field]})

-----------------------------------------------------------------------------
(* The run graph of the dashboard, by hours or by days, with zero where    *)
(* there are no rows.                                                      *)

GraphPlaces == [p \in Periods |-> [at \in Time |->
  {Floor(d, Interval(p)) : d \in Steps(BucketFrom(p, at), at, Interval(p))}]]

RunGraph(p, at) == [t \in GraphPlaces[p][at] |-> Sum(OfPlace[t][p][at], "total")]

-----------------------------------------------------------------------------
(* The chart of a queue: hours that are over from the rollups, the current *)
(* one from job_runs, in two statements.                                   *)

ChartPlaces == [p \in Periods |-> [at \in Time |->
  {Floor(d, Interval(p)) : d \in Steps(DateFrom(p, at), at, Interval(p))}]]

PastRows == [t \in Time |-> [q \in Queues |-> [p \in Periods |-> [at \in Time |->
  {row \in OfPlace[t][p][at] : row[2] = q /\ row[1] < StartOfHour(at)}]]]]

(* Mutant of LiveRuns: the last full hour is counted as well.              *)
LiveFromLastHour(t, q, p, at) ==
  {j \in Stored :
     /\ QueueOf[j] = q /\ runs[j] = "completed"
     /\ StartOfHour(at) <= born[j] + Hour /\ born[j] <= at
     /\ Floor(born[j], Interval(p)) = t}

LiveRuns(t, q, p, at) ==
  {j \in Stored :
     /\ QueueOf[j] = q /\ runs[j] = "completed"
     /\ StartOfHour(at) <= born[j] /\ born[j] <= at
     /\ Floor(born[j], Interval(p)) = t}

Chart(q, p, at) ==
  [t \in ChartPlaces[p][at] |->
     Sum(PastRows[t][q][p][at], "done") + Cardinality(LiveRuns(t, q, p, at))]

-----------------------------------------------------------------------------
(* When a request came of which a statement is carried out now.            *)
Requests == {at \in Time : at <= now /\ now <= at + MaxWait}

(* The runs that the rows count, and those created in a place of a chart.  *)
RunsOf(rows, field) == UNION {rollups[row[1]][row[2]][field] : row \in rows}

CreatedIn(t, p) == {j \in Jobs : born[j] # Unborn /\ Floor(born[j], Interval(p)) = t}

(* The hour of the run is over and its rollup was made, and is still kept. *)
Summarised(j) ==
  LET h == StartOfHour(born[j]) IN
  h + Hour <= now /\ <<"rollup", h + Hour>> \notin spoiled /\ ~Expired(h)

(* The run graph counts no run twice, and each in the place of its         *)
(* creation; it has a place for every hour of the window, with every run   *)
(* there that was stored in its hour, unless the rollup of the hour failed *)
(* (handler.ts: getRunGraphRows and fillRunGraph).                         *)
RunGraphCountsOnce ==
  \A at \in Requests, p \in Periods :
    LET graph == RunGraph(p, at)
        held(t) == RunsOf(OfPlace[t][p][at], "total")
    IN
    /\ \A t \in DOMAIN graph :
         graph[t] = Cardinality(held(t)) /\ held(t) \subseteq CreatedIn(t, p)
    /\ Quiet => \A j \in inHour :
         Summarised(j) /\ BucketFrom(p, at) <= born[j] /\ born[j] <= at =>
           LET t == Floor(born[j], Interval(p)) IN t \in DOMAIN graph /\ j \in held(t)

(* A place of a queue's chart counts runs created there, no run twice:     *)
(* those of the rollups before the hour of the request, those of job_runs  *)
(* in it, so that this holds of the two statements in whatever states they *)
(* are carried out.  And no completed run is missing on either side of the *)
(* hour: not one that is stored and of the current hour, nor one that was  *)
(* completed in an hour that is over, unless its rollup failed (route.ts). *)
ChartCountsOnce ==
  \A at \in Requests, p \in Periods, q \in Queues :
    LET chart == Chart(q, p, at)
        past(t) == RunsOf(PastRows[t][q][p][at], "done")
        live(t) == LiveRuns(t, q, p, at)
        here(t) == {j \in CreatedIn(t, p) : QueueOf[j] = q}
    IN
    /\ \A t \in DOMAIN chart :
         /\ chart[t] = Cardinality(past(t)) + Cardinality(live(t))
         /\ past(t) \subseteq {j \in here(t) : born[j] < StartOfHour(at)}
         /\ live(t) \subseteq {j \in here(t) : born[j] >= StartOfHour(at)}
    /\ Quiet => \A j \in Jobs :
         /\ QueueOf[j] = q /\ BucketFrom(p, at) <= born[j] /\ born[j] <= at
         /\ \/ born[j] >= StartOfHour(at) /\ runs[j] = "completed"
            \/ born[j] < StartOfHour(at) /\ j \in inHourDone /\ Summarised(j)
         => LET t == Floor(born[j], Interval(p)) IN
            t \in DOMAIN chart /\ j \in past(t) \union live(t)

=============================================================================
