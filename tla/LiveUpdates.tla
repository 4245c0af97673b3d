---------------------------- MODULE LiveUpdates ----------------------------
(***************************************************************************)
(* How a change of the tables reaches a page that is open: an ingest       *)
(* replica publishes refresh events (lib/ingest-events.ts), the WebSocket  *)
(* server of each replica forwards them, at most one per key and second    *)
(* (lib/websocket-server.ts), and the browser invalidates the queries they *)
(* concern, which are fetched again (apps/app/src/hooks/use-websocket.tsx).*)
(***************************************************************************)
EXTENDS Naturals, FiniteSets

CONSTANTS
  Kinds,        \* kinds of changes: a subset of {"job", "log", "queue", "scheduler"}
  Queries,      \* the queries of the page that is open
  MaxAttempts,  \* maxReconnectAttempts
  MaxVersions,  \* bound on the changes of each kind
  MaxLosses     \* bound on lost events, failed fetches, lost connections and restarts

ASSUME LiveUpdatesAssumption ==
  /\ Kinds \subseteq {"job", "log", "queue", "scheduler"}
  /\ Queries \subseteq {"jobs/table", "jobs/single", "jobs/logs", "queues/table"}
  /\ {MaxAttempts, MaxVersions, MaxLosses} \subseteq Nat

(* What is published when a row of this kind has changed.                  *)
Published(kind) ==
  CASE kind = "job" -> {"single-job-refresh", "job-refresh"}
    [] kind = "log" -> {"job-log-refresh"}
    [] kind = "queue" -> {"single-queue-refresh", "queue-refresh"}
    [] kind = "scheduler" -> {"single-job-scheduler-refresh", "job-scheduler-refresh"}

(* invalidateQueries; the statistics go with the tables.                   *)
Invalidates(event) ==
  CASE event = "job-refresh" -> {"jobs/table"}
    [] event = "single-job-refresh" -> {"jobs/single"}
    [] event \in {"queue-refresh", "job-scheduler-refresh"} -> {"queues/table"}
    [] event = "job-log-refresh" -> {"jobs/logs"}
    [] OTHER -> {}

(* The queries of the page the events in S concern.                        *)
Concerned(S) == Queries \intersect UNION {Invalidates(event) : event \in S}

(* The other events pass by the page.                                      *)
Events == {event \in UNION {Published(kind) : kind \in Kinds} : Concerned({event}) # {}}

(* The kinds of rows a query lists.                                        *)
Lists(q) ==
  CASE q \in {"jobs/table", "jobs/single"} -> {"job"}
    [] q = "jobs/logs" -> {"log"}
    [] q = "queues/table" -> {"queue", "scheduler"}

VARIABLES
  version,   \* how often the rows of a kind have changed
  unsent,    \* events that are not published yet
  channel,   \* events on their way from Redis to the server
  server,    \* is the server up, and its subscription
  throttle,  \* of each event: has a second passed, is it pending, its timer
  link,      \* the browser's connection: where it is, attempts, is a retry set
  wire,      \* events on their way to the browser
  queries,   \* of each query: what it shows, its fetch and what that has read
  unreached, \* the queries an event has not reached since they were last read,
             \* or whose fetch has failed
  swallowed, \* those an event has reached during their first fetch, too late
  losses

serverVars == <<channel, server, throttle>>
browserVars == <<link, queries>>
missedVars == <<unreached, swallowed>>
liveVars == <<version, unsent, serverVars, browserVars, wire, missedVars, losses>>

Unthrottled == [passed |-> TRUE, pending |-> FALSE, timer |-> "off"]

Throttle == [passed : BOOLEAN, pending : BOOLEAN, timer : {"off", "running", "due"}]

Server == [up : BOOLEAN, subscription : {"off", "asked", "on"}]

Versions == [Kinds -> 0..MaxVersions]

Link == [at : {"closed", "opening", "open"}, attempts : 0..MaxAttempts, retry : BOOLEAN]

Cached == [loaded : BOOLEAN, shown : Versions, fetch : {"idle", "asked", "read"}, got : Versions]

Fault == losses < MaxLosses /\ losses' = losses + 1

OlderThanTables(v, q) == \E kind \in Lists(q) \intersect Kinds : v[kind] < version[kind]

Behind(q) == OlderThanTables(queries[q].shown, q)

Lose(S) == unreached' = unreached \union Concerned(S) /\ UNCHANGED swallowed

-----------------------------------------------------------------------------
(* Ingestion: a row is written, then its events are published.             *)

RowsChange(kind) ==
  /\ version[kind] < MaxVersions
  /\ version' = [version EXCEPT ![kind] = @ + 1]
  /\ unsent' = unsent \union (Published(kind) \intersect Events)
  /\ UNCHANGED <<serverVars, browserVars, wire, missedVars, losses>>

Publish(event) ==
  /\ event \in unsent
  /\ unsent' = unsent \ {event}
  /\ IF server.subscription = "on"
       THEN channel' = channel \union {event} /\ UNCHANGED missedVars
       ELSE Lose({event}) /\ UNCHANGED channel
  /\ UNCHANGED <<version, server, throttle, browserVars, wire, losses>>

(* publishIngestEvent: the failure is logged.                              *)
PublishFails(event) ==
  /\ event \in unsent
  /\ Fault
  /\ unsent' = unsent \ {event}
  /\ Lose({event})
  /\ UNCHANGED <<version, serverVars, browserVars, wire>>

-----------------------------------------------------------------------------
(* websocket-server.ts.                                                    *)

(* sendToAll                                                               *)
Send(event) ==
  IF link.at = "open" THEN wire' = wire \union {event} /\ UNCHANGED missedVars
  ELSE Lose({event}) /\ UNCHANGED wire

(* Mutant of Broadcast: an event within the second is dropped.             *)
BroadcastOrDrop(event) ==
  /\ event \in channel
  /\ channel' = channel \ {event}
  /\ IF throttle[event].passed
       THEN Send(event) /\ throttle' = [throttle EXCEPT ![event].passed = FALSE]
       ELSE UNCHANGED <<throttle, wire, missedVars>>
  /\ UNCHANGED <<version, unsent, server, browserVars, losses>>

Broadcast(event) ==
  /\ event \in channel
  /\ channel' = channel \ {event}
  /\ IF throttle[event].passed
       THEN Send(event) /\ throttle' = [throttle EXCEPT ![event].passed = FALSE]
       ELSE /\ throttle' = [throttle EXCEPT
                 ![event].pending = TRUE,
                 ![event].timer = IF @ = "off" THEN "running" ELSE @]
            /\ UNCHANGED <<wire, missedVars>>
  /\ UNCHANGED <<version, unsent, server, browserVars, losses>>

SecondPasses(event) ==
  /\ ~throttle[event].passed
  /\ throttle' = [throttle EXCEPT ![event].passed = TRUE,
                                  ![event].timer = IF @ = "running" THEN "due" ELSE @]
  /\ UNCHANGED <<version, unsent, channel, server, browserVars, wire, missedVars, losses>>

(* The timer's callback.                                                   *)
TimerFires(event) ==
  /\ throttle[event].timer = "due"
  /\ throttle' = [throttle EXCEPT ![event] = [passed |-> FALSE, pending |-> FALSE,
                                              timer |-> "off"]]
  /\ Send(event)
  /\ UNCHANGED <<version, unsent, channel, server, browserVars, losses>>

-----------------------------------------------------------------------------
(* The socket.                                                             *)

(* Mutant of Closed: only a connection that was open is tried again.       *)
ClosedAfterOpen ==
  link' = [at |-> "closed", attempts |-> link.attempts,
           retry |-> link.at = "open" /\ link.attempts < MaxAttempts]

(* onclose: a retry is set, unless there have been enough.                 *)
Closed ==
  link' = [at |-> "closed", attempts |-> link.attempts, retry |-> link.attempts < MaxAttempts]

(* The connection breaks: what was on the wire is gone.                    *)
LoseConnection ==
  /\ link.at = "open"
  /\ Fault
  /\ Closed
  /\ wire' = {}
  /\ Lose(wire)
  /\ UNCHANGED <<version, unsent, serverVars, queries>>

Crash ==
  /\ server.up
  /\ Fault
  /\ server' = [up |-> FALSE, subscription |-> "off"]
  /\ throttle' = [event \in Events |-> Unthrottled]
  /\ channel' = {}
  /\ wire' = {}
  /\ IF link.at = "open" THEN Closed ELSE UNCHANGED link
  /\ Lose(channel \union wire \union {event \in Events : throttle[event].pending})
  /\ UNCHANGED <<version, unsent, queries>>

StartServer ==
  /\ ~server.up
  /\ server' = [up |-> TRUE, subscription |-> "asked"]
  /\ UNCHANGED <<version, unsent, channel, throttle, browserVars, wire, missedVars, losses>>

(* setupRedisSubscriber, which clients do not wait for.                    *)
Subscribe ==
  /\ server.subscription = "asked"
  /\ server' = [up |-> server.up, subscription |-> "on"]
  /\ UNCHANGED <<version, unsent, channel, throttle, browserVars, wire, missedVars, losses>>

(* psubscribe is refused: the server goes on without a subscription.       *)
SubscribeFails ==
  /\ server.subscription = "asked"
  /\ Fault
  /\ server' = [up |-> server.up, subscription |-> "off"]
  /\ UNCHANGED <<version, unsent, channel, throttle, browserVars, wire, missedVars>>

(* onopen resets the attempts; no query is fetched again.                  *)
Open ==
  /\ link.at = "opening"
  /\ server.up
  /\ link' = [at |-> "open", attempts |-> 0, retry |-> link.retry]
  /\ UNCHANGED <<version, unsent, serverVars, queries, wire, missedVars, losses>>

Refused ==
  /\ link.at = "opening"
  /\ ~server.up
  /\ Closed
  /\ UNCHANGED <<version, unsent, serverVars, queries, wire, missedVars, losses>>

(* The timer that onclose has set.                                         *)
Reconnect ==
  /\ link.at = "closed"
  /\ link.retry
  /\ link' = [at |-> "opening", attempts |-> link.attempts + 1, retry |-> FALSE]
  /\ UNCHANGED <<version, unsent, serverVars, queries, wire, missedVars, losses>>

-----------------------------------------------------------------------------
(* The query client.                                                       *)

Ask(row) == [row EXCEPT !.fetch = "asked"]

(* Mutant of Receive: a fetch in flight is left alone.                     *)
ReceiveUnlessFetching(event) ==
  /\ event \in wire
  /\ wire' = wire \ {event}
  /\ queries' = [q \in Queries |->
       IF q \in Concerned({event}) /\ queries[q].fetch = "idle"
         THEN Ask(queries[q]) ELSE queries[q]]
  /\ UNCHANGED <<version, unsent, serverVars, link, missedVars, losses>>

(* onmessage. invalidateQueries fetches again, and cancels a fetch that is *)
(* in flight, but the first one: a query that shows nothing has nothing to *)
(* go back to.  If that one has read the tables already, the event does    *)
(* nothing, although it was delivered.                                     *)
Receive(event) ==
  /\ event \in wire
  /\ wire' = wire \ {event}
  /\ queries' = [q \in Queries |->
       IF q \in Concerned({event}) /\ (queries[q].loaded \/ queries[q].fetch = "idle")
         THEN Ask(queries[q]) ELSE queries[q]]
  /\ swallowed' = swallowed \union
       {q \in Concerned({event}) : ~queries[q].loaded /\ queries[q].fetch = "read"}
  /\ UNCHANGED <<version, unsent, serverVars, link, unreached, losses>>

(* The API route reads the tables.                                         *)
Read(q) ==
  /\ queries[q].fetch = "asked"
  /\ queries' = [queries EXCEPT ![q].fetch = "read", ![q].got = version]
  /\ unreached' = unreached \ {q} /\ swallowed' = swallowed \ {q}
  /\ UNCHANGED <<version, unsent, serverVars, link, wire, losses>>

QueryFetched(q) ==
  /\ queries[q].fetch = "read"
  /\ queries' = [queries EXCEPT ![q].loaded = TRUE, ![q].shown = queries[q].got,
                                ![q].fetch = "idle"]
  /\ UNCHANGED <<version, unsent, serverVars, link, wire, missedVars, losses>>

(* The fetch and its retry fail; what was shown stays.                     *)
QueryFails(q) ==
  /\ queries[q].fetch # "idle"
  /\ Fault
  /\ queries' = [queries EXCEPT ![q].fetch = "idle"]
  /\ unreached' = unreached \union {q}
  /\ UNCHANGED <<version, unsent, serverVars, link, wire, swallowed>>

(* The window gets the focus: what is stale is fetched.                    *)
WindowFocus(q) ==
  /\ queries[q].fetch = "idle"
  /\ queries' = [queries EXCEPT ![q].fetch = "asked"]
  /\ UNCHANGED <<version, unsent, serverVars, link, wire, missedVars, losses>>

-----------------------------------------------------------------------------
(* The page opens: its queries are fetched while it connects.              *)
LiveInit ==
  /\ version = [kind \in Kinds |-> 0]
  /\ unsent = {}
  /\ channel = {}
  /\ server \in [up : {TRUE}, subscription : {"asked", "on"}]
  /\ throttle = [event \in Events |-> Unthrottled]
  /\ link = [at |-> "opening", attempts |-> 0, retry |-> FALSE]
  /\ wire = {}
  /\ queries = [q \in Queries |->
                [loaded |-> FALSE, shown |-> version, fetch |-> "asked", got |-> version]]
  /\ unreached = {} /\ swallowed = {}
  /\ losses = 0

Serve(event) == Broadcast(event) \/ SecondPasses(event) \/ TimerFires(event)

LiveNext ==
  \/ \E kind \in Kinds : RowsChange(kind)
  \/ \E event \in Events : Publish(event) \/ PublishFails(event) \/ Serve(event) \/ Receive(event)
  \/ \E q \in Queries : Read(q) \/ QueryFetched(q) \/ QueryFails(q) \/ WindowFocus(q)
  \/ LoseConnection \/ Crash \/ StartServer \/ Subscribe \/ SubscribeFails
  \/ Open \/ Refused \/ Reconnect

LiveSpec == LiveInit /\ [][LiveNext]_liveVars

(* Everything goes on but the user, who need not look at the window.       *)
FairSpec ==
  /\ LiveSpec
  /\ \A event \in Events :
       /\ WF_liveVars(Publish(event)) /\ WF_liveVars(Broadcast(event))
       /\ WF_liveVars(SecondPasses(event))
       /\ WF_liveVars(TimerFires(event)) /\ WF_liveVars(Receive(event))
  /\ \A q \in Queries : WF_liveVars(Read(q)) /\ WF_liveVars(QueryFetched(q))
  /\ WF_liveVars(StartServer) /\ WF_liveVars(Subscribe)
  /\ WF_liveVars(Open) /\ WF_liveVars(Refused) /\ WF_liveVars(Reconnect)

-----------------------------------------------------------------------------
(* Every variable has its type; an event that is pending has its timer,    *)
(* and only an open connection carries events.                             *)
TypeOK ==
  /\ version \in Versions
  /\ unsent \subseteq Events /\ channel \subseteq Events /\ wire \subseteq Events
  /\ server \in Server /\ (server.subscription # "off" => server.up)
  /\ throttle \in [Events -> Throttle]
  /\ \A event \in Events : throttle[event].pending = (throttle[event].timer # "off")
  /\ link \in Link
  /\ link.at = "open" => server.up
  /\ link.retry => link.at = "closed" /\ link.attempts < MaxAttempts
  /\ wire # {} => link.at = "open"
  /\ channel # {} => server.subscription = "on"
  /\ queries \in [Queries -> Cached]
  /\ unreached \union swallowed \subseteq Queries
  /\ losses \in 0..MaxLosses

(* However changes, publications, throttling, the socket and fetches       *)
(* interleave, a query that is behind the tables has an event that         *)
(* concerns it on its way, or a fetch that has not read an older state; or *)
(* else, since it was last read, an event for it was lost or sent while    *)
(* the page was not connected, or its fetch failed, or an event was        *)
(* delivered and swallowed by its first fetch (use-websocket.tsx;          *)
(* websocket-server.ts: sendToAll).                                        *)
BehindOnlyForAWhile ==
  \A q \in Queries : Behind(q) =>
    \/ q \in unreached \union swallowed
    \/ queries[q].fetch = "asked"
    \/ queries[q].fetch = "read" /\ ~OlderThanTables(queries[q].got, q)
    \/ \E event \in Events : q \in Invalidates(event) /\
         (event \in unsent \union channel \union wire \/ throttle[event].pending)

(* Once nothing changes, a query shows the tables as they are, with two    *)
(* exceptions that last until it is fetched again: an event for it was     *)
(* lost, or sent while the page was not connected, or its fetch failed; or *)
(* the event came, to a page that was connected, when the first fetch of   *)
(* the query had read the tables and had not ended.  A query that has      *)
(* loaded never swallows an event (use-websocket.tsx: invalidateQueries).  *)
PageCatchesUp ==
  \A q \in Queries : <>[](Behind(q) => q \in unreached \union swallowed)

(* However often the server restarts and the connection breaks, the socket *)
(* comes to rest: open, or closed after MaxAttempts refusals in a row.     *)
ConnectedOrGaveUp ==
  <>[](link.at = "open" \/ (link.at = "closed" /\ link.attempts = MaxAttempts))
=============================================================================
