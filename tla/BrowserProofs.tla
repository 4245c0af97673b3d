-------------------------- MODULE BrowserProofs -----------------------------
(***************************************************************************)
(* What LiveUpdates and the browser tab keep, for every number of changes, *)
(* faults, reconnections, rows and pages: that a query behind the tables   *)
(* is about to be fetched or told, or has missed an event; that a paused   *)
(* page is frozen; that the data of a queue's last run is in the form of   *)
(* that queue; that Previous leads back to the page that was left; and     *)
(* that neither the tables nor the lists that grow leave anything out.     *)
(***************************************************************************)
EXTENDS LiveUpdates, BrowserTab, FiniteSetTheorems, FunctionTheorems, SequenceTheorems,
        WellFoundedInduction, TLAPS

-----------------------------------------------------------------------------
(* The queries that may stay behind: an event for them was lost, or sent   *)
(* while the page was not connected, or swallowed by their first fetch, or *)
(* a fetch of theirs failed.                                               *)
Missed == unreached \union swallowed

-----------------------------------------------------------------------------
(* Types.                                                                  *)

(* An event of the page concerns a query of the page.                      *)
LEMMA ConcernedOne ==
  ASSUME NEW event, NEW q \in Queries
  PROVE  q \in Concerned({event}) <=> q \in Invalidates(event)
BY DEF Concerned

(* Send leaves what is on the wire to an open connection only.             *)
LEMMA SendType ==
  ASSUME TypeOK, NEW event \in Events, Send(event), UNCHANGED <<link, server>>
  PROVE  /\ wire' \subseteq Events /\ (wire' # {} => link'.at = "open")
         /\ Missed' \subseteq Queries
BY DEF Send, Lose, Concerned, TypeOK, Missed, missedVars

(* The initial state is typed.                                             *)
LEMMA InitType == LiveInit => TypeOK
<1> SUFFICES ASSUME LiveInit PROVE TypeOK
  OBVIOUS
<1>1. version \in Versions
  BY LiveUpdatesAssumption DEF LiveInit, Versions
<1>2. queries \in [Queries -> Cached]
  BY <1>1 DEF LiveInit, Cached
<1>3. /\ throttle \in [Events -> Throttle]
      /\ \A event \in Events : throttle[event].pending = (throttle[event].timer # "off")
  BY DEF LiveInit, Throttle, Unthrottled
<1>4. link \in Link /\ link.at = "opening" /\ ~link.retry
  BY LiveUpdatesAssumption DEF LiveInit, Link
<1>5. server \in Server /\ server.up
  BY DEF LiveInit, Server
<1>6. /\ unsent = {} /\ channel = {} /\ wire = {} /\ losses \in 0..MaxLosses
      /\ unreached = {} /\ swallowed = {}
  BY LiveUpdatesAssumption DEF LiveInit
<1> QED
  BY <1>1, <1>2, <1>3, <1>4, <1>5, <1>6 DEF TypeOK

(* What the server does to the throttle of an event keeps its type, and a  *)
(* timer for an event that is pending.                                     *)
Timed ==
  /\ throttle \in [Events -> Throttle]
  /\ \A event \in Events : throttle[event].pending = (throttle[event].timer # "off")

(* The four assignments of Broadcast, SecondPasses and TimerFires.         *)
LEMMA OneTimer ==
  ASSUME Timed, NEW event \in Events
  PROVE  /\ throttle' = [throttle EXCEPT ![event].passed = FALSE] => Timed'
         /\ throttle' = [throttle EXCEPT ![event].pending = TRUE,
                            ![event].timer = IF @ = "off" THEN "running" ELSE @] => Timed'
         /\ throttle' = [throttle EXCEPT ![event].passed = TRUE,
                            ![event].timer = IF @ = "running" THEN "due" ELSE @] => Timed'
         /\ throttle' = [throttle EXCEPT ![event] = [passed |-> FALSE, pending |-> FALSE,
                                                     timer |-> "off"]] => Timed'
<1>0. throttle \in [Events -> Throttle]
      /\ \A e \in Events : throttle[e].pending = (throttle[e].timer # "off")
  BY DEF Timed
<1>1. ASSUME throttle' = [throttle EXCEPT ![event].passed = FALSE] PROVE Timed'
  BY <1>0, <1>1 DEF Throttle, Timed
<1>2. ASSUME throttle' = [throttle EXCEPT ![event].pending = TRUE, ![event].timer = IF @ = "off"
               THEN "running" ELSE @]
      PROVE  Timed'
  <2>1. throttle' \in [Events -> Throttle]
    <3>1. PICK timer \in {"off", "running", "due"} :
            timer = IF throttle[event].timer = "off" THEN "running" ELSE throttle[event].timer
      BY <1>0 DEF Throttle
    <3>2. throttle' = [throttle EXCEPT ![event].pending = TRUE, ![event].timer = timer]
      BY <1>2, <3>1
    <3> QED
      BY <1>0, <3>2 DEF Throttle
  <2>2. throttle'[event].pending = TRUE /\ throttle'[event].timer # "off"
    <3>1. throttle[event].timer \in {"off", "running", "due"}
      BY <1>0 DEF Throttle
    <3>2. throttle'[event].timer = IF throttle[event].timer = "off" THEN "running"
                                                                   ELSE throttle[event].timer
      BY <1>0, <1>2 DEF Throttle
    <3>3. throttle'[event].pending = TRUE
      BY <1>0, <1>2 DEF Throttle
    <3> QED
      BY <3>1, <3>2, <3>3
  <2>3. \A e \in Events \ {event} : throttle'[e] = throttle[e]
    BY <1>0, <1>2
  <2>4. throttle'[event].pending = (throttle'[event].timer # "off")
    BY <1>0, <2>2
  <2> QED
    BY <1>0, <2>1, <2>3, <2>4 DEF Timed
<1>3. ASSUME throttle' = [throttle EXCEPT ![event].passed = TRUE,
               ![event].timer = IF @ = "running" THEN "due" ELSE @]
      PROVE  Timed'
  <2>1. throttle' \in [Events -> Throttle]
    <3>1. PICK timer \in {"off", "running", "due"} :
            timer = IF throttle[event].timer = "running" THEN "due" ELSE throttle[event].timer
      BY <1>0 DEF Throttle
    <3>2. throttle' = [throttle EXCEPT ![event].passed = TRUE, ![event].timer = timer]
      BY <1>3, <3>1
    <3> QED
      BY <1>0, <3>2 DEF Throttle
  <2>2. /\ throttle'[event].pending = throttle[event].pending
        /\ throttle'[event].timer = "off" <=> throttle[event].timer = "off"
    <3>1. throttle'[event].timer = IF throttle[event].timer = "running" THEN "due"
                                                                       ELSE throttle[event].timer
      BY <1>0, <1>3 DEF Throttle
    <3>2. throttle'[event].pending = throttle[event].pending
      BY <1>0, <1>3 DEF Throttle
    <3> QED
      BY <3>1, <3>2
  <2>3. \A e \in Events \ {event} : throttle'[e] = throttle[e]
    BY <1>0, <1>3
  <2>4. throttle'[event].pending = (throttle'[event].timer # "off")
    BY <1>0, <2>2
  <2> QED
    BY <1>0, <2>1, <2>3, <2>4 DEF Timed
<1>4. ASSUME throttle' = [throttle EXCEPT ![event] = [passed |-> FALSE, pending |-> FALSE,
                                                     timer |-> "off"]]
      PROVE  Timed'
  <2>1. throttle' \in [Events -> Throttle]
    BY <1>0, <1>4 DEF Throttle
  <2>2. throttle'[event].pending = FALSE /\ throttle'[event].timer = "off"
    BY <1>0, <1>4 DEF Throttle
  <2>3. \A e \in Events \ {event} : throttle'[e] = throttle[e]
    BY <1>0, <1>4
  <2> QED
    BY <1>0, <2>1, <2>2, <2>3 DEF Timed
<1> QED
  BY <1>1, <1>2, <1>3, <1>4

(* The connection as onclose leaves it.                                    *)
LEMMA ClosedType ==
  ASSUME TypeOK, Closed
  PROVE  /\ link' \in Link /\ link'.at = "closed"
         /\ link'.retry => link'.attempts < MaxAttempts
BY LiveUpdatesAssumption DEF Closed, TypeOK, Link

(* Every step keeps types.                                                 *)
LEMMA NextType == TypeOK /\ [LiveNext]_liveVars => TypeOK'
<1> SUFFICES ASSUME TypeOK, [LiveNext]_liveVars PROVE TypeOK'
  OBVIOUS
<1>f. Fault => losses' \in 0..MaxLosses
  BY LiveUpdatesAssumption DEF Fault, TypeOK
<1>1. ASSUME NEW kind \in Kinds, RowsChange(kind) PROVE TypeOK'
  BY <1>1, LiveUpdatesAssumption DEF RowsChange, TypeOK, Versions, serverVars, browserVars, missedVars
<1>2. ASSUME NEW event \in Events, Publish(event) \/ PublishFails(event) PROVE TypeOK'
  <2>1. /\ unsent' \subseteq unsent /\ channel' \subseteq channel \union {event}
        /\ channel' # {} => server.subscription = "on"
        /\ unreached' \subseteq Queries /\ swallowed' \subseteq Queries
    BY <1>2 DEF Publish, PublishFails, Lose, Concerned, TypeOK, serverVars, missedVars
  <2>2. UNCHANGED <<version, server, throttle, link, queries, wire>> /\ losses' \in 0..MaxLosses
    BY <1>2, <1>f DEF Publish, PublishFails, TypeOK, serverVars, browserVars
  <2> QED
    BY <2>1, <2>2 DEF TypeOK
<1>3. ASSUME NEW event \in Events, Broadcast(event) PROVE TypeOK'
  <2>1. /\ throttle' \in [Events -> Throttle]
        /\ \A e \in Events : throttle'[e].pending = (throttle'[e].timer # "off")
    <3>1. CASE throttle[event].passed
      BY <1>3, <3>1, OneTimer DEF Broadcast, TypeOK, Timed
    <3>2. CASE ~throttle[event].passed
      BY <1>3, <3>2, OneTimer DEF Broadcast, TypeOK, Timed
    <3> QED
      BY <3>1, <3>2
  <2>3. wire' \subseteq Events /\ (wire' # {} => link'.at = "open") /\ Missed' \subseteq Queries
    BY <1>3, SendType DEF Broadcast, TypeOK, browserVars, missedVars, Missed
  <2> QED
    BY <1>3, <2>1, <2>3 DEF Broadcast, TypeOK, browserVars, Missed
<1>4. ASSUME NEW event \in Events, SecondPasses(event) PROVE TypeOK'
  <2>1. /\ throttle' \in [Events -> Throttle]
        /\ \A e \in Events : throttle'[e].pending = (throttle'[e].timer # "off")
    BY <1>4, OneTimer DEF SecondPasses, TypeOK, Timed
<2> QED
    BY <1>4, <2>1 DEF SecondPasses, TypeOK, browserVars, missedVars
<1>5. ASSUME NEW event \in Events, TimerFires(event) PROVE TypeOK'
  <2>1. /\ throttle' \in [Events -> Throttle]
        /\ \A e \in Events : throttle'[e].pending = (throttle'[e].timer # "off")
    BY <1>5, OneTimer DEF TimerFires, TypeOK, Timed
  <2>3. wire' \subseteq Events /\ (wire' # {} => link'.at = "open") /\ Missed' \subseteq Queries
    BY <1>5, SendType DEF TimerFires, browserVars
  <2> QED
    BY <1>5, <2>1, <2>3 DEF TimerFires, TypeOK, browserVars, Missed
<1>6. ASSUME NEW event \in Events, Receive(event) PROVE TypeOK'
  <2>1. \A q \in Queries : queries[q] \in Cached /\ Ask(queries[q]) \in Cached
    BY DEF TypeOK, Cached, Ask
  <2>2. queries' \in [Queries -> Cached]
    BY <1>6, <2>1 DEF Receive
  <2>3. unreached' \union swallowed' \subseteq Queries
    BY <1>6 DEF Receive, Concerned, TypeOK
  <2> QED
    BY <1>6, <2>2, <2>3 DEF Receive, TypeOK, serverVars
<1>7. ASSUME NEW q \in Queries, Read(q) \/ QueryFetched(q) \/ QueryFails(q) \/ WindowFocus(q)
               PROVE TypeOK'
  <2>1. queries' \in [Queries -> Cached]
    <3>1. queries[q].got \in Versions /\ version \in Versions
      BY DEF TypeOK, Cached
    <3>2. queries \in [Queries -> Cached]
      BY DEF TypeOK
    <3> QED
      BY <1>7, <3>1, <3>2 DEF Read, QueryFetched, QueryFails, WindowFocus, Cached
  <2> QED
    BY <1>7, <1>f, <2>1 DEF Read, QueryFetched, QueryFails, WindowFocus, TypeOK, serverVars,
       missedVars
<1>8. ASSUME LoseConnection PROVE TypeOK'
  BY <1>8, <1>f, ClosedType DEF LoseConnection, Lose, Concerned, TypeOK, serverVars
<1>9. ASSUME Crash PROVE TypeOK'
  <2>1. throttle' \in [Events -> Throttle]
        /\ \A e \in Events : throttle'[e].pending = (throttle'[e].timer # "off")
    BY <1>9 DEF Crash, Unthrottled, Throttle
  <2>2. link' \in Link /\ link'.at # "open"
        /\ (link'.retry => link'.at = "closed" /\ link'.attempts < MaxAttempts)
    BY <1>9, ClosedType DEF Crash, TypeOK
  <2>3. unreached' \union swallowed' \subseteq Queries /\ server' \in Server /\ server'.subscription = "off"
    BY <1>9 DEF Crash, Lose, Concerned, TypeOK, Server
  <2> QED
    BY <1>9, <1>f, <2>1, <2>2, <2>3 DEF Crash, TypeOK
<1>10. ASSUME StartServer \/ Subscribe \/ SubscribeFails PROVE TypeOK'
  <2>1. /\ server' \in Server /\ (server'.subscription # "off" => server'.up)
        /\ server.up => server'.up
        /\ server.subscription = "on" => server'.subscription = "on"
    <3>1. CASE StartServer
      BY <3>1 DEF StartServer, Server, TypeOK
    <3>2. CASE Subscribe \/ SubscribeFails
      BY <3>2 DEF Subscribe, SubscribeFails, Server, TypeOK
    <3> QED
      BY <1>10, <3>1, <3>2
  <2> QED
    BY <1>10, <1>f, <2>1 DEF StartServer, Subscribe, SubscribeFails, TypeOK, browserVars, missedVars
<1>11. ASSUME Open PROVE TypeOK'
  <2>1. link' \in Link /\ link'.at = "open" /\ ~link'.retry
    BY <1>11, LiveUpdatesAssumption DEF Open, Link, TypeOK
  <2> QED
    BY <1>11, <2>1 DEF Open, TypeOK, serverVars, missedVars
<1>12. ASSUME Refused PROVE TypeOK'
  BY <1>12, ClosedType DEF Refused, TypeOK, serverVars, missedVars
<1>13. ASSUME Reconnect PROVE TypeOK'
  <2>1. link' \in Link /\ link'.at = "opening" /\ ~link'.retry
    BY <1>13, LiveUpdatesAssumption DEF Reconnect, Link, TypeOK
  <2> QED
    BY <1>13, <2>1 DEF Reconnect, TypeOK, serverVars, missedVars
<1>14. ASSUME UNCHANGED liveVars PROVE TypeOK'
  BY <1>14 DEF liveVars, TypeOK, serverVars, browserVars, missedVars
<1> QED
  BY <1>1, <1>2, <1>3, <1>4, <1>5, <1>6, <1>7, <1>8, <1>9, <1>10, <1>11, <1>12, <1>13, <1>14
     DEF LiveNext, Serve

(* Every variable has its type, for every value of the constants: an event *)
(* that is pending has its timer, and only an open connection, to a server *)
(* that is up, carries events.                                             *)
THEOREM TypeHolds == LiveSpec => []TypeOK
BY InitType, NextType, PTL DEF LiveSpec

-----------------------------------------------------------------------------
(* Events on their way.                                                    *)

(* Whatever changes in a table that a query lists, one of the events       *)
(* published makes the page fetch it again.                                *)
LEMMA ChangesAreAnnounced ==
  ASSUME NEW kind \in Kinds, NEW q \in Queries, kind \in Lists(q)
  PROVE  \E event \in Published(kind) \intersect Events : q \in Invalidates(event)
<1>1. ASSUME NEW event \in Published(kind), q \in Invalidates(event)
      PROVE  event \in Events
  BY <1>1, ConcernedOne DEF Events
<1>2. \E event \in Published(kind) : q \in Invalidates(event)
  <2>1. CASE q \in {"jobs/table", "jobs/single"}
    <3>1. kind = "job"
      BY <2>1 DEF Lists
    <3>2. "job-refresh" \in Published(kind) /\ "single-job-refresh" \in Published(kind)
      BY <3>1 DEF Published
    <3> QED
      BY <2>1, <3>2 DEF Invalidates
  <2>2. CASE q = "jobs/logs"
    BY <2>2 DEF Lists, Published, Invalidates
  <2>3. CASE q = "queues/table"
    <3>1. kind \in {"queue", "scheduler"}
      BY <2>3 DEF Lists
    <3>2. "queue-refresh" \in Published(kind) \/ "job-scheduler-refresh" \in Published(kind)
      BY <3>1 DEF Published
    <3> QED
      BY <2>3, <3>2 DEF Invalidates
  <2> QED
    BY <2>1, <2>2, <2>3, LiveUpdatesAssumption
<1> QED
  BY <1>1, <1>2

(* An event is carried until the page receives it, or is missed.           *)
Carried(event) == event \in unsent \union channel \union wire \/ throttle[event].pending

(* Send puts an event on the wire, or its queries miss it.                 *)
LEMMA Sends ==
  ASSUME NEW event, Send(event)
  PROVE  /\ wire \subseteq wire' /\ Missed \subseteq Missed'
         /\ event \in wire' \/ Concerned({event}) \subseteq Missed'
BY DEF Send, Lose, Missed, missedVars

(* The queries of more events are more queries.                            *)
LEMMA ConcernedOfMore ==
  ASSUME NEW S, NEW event \in S
  PROVE  Concerned({event}) \subseteq Concerned(S)
BY DEF Concerned

(* No step but Receive drops an event that its queries have not missed.    *)
LEMMA EventGoesOn ==
  ASSUME TypeOK, [LiveNext]_liveVars, NEW event \in Events, ~Receive(event), Carried(event)
  PROVE  Carried(event)' \/ Concerned({event}) \subseteq Missed'
<1> DEFINE Goal == Carried(event)' \/ Concerned({event}) \subseteq Missed'
<1>0. CASE /\ unsent \subseteq unsent' /\ channel \subseteq channel' /\ wire \subseteq wire'
           /\ throttle' = throttle
  BY <1>0 DEF Carried
<1>1. ASSUME NEW kind \in Kinds, RowsChange(kind) PROVE Goal
  BY <1>0, <1>1 DEF RowsChange, serverVars
<1>2. ASSUME NEW e \in Events, Publish(e) \/ PublishFails(e) PROVE Goal
  BY <1>2 DEF Publish, PublishFails, Lose, Carried, serverVars, Missed
<1>3. ASSUME NEW e \in Events, Broadcast(e) PROVE Goal
  <2>1. CASE throttle[e].passed
    <3>1. /\ channel' = channel \ {e} /\ Send(e) /\ unsent' = unsent
          /\ throttle' = [throttle EXCEPT ![e].passed = FALSE]
      BY <1>3, <2>1 DEF Broadcast
    <3>2. throttle'[event].pending = throttle[event].pending
      BY <3>1 DEF TypeOK, Throttle
    <3> QED
      BY <3>1, <3>2, Sends DEF Carried
  <2>2. CASE ~throttle[e].passed
    <3>1. /\ channel' = channel \ {e} /\ wire' = wire /\ unsent' = unsent
          /\ throttle' = [throttle EXCEPT ![e].pending = TRUE,
                            ![e].timer = IF @ = "off" THEN "running" ELSE @]
      BY <1>3, <2>2 DEF Broadcast
    <3>2. CASE event = e
      BY <3>1, <3>2 DEF Carried, TypeOK, Throttle
    <3>3. CASE event # e
      BY <3>1, <3>3 DEF Carried, TypeOK
    <3> QED
      BY <3>2, <3>3
  <2> QED
    BY <2>1, <2>2
<1>4. ASSUME NEW e \in Events, SecondPasses(e) PROVE Goal
  <2>1. throttle'[event].pending = throttle[event].pending
    BY <1>4 DEF SecondPasses, TypeOK, Throttle
  <2> QED
    BY <1>4, <2>1 DEF SecondPasses, Carried
<1>5. ASSUME NEW e \in Events, TimerFires(e) PROVE Goal
  <2>1. /\ channel' = channel /\ Send(e) /\ unsent' = unsent
        /\ event # e => throttle'[event] = throttle[event]
    BY <1>5 DEF TimerFires, TypeOK
  <2> QED
    BY <2>1, Sends DEF Carried
<1>6. ASSUME NEW e \in Events, Receive(e) PROVE Goal
  BY <1>6 DEF Receive, Carried, serverVars
<1>7. ASSUME NEW q \in Queries, Read(q) \/ QueryFetched(q) \/ QueryFails(q) \/ WindowFocus(q)
               PROVE Goal
  BY <1>0, <1>7 DEF Read, QueryFetched, QueryFails, WindowFocus, serverVars
<1>8. ASSUME LoseConnection PROVE Goal
  <2>1. /\ unsent' = unsent /\ channel' = channel /\ throttle' = throttle
        /\ unreached' = unreached \union Concerned(wire)
    BY <1>8 DEF LoseConnection, Lose, serverVars
  <2> QED
    BY <2>1, ConcernedOfMore DEF Carried, Missed
<1>9. ASSUME Crash PROVE Goal
  <2> DEFINE lost == channel \union wire \union {e \in Events : throttle[e].pending}
  <2>1. unsent' = unsent /\ unreached' = unreached \union Concerned(lost)
    BY <1>9 DEF Crash, Lose
  <2>2. event \in unsent \/ event \in lost
    BY DEF Carried
  <2> HIDE DEF lost
  <2> QED
    BY <2>1, <2>2, ConcernedOfMore DEF Carried, Missed
<1>10. ASSUME StartServer \/ Subscribe \/ SubscribeFails \/ Open \/ Refused \/ Reconnect
       PROVE  Goal
  BY <1>0, <1>10 DEF StartServer, Subscribe, SubscribeFails, Open, Refused, Reconnect, serverVars
<1>11. ASSUME UNCHANGED liveVars PROVE Goal
  BY <1>0, <1>11 DEF liveVars, serverVars
<1> QED
  BY <1>1, <1>2, <1>3, <1>4, <1>5, <1>6, <1>7, <1>8, <1>9, <1>10, <1>11 DEF LiveNext, Serve

-----------------------------------------------------------------------------
(* Queries behind the tables.                                              *)

(* What a query shows is no newer than what its last fetch has read.       *)
FetchInv ==
  \A q \in Queries : \A kind \in Kinds :
    queries[q].shown[kind] <= queries[q].got[kind] /\ queries[q].got[kind] <= version[kind]

Told(q) ==
  \/ q \in Missed
  \/ queries[q].fetch = "asked"
  \/ queries[q].fetch = "read" /\ ~OlderThanTables(queries[q].got, q)
  \/ \E event \in Events : q \in Invalidates(event) /\ Carried(event)

BehindInv == FetchInv /\ \A q \in Queries : Behind(q) => Told(q)

(* The numbers that a query compares.                                      *)
LEMMA VersionTypes ==
  ASSUME TypeOK, NEW q \in Queries, NEW kind \in Kinds
  PROVE  /\ version[kind] \in Nat /\ queries[q].shown[kind] \in Nat /\ queries[q].got[kind] \in Nat
         /\ queries[q] \in Cached
BY LiveUpdatesAssumption DEF TypeOK, Cached, Versions

(* What no step but Change, Receive and those of a fetch does.             *)
LEMMA QueryGoesOn ==
  ASSUME TypeOK, BehindInv, [LiveNext]_liveVars, NEW q \in Queries,
         \A event \in Events : ~Receive(event), queries'[q] = queries[q], UNCHANGED version,
         q \in Missed => q \in Missed', Behind(q)'
  PROVE  Told(q)'
<1>1. Behind(q) /\ Told(q)
  BY DEF Behind, OlderThanTables, BehindInv
<1>2. ASSUME NEW event \in Events, q \in Invalidates(event), Carried(event)
      PROVE  Told(q)'
  BY <1>2, EventGoesOn, ConcernedOne DEF Told
<1>3. OlderThanTables(queries[q].got, q)' = OlderThanTables(queries[q].got, q)
  BY DEF OlderThanTables
<1> QED
  BY <1>1, <1>2, <1>3 DEF Told

(* A row changes.                                                          *)
LEMMA ChangeTells ==
  ASSUME TypeOK, BehindInv, NEW kind \in Kinds, RowsChange(kind)
  PROVE  BehindInv'
<1>0. /\ version' = [version EXCEPT ![kind] = @ + 1] /\ UNCHANGED <<channel, wire, throttle>>
      /\ queries' = queries /\ Missed' = Missed /\ version \in [Kinds -> Nat]
      /\ unsent' = unsent \union (Published(kind) \intersect Events)
  BY LiveUpdatesAssumption DEF RowsChange, serverVars, browserVars, missedVars, Missed,
     TypeOK, Versions
<1>1. FetchInv'
  BY <1>0, VersionTypes DEF FetchInv, BehindInv
<1>2. ASSUME NEW q \in Queries, Behind(q)' PROVE Told(q)'
  <2>1. CASE kind \in Lists(q)
    BY <1>0, <2>1, ChangesAreAnnounced DEF Told, Carried
  <2>2. CASE kind \notin Lists(q)
    <3>1. \A k \in Lists(q) \intersect Kinds : version'[k] = version[k]
      BY <1>0, <2>2
    <3>2. Behind(q) /\ Told(q)
      BY <1>0, <1>2, <3>1 DEF Behind, OlderThanTables, BehindInv
    <3>3. OlderThanTables(queries[q].got, q)' = OlderThanTables(queries[q].got, q)
      BY <1>0, <3>1 DEF OlderThanTables
    <3>4. \A event \in Events : Carried(event) => Carried(event)'
      BY <1>0 DEF Carried
    <3> QED
      BY <1>0, <3>2, <3>3, <3>4 DEF Told
  <2> QED
    BY <2>1, <2>2
<1> QED
  BY <1>1, <1>2 DEF BehindInv

(* The page receives an event.                                             *)
LEMMA ReceiveTells ==
  ASSUME TypeOK, BehindInv, [LiveNext]_liveVars, NEW event \in Events, Receive(event)
  PROVE  BehindInv'
<1>0. /\ UNCHANGED <<version, unsent, channel, throttle>> /\ wire' = wire \ {event}
      /\ Missed \subseteq Missed'
      /\ \A q \in Queries :
           queries'[q] = IF q \in Concerned({event})
             /\ (queries[q].loaded \/ queries[q].fetch = "idle")
                         THEN Ask(queries[q]) ELSE queries[q]
  BY DEF Receive, serverVars, Missed
<1>1. ASSUME NEW q \in Queries
      PROVE  /\ queries'[q].shown = queries[q].shown /\ queries'[q].got = queries[q].got
             /\ queries'[q].fetch \in {"asked", queries[q].fetch}
  BY <1>0 DEF TypeOK, Cached, Ask
<1>2. FetchInv'
  BY <1>0, <1>1 DEF FetchInv, BehindInv
<1>3. ASSUME NEW q \in Queries, Behind(q)' PROVE Told(q)'
  <2>1. Behind(q) /\ Told(q)
    BY <1>0, <1>1, <1>3 DEF Behind, OlderThanTables, BehindInv
  <2>2. CASE q \in Invalidates(event)
    <3>1. q \in Concerned({event}) /\ queries[q].fetch \in {"idle", "asked", "read"}
      BY <2>2, ConcernedOne DEF TypeOK, Cached
    <3>2. CASE queries[q].loaded \/ queries[q].fetch = "idle"
      BY <1>0, <3>1, <3>2 DEF Told, Ask, TypeOK, Cached
    <3>3. CASE ~queries[q].loaded /\ queries[q].fetch = "asked"
      BY <1>0, <3>3 DEF Told
    <3>4. CASE ~queries[q].loaded /\ queries[q].fetch = "read"
      BY <3>1, <3>4 DEF Told, Receive, Missed
    <3> QED
      BY <3>1, <3>2, <3>3, <3>4
  <2>3. CASE q \notin Invalidates(event)
    <3>1. queries'[q] = queries[q]
      BY <1>0, <2>3, ConcernedOne
    <3>2. OlderThanTables(queries[q].got, q)' = OlderThanTables(queries[q].got, q)
      BY <1>0, <3>1 DEF OlderThanTables
    <3>3. \A e \in Events \ {event} : Carried(e) => Carried(e)'
      BY <1>0 DEF Carried
    <3> QED
      BY <1>0, <2>1, <2>3, <3>1, <3>2, <3>3 DEF Told
  <2> QED
    BY <2>2, <2>3
<1> QED
  BY <1>2, <1>3 DEF BehindInv

(* The other query of a page stays as it is while one is fetched.          *)
LEMMA FetchTells ==
  ASSUME TypeOK, BehindInv, [LiveNext]_liveVars, NEW q \in Queries,
         Read(q) \/ QueryFetched(q) \/ QueryFails(q) \/ WindowFocus(q)
  PROVE  BehindInv'
<1>0. /\ UNCHANGED <<version, unsent, channel, throttle, wire>>
      /\ Missed \ {q} \subseteq Missed' /\ queries \in [Queries -> Cached]
           /\ queries[q] \in Cached
  BY DEF Read, QueryFetched, QueryFails, WindowFocus, serverVars, missedVars, Missed, TypeOK
<1>1. \A p \in Queries \ {q} : queries'[p] = queries[p]
  BY <1>0 DEF Read, QueryFetched, QueryFails, WindowFocus
<1>c. \A event \in Events : Carried(event) => Carried(event)'
  BY <1>0 DEF Carried
<1>2. ASSUME NEW p \in Queries \ {q}, Behind(p)' PROVE Told(p)'
  <2>1. Behind(p) /\ Told(p)
    BY <1>0, <1>1, <1>2 DEF Behind, OlderThanTables, BehindInv
  <2>2. OlderThanTables(queries[p].got, p)' = OlderThanTables(queries[p].got, p)
    BY <1>0, <1>1 DEF OlderThanTables
  <2> QED
    BY <1>0, <1>1, <1>c, <2>1, <2>2 DEF Told
<1>t. \A kind \in Kinds : /\ version[kind] \in Nat /\ queries[q].shown[kind] \in Nat
                          /\ queries[q].got[kind] \in Nat
                          /\ queries[q].shown[kind] <= queries[q].got[kind]
                          /\ queries[q].got[kind] <= version[kind]
  BY VersionTypes DEF BehindInv, FetchInv
<1>3. CASE Read(q)
  <2>1. queries'[q].fetch = "read" /\ queries'[q].got = version
          /\ queries'[q].shown = queries[q].shown
    BY <1>0, <1>3 DEF Read, Cached
  <2>2. \A kind \in Kinds : /\ queries'[q].shown[kind] <= queries'[q].got[kind]
                            /\ queries'[q].got[kind] <= version'[kind]
    BY <1>0, <1>t, <2>1
  <2>3. ~OlderThanTables(queries[q].got, q)'
    BY <1>0, <1>t, <2>1 DEF OlderThanTables
  <2>4. Told(q)'
    BY <2>1, <2>3 DEF Told
  <2> QED
    BY <1>0, <1>1, <1>2, <2>2, <2>4 DEF BehindInv, FetchInv
<1>4. CASE QueryFetched(q)
  <2>1. queries'[q].got = queries[q].got /\ queries'[q].shown = queries[q].got
          /\ queries[q].fetch = "read"
        /\ Missed' = Missed
    BY <1>0, <1>4 DEF QueryFetched, Cached, missedVars, Missed
  <2>2. \A kind \in Kinds : /\ queries'[q].shown[kind] <= queries'[q].got[kind]
                            /\ queries'[q].got[kind] <= version'[kind]
    BY <1>0, <1>t, <2>1
  <2>3. ASSUME Behind(q)' PROVE Told(q)'
    <3>1. OlderThanTables(queries[q].got, q)
      BY <1>0, <2>1, <2>3 DEF Behind, OlderThanTables
    <3>2. Behind(q)
      BY <1>t, <3>1 DEF Behind, OlderThanTables
    <3>3. Told(q)
      BY <3>2 DEF BehindInv
    <3> QED
      BY <1>c, <2>1, <3>1, <3>3 DEF Told
  <2> QED
    BY <1>0, <1>1, <1>2, <2>2, <2>3 DEF BehindInv, FetchInv
<1>5. CASE QueryFails(q) \/ WindowFocus(q)
  <2>1. /\ queries'[q].got = queries[q].got /\ queries'[q].shown = queries[q].shown
        /\ q \in Missed' \/ queries'[q].fetch = "asked"
    BY <1>0, <1>5 DEF QueryFails, WindowFocus, Cached, Missed
  <2>2. Told(q)'
    BY <2>1 DEF Told
  <2> QED
    BY <1>0, <1>1, <1>2, <2>1, <2>2 DEF BehindInv, FetchInv
<1> QED
  BY <1>3, <1>4, <1>5

(* Every step keeps queries told.                                          *)
LEMMA NextTells == TypeOK /\ BehindInv /\ [LiveNext]_liveVars => BehindInv'
<1> SUFFICES ASSUME TypeOK, BehindInv, [LiveNext]_liveVars PROVE BehindInv'
  OBVIOUS
<1>1. ASSUME NEW kind \in Kinds, RowsChange(kind) PROVE BehindInv'
  BY <1>1, ChangeTells
<1>2. ASSUME NEW event \in Events, Receive(event) PROVE BehindInv'
  BY <1>2, ReceiveTells
<1>3. ASSUME NEW q \in Queries, Read(q) \/ QueryFetched(q) \/ QueryFails(q) \/ WindowFocus(q)
      PROVE  BehindInv'
  BY <1>3, FetchTells
<1>4. ASSUME UNCHANGED <<version, queries>>, Missed \subseteq Missed',
             \A event \in Events : ~Receive(event)
      PROVE  BehindInv'
  <2>1. FetchInv'
    BY <1>4 DEF BehindInv, FetchInv
  <2>2. \A q \in Queries : Behind(q)' => Told(q)'
    BY <1>4, QueryGoesOn
  <2> QED
    BY <2>1, <2>2 DEF BehindInv
<1>5. ASSUME NEW event \in Events, Publish(event) \/ PublishFails(event)
      PROVE  UNCHANGED <<version, queries>> /\ Missed \subseteq Missed'
  BY <1>5 DEF Publish, PublishFails, Lose, browserVars, missedVars, Missed
<1>6. ASSUME NEW event \in Events, Serve(event)
      PROVE  UNCHANGED <<version, queries>> /\ Missed \subseteq Missed'
  BY <1>6 DEF Serve, Broadcast, SecondPasses, TimerFires, Send, Lose, browserVars, missedVars,
     Missed
<1>7. \/ LoseConnection \/ Crash \/ StartServer \/ Subscribe \/ SubscribeFails
      \/ Open \/ Refused \/ Reconnect \/ UNCHANGED liveVars
      => UNCHANGED <<version, queries>> /\ Missed \subseteq Missed'
  BY DEF LoseConnection, Crash, StartServer, Subscribe, SubscribeFails, Open, Refused, Reconnect,
     Lose, liveVars, browserVars, missedVars, Missed
<1> QED
  BY <1>1, <1>2, <1>3, <1>4, <1>5, <1>6, <1>7 DEF LiveNext

(* However changes, publications, throttling, the socket and fetches       *)
(* interleave, for every page: a query that is behind the tables has       *)
(* missed an event since its last fetch (or its first fetch has swallowed  *)
(* one), or an event that concerns it is on its way, or a fetch that has   *)
(* not read an older state.                                                *)
THEOREM BehindIsTold == LiveSpec => []BehindOnlyForAWhile
<1>1. LiveInit => BehindInv
  <2> SUFFICES ASSUME LiveInit PROVE BehindInv
    OBVIOUS
  <2>1. \A q \in Queries : \A kind \in Kinds :
          queries[q].shown[kind] = 0 /\ queries[q].got[kind] = 0 /\ version[kind] = 0
    BY DEF LiveInit
  <2> QED
    BY <2>1 DEF BehindInv, FetchInv, Behind, OlderThanTables
<1>2. BehindInv => BehindOnlyForAWhile
  BY DEF BehindInv, Told, Carried, Missed, BehindOnlyForAWhile
<1> QED
  BY <1>1, <1>2, InitType, NextType, NextTells, PTL DEF LiveSpec

-----------------------------------------------------------------------------
(* The form that creates a run.                                            *)

(* What may stand in a field, and the form.                                *)
Text == [of : {None, "run", "queue", "user", "invalid"}, id : Nat]

Fields == [queue : Queues \union {NoQueue}, name : Text, data : Text,
           under : Queues \union {NoQueue}]

(* A run in the form is one of the queue under which it got there.         *)
RunIsOfQueue(f) == f.data.of = "run" => QueueOf[f.data.id] = f.under

(* The answers that are kept name a run of their queue, or none.           *)
Answers(last) ==
  \A q \in DOMAIN last : last[q] \in Nat /\ (last[q] # NoRun => QueueOf[last[q]] = q)

(* The inductive invariant of the form.                                    *)
FormInv ==
  /\ form \in Fields /\ RunIsOfQueue(form)
  /\ Answers(lastRun)
  /\ DataIsForTheQueue

(* The effect leaves the queue alone, and the data it puts in the form is  *)
(* that of a run of that queue.                                            *)
LEMMA PrefilledFits ==
  ASSUME NEW f \in Fields, NEW last, Answers(last), RunIsOfQueue(f)
  PROVE  /\ Prefilled(f, last) \in Fields /\ RunIsOfQueue(Prefilled(f, last))
         /\ Prefilled(f, last).queue = f.queue
         /\ f.queue \in DOMAIN last =>
              last[f.queue] = NoRun \/ Prefilled(f, last).under = f.queue
<1>1. CASE f.queue \in DOMAIN last /\ last[f.queue] # NoRun
  <2> DEFINE run == [of |-> "run", id |-> last[f.queue]]
             name == IF EndsWithJob(f.name) THEN f.name ELSE run
  <2>1. run \in Text /\ name \in Text
    BY <1>1 DEF Text, Fields, Answers
  <2>5. run.of = "run" /\ QueueOf[run.id] = f.queue
    BY <1>1 DEF Answers
  <2>2. Prefilled(f, last) = [f EXCEPT !.data = run, !.under = f.queue, !.name = name]
    BY <1>1 DEF Prefilled
  <2> HIDE DEF run, name
  <2>3. Prefilled(f, last) = [queue |-> f.queue, name |-> name, data |-> run, under |-> f.queue]
    BY <2>2 DEF Fields
  <2>4. Prefilled(f, last) \in Fields
    BY <2>1, <2>3 DEF Fields
  <2> QED
    BY <2>3, <2>4, <2>5 DEF RunIsOfQueue
<1>2. CASE ~(f.queue \in DOMAIN last /\ last[f.queue] # NoRun)
  BY <1>2 DEF Prefilled
<1> QED
  BY <1>1, <1>2

(* An empty form is one of the forms there may be.                         *)
LEMMA EmptyFormFits == EmptyForm \in Fields /\ RunIsOfQueue(EmptyForm)
BY DEF EmptyForm, Fields, Text, Nothing, None, NoQueue, RunIsOfQueue

(* The last run of a queue is a run of that queue, or none.                *)
LEMMA LastRunIsOfQueue ==
  ASSUME NEW q, NEW run \in LastRunData(q)
  PROVE  run \in Nat /\ (run # NoRun => QueueOf[run] = q)
BY ListingsAssumption DEF LastRunData, NoRun, Present

(* Every step of the form keeps what it has fitting its queue.             *)
LEMMA FormStep == FormInv /\ Form => FormInv'
<1> SUFFICES ASSUME FormInv, Form PROVE FormInv'
  OBVIOUS
<1> USE DEF FormInv
<1>1. ASSUME NEW q \in Queues, SelectQueue(q) PROVE FormInv'
  <2> DEFINE name == IF form.name = Nothing THEN [of |-> "queue", id |-> q] ELSE form.name
             chosen == [form EXCEPT !.queue = q, !.name = name]
  <2>1. name \in Text
    BY ListingsAssumption DEF Fields, Text
  <2>2. form' = Prefilled(chosen, lastRun) /\ lastRun' = lastRun
    BY <1>1 DEF SelectQueue
  <2> HIDE DEF name
  <2>3. chosen \in Fields
    BY <2>1 DEF Fields
  <2>4. RunIsOfQueue(chosen)
    BY DEF Fields, RunIsOfQueue
  <2>5. form' \in Fields /\ RunIsOfQueue(form')
        /\ (form'.queue \in DOMAIN lastRun =>
              lastRun[form'.queue] = NoRun \/ form'.under = form'.queue)
    BY <2>2, <2>3, <2>4, PrefilledFits
  <2> QED
    BY <2>2, <2>5 DEF DataIsForTheQueue, RunIsOfQueue
<1>2. CASE LastRunLoaded
  <2>1. PICK run \in LastRunData(form.queue) :
          /\ lastRun' = Put(lastRun, form.queue, run)
          /\ form' = IF lastRun' = lastRun THEN form ELSE Prefilled(form, lastRun')
    BY <1>2 DEF LastRunLoaded
  <2>2. Answers(lastRun')
    BY <2>1, LastRunIsOfQueue DEF Put, Answers
  <2>3. CASE lastRun' = lastRun
    BY <2>1, <2>3 DEF DataIsForTheQueue
  <2>4. CASE lastRun' # lastRun
    <3>1. form' \in Fields /\ RunIsOfQueue(form')
          /\ (form'.queue \in DOMAIN lastRun' =>
                lastRun'[form'.queue] = NoRun \/ form'.under = form'.queue)
      BY <2>1, <2>2, <2>4, PrefilledFits
    <3> QED
      BY <2>2, <3>1 DEF DataIsForTheQueue, RunIsOfQueue
  <2> QED
    BY <2>3, <2>4
<1>3. ASSUME NEW name \in {Nothing, [of |-> "user", id |-> 0]}, TypeName(name) PROVE FormInv'
  <2>1. form' = Prefilled([form EXCEPT !.name = name], lastRun) /\ lastRun' = lastRun
    BY <1>3 DEF TypeName
  <2>2. [form EXCEPT !.name = name] \in Fields
    BY DEF Fields, Text, Nothing, None
  <2>3. RunIsOfQueue([form EXCEPT !.name = name])
    BY DEF Fields, RunIsOfQueue
  <2>4. form' \in Fields /\ RunIsOfQueue(form')
        /\ (form'.queue \in DOMAIN lastRun =>
              lastRun[form'.queue] = NoRun \/ form'.under = form'.queue)
    BY <2>1, <2>2, <2>3, PrefilledFits
  <2> QED
    BY <2>1, <2>4 DEF DataIsForTheQueue, RunIsOfQueue
<1>4. ASSUME NEW text \in {"user", "invalid"}, EditData(text) PROVE FormInv'
  BY <1>4 DEF EditData, Fields, Text, DataIsForTheQueue, RunIsOfQueue
<1>5. CASE SubmitRun
  BY <1>5 DEF SubmitRun, DataIsForTheQueue
<1> QED
  BY <1>1, <1>2, <1>3, <1>4, <1>5 DEF Form

(* Once the last run of the queue that is selected is known, the data in   *)
(* the form is that of a run of this queue or was typed for it, in         *)
(* whatever order queues are selected and answers come: the effect runs at *)
(* every change of what it reads (page.tsx).  A queue without runs keeps   *)
(* what the queue before left in the form.                                 *)
THEOREM DataFitsTheQueue == BrowserSpec => []DataIsForTheQueue
<1>1. BrowserInit => FormInv
  BY EmptyFormFits DEF BrowserInit, FormInit, FormInv, Answers, DataIsForTheQueue
<1>2. FormInv /\ [BrowserNext]_<<vars, formVars, listVars>> => FormInv'
  <2> SUFFICES ASSUME FormInv, [BrowserNext]_<<vars, formVars, listVars>> PROVE FormInv'
    OBVIOUS
  <2>1. CASE Form
    BY <2>1, FormStep
  <2>2. CASE RunCreated
    BY <2>2, EmptyFormFits DEF RunCreated, FormInv, Answers, DataIsForTheQueue
  <2>3. CASE UNCHANGED <<form, lastRun>>
    BY <2>3 DEF FormInv, DataIsForTheQueue
  <2> QED
    BY <2>1, <2>2, <2>3 DEF BrowserNext, OnTables, OnForm, OnList, FormNext, CreateFails, formVars
<1>3. FormInv => DataIsForTheQueue
  BY DEF FormInv
<1> QED
  BY <1>1, <1>2, <1>3, PTL DEF BrowserSpec

-----------------------------------------------------------------------------
(* A paused page.                                                          *)

(* Paused, what is on show is not being fetched.                           *)
PausedInv ==
  /\ paused \in BOOLEAN
  /\ paused /\ Loaded => ~fetching

(* What is shown, of the cache as it was, under the key.                   *)
LEMMA ShowKeeps ==
  ASSUME NEW p \in BOOLEAN, NEW q, Show(p, q)
  PROVE  /\ p /\ QueryKey(p, q) \in DOMAIN cache' => ~fetching'
         /\ \A k \in DOMAIN cache : k \in DOMAIN cache' /\ cache'[k] = cache[k]
<1> DEFINE key == QueryKey(p, q)
           live == QueryKey(FALSE, q)
<1>1. CASE key.frozen /\ key \notin DOMAIN cache /\ live \in DOMAIN cache
  BY <1>1 DEF Show, Put
<1>2. CASE ~(key.frozen /\ key \notin DOMAIN cache /\ live \in DOMAIN cache)
  <2>1. key.frozen = p
    BY DEF QueryKey
  <2>2. cache' = cache
        /\ fetching' \in (IF key \notin DOMAIN cache THEN {TRUE}
                          ELSE IF key.frozen THEN {FALSE} ELSE BOOLEAN)
    BY <1>2 DEF Show
  <2> HIDE DEF key
  <2> QED
    BY <2>1, <2>2 DEF key
<1> QED
  BY <1>1, <1>2

(* A page that is shown, copied or not, is not fetched while it is paused. *)
LEMMA PausedShow ==
  ASSUME PausedInv, paused' \in BOOLEAN,
         ShowIfOther(paused', Query') \/ Show(paused', Query')
  PROVE  PausedInv'
<1>1. CASE Show(paused', Query')
  <2>1. paused' /\ QueryKey(paused', Query') \in DOMAIN cache' => ~fetching'
    BY <1>1, ShowKeeps
  <2> QED
    BY <2>1 DEF PausedInv, Loaded, Key
<1>2. CASE ~Show(paused', Query')
  <2>1. Key' = Key /\ cache' = cache /\ fetching' = fetching
    BY <1>2 DEF ShowIfOther, dataVars, Key
  <2>2. Key.frozen = paused /\ Key'.frozen = paused'
    BY DEF Key, QueryKey
  <2> QED
    BY <2>1, <2>2 DEF PausedInv, Loaded
<1> QED
  BY <1>1, <1>2

(* How the actions of the tables use Show.                                 *)
Turns ==
  /\ paused' = paused
  /\ ShowIfOther(paused', Query')

(* Going to a page leaves the table paused or not.                         *)
LEMMA PageTurns ==
  ASSUME NEW u, Go(u), UNCHANGED Elsewhere
  PROVE  Turns
BY DEF Go, Elsewhere, Turns, Query

(* A step of the tables fetches, reads again, turns to another query,      *)
(* starts over, or leaves the pages alone.                                 *)
Rereads ==
  /\ ~Key.frozen
  /\ Refetched
  /\ UNCHANGED <<pageVars, fetching>>

(* The pause button.                                                       *)
Flips ==
  /\ paused' = ~paused
  /\ ShowIfOther(paused', Query')

(* The page opens.                                                         *)
Mounts ==
  /\ ~paused'
  /\ paused' \in BOOLEAN

(* What a step does to the pages that are kept and to the one under way.   *)
LEMMA TableSteps ==
  ASSUME [BrowserNext]_<<vars, formVars, listVars>>
  PROVE  Fetch \/ Turns \/ Flips \/ Mounts \/ Rereads
           \/ (UNCHANGED <<pageVars, cache>> /\ (fetching' = fetching \/ ~fetching'))
<1> DEFINE Still == UNCHANGED <<pageVars, cache>> /\ (fetching' = fetching \/ ~fetching')
<1>1. CASE ClickNext \/ ClickPrevious \/ ClickPreviousToFirst
  BY <1>1, PageTurns DEF ClickNext, ClickPrevious, ClickPreviousToFirst
<1>2. CASE \E u : ChangeFilters(u)
  BY <1>2, PageTurns DEF ChangeFilters
<1>3. CASE \E by : SortQueues(by)
  <2>1. UNCHANGED Elsewhere /\ \E u : Go(u)
    BY <1>3 DEF SortQueues
  <2> QED
    BY <2>1, PageTurns
<1>4. CASE TogglePaused
  <2>1. Query' = Query
    BY <1>4 DEF TogglePaused, Query
  <2> QED
    BY <1>4, <2>1 DEF TogglePaused, Flips
<1>5. CASE Reload \/ \E queue : OpenQueue(queue)
  BY <1>5 DEF Reload, OpenQueue, Mount, Mounts
<1>6. CASE SelectAll \/ (\E item : SelectJob(item))
             \/ (\E does : ConfirmBulk(does) \/ \E item : ConfirmOne(does, item))
  BY <1>6 DEF SelectAll, SelectJob, ConfirmBulk, ConfirmOne, dataVars
<1>7. CASE Settle
  <2>1. Query' = QueryFilters(url, url) /\ paused' = paused
    BY <1>7 DEF Settle, Query
  <2> QED
    BY <1>7, <2>1 DEF Settle, Turns
<1>8. CASE FetchFails \/ BulkStep \/ BulkFails
  BY <1>8 DEF FetchFails, BulkStep, BulkFails, dataVars
<1>9. CASE Refresh \/ BulkDone
  <2>1. UNCHANGED <<pageVars, fetching>>
    BY <1>9 DEF Refresh, BulkDone
  <2>2. UNCHANGED cache \/ (~Key.frozen /\ Refetched)
    BY <1>9 DEF Refresh, BulkDone
  <2> QED
    BY <2>1, <2>2 DEF Rereads
<1>10. CASE \E r : Change(r)
  BY <1>10 DEF Change, dataVars
<1>11. CASE OnForm \/ OnList \/ UNCHANGED <<vars, formVars, listVars>>
  <2>1. CASE OnForm
    BY <2>1, <1>10 DEF OnForm, FormNext, RunCreated, CreateFails, dataVars
  <2>2. CASE OnList \/ UNCHANGED <<vars, formVars, listVars>>
    BY <2>2 DEF OnList, vars, dataVars
  <2> QED
    BY <1>11, <2>1, <2>2
<1>12. CASE OnTables
  <2>1. CASE User
    BY <2>1, <1>1, <1>2, <1>3, <1>4, <1>5, <1>6 DEF User, FilterByStatus, SortRuns
  <2> QED
    BY <1>12, <2>1, <1>7, <1>8, <1>9, <1>10 DEF OnTables, Next
<1> QED
  BY <1>11, <1>12 DEF BrowserNext

(* No step leaves a paused page that is loaded to be fetched.              *)
LEMMA PausedStep == PausedInv /\ [BrowserNext]_<<vars, formVars, listVars>> => PausedInv'
<1> SUFFICES ASSUME PausedInv, [BrowserNext]_<<vars, formVars, listVars>> PROVE PausedInv'
  OBVIOUS
<1>1. CASE Fetch
  BY <1>1 DEF Fetch, PausedInv, pageVars
<1>2. CASE Turns \/ Flips
  BY <1>2, PausedShow DEF Turns, Flips, PausedInv
<1>3. CASE Mounts
  BY <1>3 DEF Mounts, PausedInv
<1>4. CASE Rereads
  <2>1. ~paused /\ paused' = paused
    BY <1>4 DEF Rereads, Key, QueryKey, pageVars
  <2> QED
    BY <2>1 DEF PausedInv
<1>5. CASE UNCHANGED <<pageVars, cache>> /\ (fetching' = fetching \/ ~fetching')
  BY <1>5 DEF PausedInv, Loaded, Key, Query, pageVars
<1> QED
  BY <1>1, <1>2, <1>3, <1>4, <1>5, TableSteps

(* While live updates are paused, the answer that is on show stays as long *)
(* as the query does: nothing but the button, a mount or a reload touches  *)
(* it (runs-table.tsx: jobs/table-paused).                                 *)
THEOREM PausedPageFrozen == BrowserSpec => FrozenWhilePaused
<1> DEFINE Frozen == paused /\ paused' /\ Query' = Query /\ Loaded
                       => Key' \in DOMAIN cache' /\ Data' = Data
<1>1. BrowserInit => PausedInv
  BY DEF BrowserInit, Init, PausedInv
<1>2. PausedInv /\ [BrowserNext]_<<vars, formVars, listVars>> => [Frozen]_vars
  <2> SUFFICES ASSUME PausedInv, [BrowserNext]_<<vars, formVars, listVars>>,
                      paused, paused', Query' = Query, Loaded
               PROVE  Key' \in DOMAIN cache' /\ Data' = Data
    OBVIOUS
  <2>1. paused' = paused /\ Key' = Key
    BY PausedStep DEF PausedInv, Key
  <2>2. SUFFICES \A k \in DOMAIN cache : k = Key => k \in DOMAIN cache' /\ cache'[k] = cache[k]
    BY <2>1 DEF Loaded, Data
  <2>3. CASE Fetch
    BY <2>3 DEF Fetch, PausedInv
  <2>4. CASE Turns
    BY <2>4, ShowKeeps DEF Turns, ShowIfOther, dataVars, PausedInv
  <2>5. CASE Flips \/ Mounts
    BY <2>5 DEF Flips, Mounts
  <2>6. CASE Rereads
    BY <2>6 DEF Rereads, Key, QueryKey
  <2>7. CASE UNCHANGED cache
    BY <2>7
  <2> QED
    BY <2>3, <2>4, <2>5, <2>6, <2>7, TableSteps
<1>3. BrowserSpec => [][Frozen]_vars
  BY <1>1, <1>2, PausedStep, PTL DEF BrowserSpec
<1> QED
  BY <1>3 DEF FrozenWhilePaused

-----------------------------------------------------------------------------
(* Sorting by rank: InOrder puts a finite set in the order it is given.    *)

(* s has all of S, each once, in the order of R.                           *)
SortsBy(s, S, R) ==
  /\ s \in [1..Cardinality(S) -> S]
  /\ \A x \in S : \E i \in 1..Cardinality(S) : s[i] = x
  /\ \A i, j \in 1..Cardinality(S) : i < j => <<s[i], s[j]>> \in R

(* R orders S, every two of it.                                            *)
StrictOrder(R, S) ==
  /\ \A x \in S : <<x, x>> \notin R
  /\ \A x, y, z \in S : <<x, y>> \in R /\ <<y, z>> \in R => <<x, z>> \in R
  /\ \A x, y \in S : x = y \/ <<x, y>> \in R \/ <<y, x>> \in R

(* Of some things in order, one is the last.                               *)
LEMMA LastExists ==
  ASSUME NEW S, IsFiniteSet(S), S # {}, NEW R, StrictOrder(R, S)
  PROVE  \E m \in S : \A x \in S : x = m \/ <<x, m>> \in R
<1> DEFINE Later(x) == {y \in S : <<x, y>> \in R}
           family == {Later(x) : x \in S}
<1>1. IsWellFoundedOn(StrictSubsetOrdering(S), SUBSET S)
  <2>1. FiniteSubsetsOf(S) = SUBSET S
    BY FS_FiniteSubsetsOfFinite
  <2> QED
    BY <2>1, FS_StrictSubsetOrderingWellFounded
<1>2. family \subseteq SUBSET S /\ family # {}
  OBVIOUS
<1>3. PICK F \in family : \A G \in family : <<G, F>> \notin StrictSubsetOrdering(S)
  <2> HIDE DEF family
  <2> QED
    BY <1>1, <1>2, WFMin
<1>4. PICK m \in S : F = Later(m)
  OBVIOUS
<1>5. ASSUME NEW x \in S, <<m, x>> \in R PROVE FALSE
  <2>1. Later(x) \subseteq Later(m) /\ x \in Later(m) /\ x \notin Later(x)
    BY <1>5 DEF StrictOrder
  <2>2. <<Later(x), Later(m)>> \in StrictSubsetOrdering(S)
    BY <2>1 DEF StrictSubsetOrdering
  <2> HIDE DEF Later
  <2> QED
    BY <1>3, <1>4, <2>2
<1> QED
  BY <1>5 DEF StrictOrder

(* What is finite and ordered can be put in order.                         *)
LEMMA OrderExists ==
  ASSUME NEW S, IsFiniteSet(S), NEW R, StrictOrder(R, S)
  PROVE  \E s : SortsBy(s, S, R)
<1> DEFINE bad == {T \in SUBSET S : ~\E s : SortsBy(s, T, R)}
<1>1. IsWellFoundedOn(StrictSubsetOrdering(S), SUBSET S)
  <2>1. FiniteSubsetsOf(S) = SUBSET S
    BY FS_FiniteSubsetsOfFinite
  <2> QED
    BY <2>1, FS_StrictSubsetOrderingWellFounded
<1>2. SUFFICES ASSUME bad # {} PROVE FALSE
  BY DEF SortsBy
<1>3. PICK T \in bad : \A U \in bad : <<U, T>> \notin StrictSubsetOrdering(S)
  <2>1. bad \subseteq SUBSET S
    OBVIOUS
  <2> HIDE DEF bad
  <2> QED
    BY <1>1, <1>2, <2>1, WFMin
<1>4. IsFiniteSet(T) /\ StrictOrder(R, T) /\ Cardinality(T) \in Nat
  BY FS_Subset, FS_CardinalityType DEF StrictOrder
<1>5. T # {}
  <2>1. SUFFICES ASSUME T = {} PROVE FALSE
    OBVIOUS
  <2>2. Cardinality(T) = 0
    BY <2>1, FS_EmptySet
  <2>3. SortsBy([i \in 1..0 |-> 0], T, R)
    BY <2>1, <2>2 DEF SortsBy
  <2> QED
    BY <2>3
<1>6. PICK m \in T : \A x \in T : x = m \/ <<x, m>> \in R
  BY <1>4, <1>5, LastExists
<1> DEFINE U == T \ {m}
           n == Cardinality(T)
<1>7. Cardinality(U) = n - 1 /\ n > 0
  BY <1>4, <1>5, FS_RemoveElement, FS_EmptySet
<1>8. PICK s : SortsBy(s, U, R)
  <2>1. <<U, T>> \in StrictSubsetOrdering(S)
    BY DEF StrictSubsetOrdering
  <2> QED
    BY <1>3, <2>1
<1> DEFINE t == [i \in 1..n |-> IF i = n THEN m ELSE s[i]]
<1>9. SortsBy(t, T, R)
  <2>0. n \in Nat /\ 1..(n - 1) \subseteq 1..n /\ n \in 1..n
    BY <1>4, <1>7
  <2>1. \A i \in 1..(n - 1) : t[i] = s[i] /\ s[i] \in U
    <3>1. \A i \in 1..(n - 1) : s[i] \in U
      BY <1>7, <1>8 DEF SortsBy
    <3>2. \A i \in 1..(n - 1) : i \in 1..n /\ i # n
      BY <2>0
    <3> HIDE DEF n
    <3> QED
      BY <3>1, <3>2
  <2>2. t[n] = m
    BY <2>0
  <2>3. \A i \in 1..n : i = n \/ i \in 1..(n - 1)
    BY <2>0
  <2> HIDE DEF t
  <2>4. \A i \in 1..n : t[i] \in T
    BY <2>1, <2>2, <2>3
  <2>5. \A x \in T : \E i \in 1..n : t[i] = x
    BY <1>7, <1>8, <2>0, <2>1, <2>2 DEF SortsBy
  <2>6. ASSUME NEW i \in 1..n, NEW j \in 1..n, i < j PROVE <<t[i], t[j]>> \in R
    <3>1. i \in 1..(n - 1)
      BY <2>0, <2>6
    <3>2. CASE j = n
      BY <1>6, <2>1, <2>2, <3>1, <3>2
    <3>3. CASE j \in 1..(n - 1)
      BY <1>7, <1>8, <2>1, <2>6, <3>1, <3>3 DEF SortsBy
    <3> QED
      BY <2>3, <3>2, <3>3
  <2>7. t \in [1..n -> T]
    BY <2>4 DEF t
  <2> QED
    BY <2>5, <2>6, <2>7 DEF SortsBy
<1> QED
  BY <1>9

(* The rank of the i-th.                                                   *)
LEMMA RankOf ==
  ASSUME NEW S, IsFiniteSet(S), NEW R, StrictOrder(R, S), NEW t, SortsBy(t, S, R),
         NEW i \in 1..Cardinality(S)
  PROVE  Cardinality({y \in S : <<y, t[i]>> \in R}) = i - 1
<1> DEFINE n == Cardinality(S)
           lower == {y \in S : <<y, t[i]>> \in R}
<1>1. n \in Nat /\ i \in Nat /\ i >= 1 /\ i <= n
  BY FS_CardinalityType
<1>2. /\ t \in [1..n -> S]
      /\ \A x \in S : \E j \in 1..n : t[j] = x
      /\ \A j, k \in 1..n : j < k => <<t[j], t[k]>> \in R
  BY DEF SortsBy
<1>3. \A j, k \in 1..n : <<t[j], t[k]>> \in R <=> j < k
  <2>1. \A x, y \in S : ~(<<x, y>> \in R /\ <<y, x>> \in R) /\ <<x, x>> \notin R
    BY DEF StrictOrder
  <2>2. \A j, k \in 1..n : t[j] \in S /\ j \in Int /\ k \in Int
    BY <1>2
  <2> HIDE DEF n
  <2>3. ASSUME NEW j \in 1..n, NEW k \in 1..n, <<t[j], t[k]>> \in R PROVE j < k
    <3>1. ~(k < j) /\ k # j
      BY <1>2, <2>1, <2>2, <2>3
    <3> QED
      BY <2>2, <3>1
  <2> QED
    BY <1>2, <2>3
<1>4. \A j \in 1..(i - 1) : j \in 1..n /\ j < i
  BY <1>1
<1>5. \A j \in 1..n : j < i => j \in 1..(i - 1)
  BY <1>1
<1> DEFINE f == [j \in 1..(i - 1) |-> t[j]]
<1> HIDE DEF n
<1>6. \A j \in 1..(i - 1) : f[j] \in lower
  BY <1>2, <1>3, <1>4 DEF n
<1>7. \A x \in lower : \E j \in 1..(i - 1) : f[j] = x
  BY <1>2, <1>3, <1>5 DEF n
<1>8. \A j, k \in 1..(i - 1) : f[j] = f[k] => j = k
  <2>1. ASSUME NEW j \in 1..(i - 1), NEW k \in 1..(i - 1), f[j] = f[k] PROVE j = k
    <3>1. j \in 1..n /\ k \in 1..n /\ t[j] = t[k]
      BY <1>4, <2>1
    <3>2. ~(j < k) /\ ~(k < j)
      <4>1. <<t[j], t[j]>> \notin R /\ <<t[k], t[k]>> \notin R
        BY <1>3, <3>1
      <4> QED
        BY <1>3, <3>1, <4>1
    <3> QED
      BY <3>1, <3>2
  <2> QED
    BY <2>1
<1>9. f \in Bijection(1..(i - 1), lower)
  <2>1. f \in [1..(i - 1) -> lower]
    BY <1>6
  <2> HIDE DEF f, lower
  <2> QED
    BY <1>7, <1>8, <2>1, Fun_IsBij
<1>10. Cardinality(1..(i - 1)) = i - 1 /\ IsFiniteSet(1..(i - 1))
  BY <1>1, FS_Interval
<1> QED
  BY <1>9, <1>10, FS_Bijection DEF ExistsBijection

(* InOrder lists what is in order in order, each once.                     *)
LEMMA InOrderSorts ==
  ASSUME NEW S, IsFiniteSet(S), NEW R, StrictOrder(R, S)
  PROVE  SortsBy(InOrder(S, R), S, R)
<1> DEFINE n == Cardinality(S)
           Rank(x) == Cardinality({y \in S : <<y, x>> \in R})
<1>1. PICK t : SortsBy(t, S, R)
  BY OrderExists
<1>2. /\ t \in [1..n -> S]
      /\ \A x \in S : \E j \in 1..n : t[j] = x
  BY <1>1 DEF SortsBy
<1>3. \A i \in 1..n : Rank(t[i]) = i - 1
  BY <1>1, RankOf
<1>4. \A i \in 1..n : (CHOOSE x \in S : Rank(x) = i - 1) = t[i]
  <2> HIDE DEF n, Rank
  <2>1. \A x \in S, i \in 1..n : Rank(x) = i - 1 => x = t[i]
    <3>1. ASSUME NEW x \in S, NEW i \in 1..n, Rank(x) = i - 1 PROVE x = t[i]
      <4>1. PICK j \in 1..n : t[j] = x
        BY <1>2
      <4>2. j - 1 = i - 1
        BY <1>3, <3>1, <4>1
      <4> QED
        BY <4>1, <4>2
    <3> QED
      BY <3>1
  <2> QED
    BY <1>2, <1>3, <2>1
<1>5. InOrder(S, R) = t
  BY <1>2, <1>4 DEF InOrder
<1> QED
  BY <1>1, <1>5

-----------------------------------------------------------------------------
(* The tables: types and the order of their rows.                          *)

(* What the listings return.                                               *)

(* Types of the rows of /runs and /queues, of the two addresses and of the pages.*)
JobItem == [id : Rows, duration : Nat, status : Statuses \union {None}]

QueueItem == [id : Queues, waitingJobs : Nat, activeJobs : Nat, pressure : Nat]

RunsUrl ==
  [page : {"runs"}, queue : Queues \union {0}, status : Statuses \union {"all"},
   sortBy : {"createdAt", "durationMs"}, desc : BOOLEAN,
   cursor : JobItem \union {NoCursor}, dir : {"next", "prev"}]

QueuesUrl ==
  [page : {"queues"}, sortBy : {"waitingJobs", "activeJobs", "pressure"}, desc : BOOLEAN,
   cursor : QueueItem \union {NoCursor}, dir : {"next", "prev"}]

Url == RunsUrl \union QueuesUrl

Item(q) == IF q.page = "runs" THEN JobItem ELSE QueueItem

Page(q) ==
  [items : Seq(Item(q)), next : Item(q) \union {NoCursor}, prev : Item(q) \union {NoCursor}]

(* An address of /runs or of /queues has the fields of that page.          *)
LEMMA UrlPages ==
  ASSUME NEW u \in Url
  PROVE  /\ u.page = "runs" => u \in RunsUrl
         /\ u.page # "runs" => u \in QueuesUrl /\ u.page = "queues"
         /\ u.page = "queues" => u \in QueuesUrl
         /\ u.dir \in {"next", "prev"}
         /\ u.desc \in BOOLEAN
         /\ u.cursor \in Item(u) \union {NoCursor}
BY DEF Url, RunsUrl, QueuesUrl, Item

(* A page of the same list.                                                *)
LEMMA UrlWith ==
  ASSUME NEW u \in Url, NEW c \in Item(u) \union {NoCursor}, NEW d \in {"next", "prev"}
  PROVE  LET w == [u EXCEPT !.cursor = c, !.dir = d]
         IN  w \in Url /\ w.page = u.page /\ w.cursor = c /\ w.dir = d
<1> DEFINE w == [u EXCEPT !.cursor = c, !.dir = d]
<1>1. CASE u.page = "runs"
  <2>1. u \in RunsUrl /\ c \in JobItem \union {NoCursor}
    BY <1>1, UrlPages DEF Item
  <2>2. w \in RunsUrl
    BY <2>1 DEF RunsUrl
  <2> QED
    BY <2>1, <2>2 DEF RunsUrl, Url
<1>2. CASE u.page # "runs"
  <2>1. u \in QueuesUrl /\ c \in QueueItem \union {NoCursor}
    BY <1>2, UrlPages DEF Item
  <2>2. w \in QueuesUrl
    BY <2>1 DEF QueuesUrl
  <2> QED
    BY <2>1, <2>2 DEF QueuesUrl, Url
<1> QED
  BY <1>1, <1>2

(* The first page has an address of the same table.                        *)
LEMMA FirstPageUrl ==
  ASSUME NEW u \in Url
  PROVE  /\ FirstPage(u) \in Url /\ FirstPage(u).page = u.page
         /\ FirstPage(u).cursor = NoCursor /\ FirstPage(u).dir = "next"
<1>1. NoCursor \in Item(u) \union {NoCursor} /\ "next" \in {"next", "prev"}
  OBVIOUS
<1>2. FirstPage(u) = [u EXCEPT !.cursor = NoCursor, !.dir = "next"]
  BY DEF FirstPage
<1> DEFINE w == [u EXCEPT !.cursor = NoCursor, !.dir = "next"]
<1>3. w \in Url /\ w.page = u.page /\ w.cursor = NoCursor /\ w.dir = "next"
  BY <1>1, UrlWith
<1> HIDE DEF w
<1> QED
  BY <1>2, <1>3 DEF w

(* As many images as there are things, at most.                            *)
LEMMA ImageFinite ==
  ASSUME NEW S, IsFiniteSet(S), NEW f, DOMAIN f = S
  PROVE  IsFiniteSet({f[x] : x \in S})
<1> DEFINE T == {f[x] : x \in S}
           g == [x \in S |-> f[x]]
<1>1. g \in Surjection(S, T)
  BY DEF Surjection
<1> QED
  BY <1>1, FS_Surjection

(* The items of a list: there are finitely many, and an id is of one.      *)
LEMMA ItemsListed ==
  ASSUME NEW t \in [Rows -> Row], NEW q \in Url
  PROVE  /\ Items(t, q) \subseteq Item(q)
         /\ IsFiniteSet(Items(t, q))
         /\ \A x, y \in Items(t, q) : x.id = y.id => x = y
<1>1. CASE q.page = "runs"
  <2> DEFINE shown == {p \in Present(t) : q.queue \in {0, QueueOf[p]}
               /\ q.status \in {"all", t[p].status}}
             item(r) == [id |-> r, duration |-> t[r].duration, status |-> t[r].status]
  <2>1. Items(t, q) = {item(r) : r \in shown}
    BY <1>1 DEF Items, JobItems
  <2>2. shown \subseteq Rows
    BY DEF Present
  <2>3. \A r \in Rows : item(r) \in JobItem
    BY DEF JobItem, Row
  <2>4. IsFiniteSet({item(r) : r \in shown})
    <3>1. IsFiniteSet(shown)
      BY <2>2, ListingsAssumption, FS_Subset
    <3> DEFINE f == [r \in shown |-> item(r)]
    <3>2. {item(r) : r \in shown} = {f[r] : r \in shown}
      OBVIOUS
    <3>3. DOMAIN f = shown
      OBVIOUS
    <3> HIDE DEF shown, item, f
    <3> QED
      BY <3>1, <3>2, <3>3, ImageFinite
  <2>5. \A x, y \in {item(r) : r \in shown} : x.id = y.id => x = y
    OBVIOUS
  <2> HIDE DEF shown, item
  <2> QED
    BY <1>1, <2>1, <2>2, <2>3, <2>4, <2>5 DEF Item
<1>2. CASE q.page # "runs"
  <2> DEFINE item(queue) ==
        [ id |-> queue, waitingJobs |-> Count(t, queue, "waiting"),
          activeJobs |-> Count(t, queue, "active"),
          pressure |-> IF q.sortBy = "pressure" THEN Pressure[queue] ELSE 0 ]
  <2>1. Items(t, q) = {item(queue) : queue \in Queues}
    BY <1>2 DEF Items, QueueItems
  <2>2. \A queue, status : Count(t, queue, status) \in Nat
    <3>1. ASSUME NEW queue, NEW status PROVE Count(t, queue, status) \in Nat
      <4> DEFINE counted == {r \in Rows : QueueOf[r] = queue /\ t[r].status = status}
      <4>1. IsFiniteSet(counted)
        BY ListingsAssumption, FS_Subset
      <4> QED
        BY <4>1, FS_CardinalityType DEF Count
    <3> QED
      BY <3>1
  <2>3. \A queue \in Queues : item(queue) \in QueueItem
    BY <2>2, ListingsAssumption DEF QueueItem
  <2>4. IsFiniteSet({item(queue) : queue \in Queues})
    <3> DEFINE f == [queue \in Queues |-> item(queue)]
    <3>1. {item(queue) : queue \in Queues} = {f[queue] : queue \in Queues}
      OBVIOUS
    <3>2. DOMAIN f = Queues
      OBVIOUS
    <3>3. IsFiniteSet(Queues)
      BY ListingsAssumption
    <3>4. IsFiniteSet({f[queue] : queue \in Queues})
      <4> HIDE DEF f
      <4> QED
        BY <3>2, <3>3, ImageFinite
    <3> QED
      BY <3>1, <3>4, Zenon
  <2>5. \A x, y \in {item(queue) : queue \in Queues} : x.id = y.id => x = y
    OBVIOUS
  <2> HIDE DEF item
  <2> QED
    BY <1>2, <2>1, <2>3, <2>4, <2>5 DEF Item
<1> QED
  BY <1>1, <1>2

(* The order of a list: of items with other ids, one is before the other.  *)
LEMMA LexLess2 ==
  ASSUME NEW a \in Nat, NEW b \in Nat, NEW c \in Nat, NEW d \in Nat
  PROVE  LexLess(<<a, b>>, <<c, d>>) <=> a < c \/ (a = c /\ b < d)
<1> DEFINE x == <<a, b>>
           y == <<c, d>>
<1>1. DOMAIN x = {1, 2} /\ x[1] = a /\ x[2] = b /\ y[1] = c /\ y[2] = d
  OBVIOUS
<1>2. 1..(1 - 1) = {} /\ 1..(2 - 1) = {1}
  OBVIOUS
<1> HIDE DEF x, y
<1>3. LexLess(x, y) <=> (x[1] < y[1] \/ (x[2] < y[2] /\ x[1] = y[1]))
  BY <1>1, <1>2 DEF LexLess
<1> QED
  BY <1>1, <1>3 DEF x, y

(* The order of three columns, written out.                                *)
LEMMA LexLess3 ==
  ASSUME NEW a \in Nat, NEW b \in Nat, NEW c \in Nat, NEW d \in Nat, NEW e \in Nat, NEW f \in Nat
  PROVE  LexLess(<<a, b, c>>, <<d, e, f>>) <=>
           a < d \/ (a = d /\ b < e) \/ (a = d /\ b = e /\ c < f)
<1> DEFINE x == <<a, b, c>>
           y == <<d, e, f>>
<1>1. DOMAIN x = {1, 2, 3} /\ x[1] = a /\ x[2] = b /\ x[3] = c /\ y[1] = d /\ y[2] = e /\ y[3] = f
  OBVIOUS
<1>2. 1..(1 - 1) = {} /\ 1..(2 - 1) = {1} /\ 1..(3 - 1) = {1, 2}
  OBVIOUS
<1> HIDE DEF x, y
<1>3. LexLess(x, y) <=> \/ x[1] < y[1] \/ (x[2] < y[2] /\ x[1] = y[1])
                        \/ (x[3] < y[3] /\ x[1] = y[1] /\ x[2] = y[2])
  BY <1>1, <1>2 DEF LexLess
<1> QED
  BY <1>1, <1>3 DEF x, y

(* The order of /runs, written out.                                        *)
LEMMA OrderOfJobs ==
  ASSUME NEW q \in RunsUrl, NEW a \in JobItem, NEW b \in JobItem
  PROVE  LET less == IF q.sortBy = "durationMs"
                       THEN \/ a.duration < b.duration
                            \/ a.duration = b.duration /\ Created[a.id] < Created[b.id]
                            \/ a.duration = b.duration /\ Created[a.id] = Created[b.id]
                                 /\ a.id < b.id
                       ELSE \/ Created[a.id] < Created[b.id]
                            \/ Created[a.id] = Created[b.id] /\ a.id < b.id
         IN  LexLess(SortColumns(q, a), SortColumns(q, b)) <=> less
<1>1. /\ a.id \in Nat /\ b.id \in Nat /\ a.duration \in Nat /\ b.duration \in Nat
      /\ Created[a.id] \in Nat /\ Created[b.id] \in Nat
  BY ListingsAssumption DEF JobItem
<1>2. CASE q.sortBy = "durationMs"
  <2>1. SortColumns(q, a) = <<a.duration, Created[a.id], a.id>>
        /\ SortColumns(q, b) = <<b.duration, Created[b.id], b.id>>
    BY <1>2 DEF SortColumns
  <2>2. LexLess(SortColumns(q, a), SortColumns(q, b)) <=>
          \/ a.duration < b.duration
          \/ a.duration = b.duration /\ Created[a.id] < Created[b.id]
          \/ a.duration = b.duration /\ Created[a.id] = Created[b.id] /\ a.id < b.id
    <3> DEFINE a1 == a.duration
               a2 == Created[a.id]
               a3 == a.id
               b1 == b.duration
               b2 == Created[b.id]
               b3 == b.id
    <3>1. a1 \in Nat /\ a2 \in Nat /\ a3 \in Nat /\ b1 \in Nat /\ b2 \in Nat /\ b3 \in Nat
      BY <1>1
    <3> HIDE DEF a1, a2, a3, b1, b2, b3
    <3>2. LexLess(<<a1, a2, a3>>, <<b1, b2, b3>>) <=>
            a1 < b1 \/ (a1 = b1 /\ a2 < b2) \/ (a1 = b1 /\ a2 = b2 /\ a3 < b3)
      BY <3>1, LexLess3
    <3> QED
      BY <2>1, <3>2 DEF a1, a2, a3, b1, b2, b3
  <2> QED
    BY <1>2, <2>2
<1>3. CASE q.sortBy # "durationMs"
  <2>1. SortColumns(q, a) = <<Created[a.id], a.id>> /\ SortColumns(q, b) = <<Created[b.id], b.id>>
    BY <1>3 DEF SortColumns
  <2>2. LexLess(SortColumns(q, a), SortColumns(q, b)) <=>
          \/ Created[a.id] < Created[b.id]
          \/ Created[a.id] = Created[b.id] /\ a.id < b.id
    BY <1>1, <2>1, LexLess2
  <2> QED
    BY <1>3, <2>2
<1> QED
  BY <1>2, <1>3

(* The order of a table tells any two of its rows apart.                   *)
LEMMA BeforeIsOrder ==
  ASSUME NEW q \in Url
  PROVE  /\ \A a \in Item(q) : ~Before(q, a, a)
         /\ \A a, b, c \in Item(q) : Before(q, a, b) /\ Before(q, b, c) => Before(q, a, c)
         /\ \A a, b \in Item(q) : a.id # b.id => Before(q, a, b) \/ Before(q, b, a)
<1>1. CASE q.page = "runs"
  <2>1. q \in RunsUrl /\ Item(q) = JobItem
    BY <1>1, UrlPages DEF Item
  <2>2. \A a \in JobItem : /\ a.id \in Nat /\ a.duration \in Nat /\ Created[a.id] \in Nat
    BY ListingsAssumption DEF JobItem
  <2> DEFINE Less(a, b) == LexLess(SortColumns(q, a), SortColumns(q, b))
  <2>3. \A a \in JobItem : ~Less(a, a)
    <3> SUFFICES ASSUME NEW a \in JobItem PROVE ~Less(a, a)
      OBVIOUS
    <3> HIDE DEF Less
    <3> QED
      BY <2>1, <2>2, OrderOfJobs DEF Less
  <2>4. \A a, b, c \in JobItem : Less(a, b) /\ Less(b, c) => Less(a, c)
    <3> SUFFICES ASSUME NEW a \in JobItem, NEW b \in JobItem, NEW c \in JobItem, Less(a, b),
                          Less(b, c)
                 PROVE  Less(a, c)
      OBVIOUS
    <3> QED
      BY <2>1, <2>2, OrderOfJobs
  <2>5. \A a, b \in JobItem : a.id # b.id => Less(a, b) \/ Less(b, a)
    <3> SUFFICES ASSUME NEW a \in JobItem, NEW b \in JobItem, a.id # b.id
                 PROVE  Less(a, b) \/ Less(b, a)
      OBVIOUS
    <3> QED
      BY <2>1, <2>2, OrderOfJobs
  <2>6. \A a, b : Before(q, a, b) = IF q.desc THEN Less(b, a) ELSE Less(a, b)
    BY <1>1 DEF Before, JobBefore
  <2> HIDE DEF Less
  <2> QED
    BY <2>1, <2>3, <2>4, <2>5, <2>6
<1>2. CASE q.page # "runs"
  <2>1. q \in QueuesUrl /\ Item(q) = QueueItem
    BY <1>2, UrlPages DEF Item
  <2> DEFINE val(a) == a[q.sortBy]
  <2>2. \A a \in QueueItem : val(a) \in Nat /\ a.id \in Nat
    BY <2>1, ListingsAssumption DEF QueueItem, QueuesUrl
  <2>3. \A a, b : Before(q, a, b) <=>
           \/ IF q.desc THEN val(a) > val(b) ELSE val(a) < val(b)
           \/ val(a) = val(b) /\ a.id < b.id
    BY <1>2 DEF Before, QueueBefore
  <2> HIDE DEF val
  <2> QED
    BY <2>1, <2>2, <2>3
<1> QED
  BY <1>1, <1>2

(* What the tables keep, typed; before one comes to them nothing is kept.  *)
TabType ==
  /\ table \in [Rows -> Row] /\ paused \in BOOLEAN
  /\ url \in Url /\ debounced \in Url /\ debounced.page = url.page
  /\ url.cursor = NoCursor => url.dir = "next"
  /\ history \in Seq(JobItem \union {NoCursor})
  /\ tab # "tables" => cache = <<>>
  /\ \A key \in DOMAIN cache :
       /\ key.query \in Url /\ key = QueryKey(key.frozen, key.query)
       /\ cache[key] \in Page(key.query)

(* The items of a list that have been the same since the tab opened.       *)
SteadyOf(t, rows, q) ==
  {item \in Items(t, q) : \A r \in rows : IF q.page = "runs" THEN r # item.id
    ELSE QueueOf[r] # item.id}

(* The next page starts where this one ends.                               *)
Complete(t, rows, q, page) ==
  /\ page.next # NoCursor => Beyond(q, page.next)
  /\ \A item \in SteadyOf(t, rows, q) :
       Beyond(q, item) => \/ \E i \in DOMAIN page.items : page.items[i].id = item.id
                          \/ page.next # NoCursor /\ Before(q, page.next, item)

(* Every page that is kept leaves nothing out up to where the next starts. *)
CacheInv ==
  \A key \in DOMAIN cache :
    key.query.dir = "next" => Complete(table, touched, key.query, cache[key])

(* The way back: every page ends where the one after it starts, and the    *)
(* cursors that Previous goes back to are those the pages started at.      *)
WayInv ==
  way # <<>> =>
    LET n == Len(way) IN
    /\ way \in Seq(Url) /\ n > 1
    /\ url = way[n]
    /\ way[1].cursor = NoCursor
    /\ \A i \in 1..n : FirstPage(way[i]) = FirstPage(url) /\ way[i].dir = "next"
    /\ \A i \in 2..n : way[i].cursor # NoCursor
    /\ \A i, j \in 1..n : i < j => Beyond(way[i], way[j].cursor)
    /\ \A i \in 1..(n - 1) :
         /\ QueryKey(paused, way[i]) \in DOMAIN cache
         /\ cache[QueryKey(paused, way[i])].next = way[i + 1].cursor
    /\ OnRuns => /\ Len(history) >= n - 1
                 /\ \A i \in 1..(n - 1) : history[Len(history) - (n - 1) + i] = way[i].cursor

(* The inductive invariant of the tables.                                  *)
TabInv == TabType /\ CacheInv /\ WayInv

-----------------------------------------------------------------------------
(* What one page reads.                                                    *)

(* What a query returns.                                                   *)
Found(t, q) == {item \in Items(t, q) : Beyond(q, item)}

(* The order a page is read in.                                            *)
NearerOf(t, q) == {p \in Found(t, q) \X Found(t, q) : Nearer(q, p[1], p[2])}

(* The rows of a page come from all that are found, in order.              *)
LEMMA FoundSorted ==
  ASSUME NEW t \in [Rows -> Row], NEW q \in Url
  PROVE  /\ SortsBy(InOrder(Found(t, q), NearerOf(t, q)), Found(t, q), NearerOf(t, q))
         /\ Found(t, q) \subseteq Item(q)
         /\ Cardinality(Found(t, q)) \in Nat
<1> DEFINE S == Found(t, q)
           R == NearerOf(t, q)
<1>1. /\ S \subseteq Item(q) /\ IsFiniteSet(S)
      /\ \A x, y \in S : x.id = y.id => x = y
  BY ItemsListed, FS_Subset DEF Found
<1>2. /\ \A a \in S : ~Before(q, a, a)
      /\ \A a, b, c \in S : Before(q, a, b) /\ Before(q, b, c) => Before(q, a, c)
      /\ \A a, b \in S : a # b => Before(q, a, b) \/ Before(q, b, a)
  BY <1>1, BeforeIsOrder
<1>3. \A x, y \in S : <<x, y>> \in R <=> (IF q.dir = "next" THEN Before(q, x, y)
        ELSE Before(q, y, x))
  BY DEF NearerOf, Nearer
<1>4. StrictOrder(R, S)
  <2> HIDE DEF R, S
  <2> QED
    BY <1>2, <1>3 DEF StrictOrder
<1> QED
  BY <1>1, <1>4, InOrderSorts, FS_CardinalityType

(* The first of them, up to a limit.                                       *)
LEMMA FetchedFirst ==
  ASSUME NEW t \in [Rows -> Row], NEW q \in Url, NEW limit \in Nat
  PROVE  LET s == InOrder(Found(t, q), NearerOf(t, q))
             n == Cardinality(Found(t, q))
             m == IF n < limit THEN n ELSE limit
         IN  /\ Fetched(t, q, limit) \in Seq(Item(q))
             /\ Len(Fetched(t, q, limit)) = m
             /\ \A i \in 1..m : Fetched(t, q, limit)[i] = s[i]
<1> DEFINE s == InOrder(Found(t, q), NearerOf(t, q))
           n == Cardinality(Found(t, q))
           m == IF n < limit THEN n ELSE limit
<1>1. n \in Nat /\ s \in [1..n -> Item(q)]
  BY FoundSorted DEF SortsBy
<1>2. s \in Seq(Item(q)) /\ Len(s) = n
  <2> HIDE DEF s, n
  <2>1. s \in Seq(Item(q)) /\ DOMAIN s = 1..n
    BY <1>1, SeqDef
  <2> QED
    BY <1>1, <2>1, LenProperties
<1>3. Fetched(t, q, limit) = SubSeq(s, 1, m)
  <2>1. Fetched(t, q, limit) = SubSeq(s, 1, IF Len(s) < limit THEN Len(s) ELSE limit)
    BY DEF Fetched, Found, NearerOf
  <2> HIDE DEF s, n
  <2> QED
    BY <1>2, <2>1
<1>4. m \in 0..n
  <2> HIDE DEF n
  <2> QED
    BY <1>1
<1> HIDE DEF s, n, m
<1>5. /\ SubSeq(s, 1, m) \in Seq(Item(q))
      /\ Len(SubSeq(s, 1, m)) = m
      /\ \A i \in 1..m : SubSeq(s, 1, m)[i] = s[i]
  BY <1>1, <1>2, <1>4, SubSeqProperties
<1> QED
  BY <1>3, <1>5 DEF s, n, m

(* A page holds the first of them, in the order of the list.               *)
LEMMA PageIsFirst ==
  ASSUME NEW t \in [Rows -> Row], NEW q \in Url
  PROVE  LET s == InOrder(Found(t, q), NearerOf(t, q))
             n == Cardinality(Found(t, q))
             m == IF n < Limit THEN n ELSE Limit
             page == ReadPage(t, q)
         IN  /\ page \in Page(q)
             /\ q.dir = "next" =>
                  /\ Len(page.items) = m
                  /\ \A i \in 1..m : page.items[i] = s[i]
                  /\ page.next = IF n > Limit THEN s[m] ELSE NoCursor
<1> DEFINE s == InOrder(Found(t, q), NearerOf(t, q))
           n == Cardinality(Found(t, q))
           m == IF n < Limit THEN n ELSE Limit
           rows == Fetched(t, q, Limit + 1)
           kept == IF Len(rows) > Limit THEN Front(rows) ELSE rows
           items == IF q.dir = "prev" THEN Reverse(kept) ELSE kept
<1>1. n \in Nat /\ Limit \in Nat \ {0}
  BY FoundSorted, ListingsAssumption
<1>2. /\ rows \in Seq(Item(q))
      /\ Len(rows) = IF n < Limit + 1 THEN n ELSE Limit + 1
      /\ \A i \in 1..Len(rows) : rows[i] = s[i]
  <2>1. Limit + 1 \in Nat
    BY <1>1
  <2> QED
    BY <2>1, FetchedFirst
<1>3. Len(rows) > Limit <=> n > Limit
  <2> HIDE DEF n, s, rows
  <2> QED
    BY <1>1, <1>2
<1>4. kept \in Seq(Item(q)) /\ Len(kept) = m /\ \A i \in 1..m : kept[i] = s[i]
  <2> HIDE DEF n, s, rows
  <2>1. CASE Len(rows) > Limit
    <3>1. Front(rows) = SubSeq(rows, 1, Limit) /\ kept = Front(rows) /\ m = Limit
            /\ Len(rows) = Limit + 1
      BY <1>1, <1>2, <1>3, <2>1 DEF Front
    <3>2. /\ SubSeq(rows, 1, Limit) \in Seq(Item(q)) /\ Len(SubSeq(rows, 1, Limit)) = Limit
          /\ \A i \in 1..Limit : SubSeq(rows, 1, Limit)[i] = rows[i]
      BY <1>1, <1>2, <3>1, SubSeqProperties
    <3> QED
      BY <1>1, <1>2, <3>1, <3>2
  <2>2. CASE ~(Len(rows) > Limit)
    BY <1>1, <1>2, <1>3, <2>2
  <2> QED
    BY <2>1, <2>2
<1>5. items \in Seq(Item(q))
  <2> HIDE DEF kept
  <2>1. Reverse(kept) \in Seq(Item(q))
    <3>1. Len(kept) \in Nat /\ \A i \in 1..Len(kept) : kept[Len(kept) - i + 1] \in Item(q)
      BY <1>4
    <3> QED
      BY <3>1, IsASeq DEF Reverse
  <2> QED
    BY <1>4, <2>1
<1>6. /\ ReadPage(t, q).items = items
      /\ ReadPage(t, q).next = IF (IF q.dir = "prev" THEN q.cursor # NoCursor
           ELSE Len(rows) > Limit) /\ items # <<>>
                                 THEN Last(items) ELSE NoCursor
      /\ ReadPage(t, q).prev = IF (IF q.dir = "next" THEN q.cursor # NoCursor
           ELSE Len(rows) > Limit) /\ items # <<>>
                                 THEN Head(items) ELSE NoCursor
      /\ ReadPage(t, q) = [items |-> ReadPage(t, q).items, next |-> ReadPage(t, q).next,
           prev |-> ReadPage(t, q).prev]
  BY DEF ReadPage
<1> HIDE DEF items
<1>7. items # <<>> => Last(items) \in Item(q) /\ Head(items) \in Item(q)
  BY <1>5 DEF Last
<1>8. ReadPage(t, q) \in Page(q)
  BY <1>5, <1>6, <1>7 DEF Page
<1>9. ASSUME q.dir = "next"
      PROVE  /\ Len(ReadPage(t, q).items) = m
             /\ \A i \in 1..m : ReadPage(t, q).items[i] = s[i]
             /\ ReadPage(t, q).next = IF n > Limit THEN s[m] ELSE NoCursor
  <2>1. items = kept
    BY <1>9 DEF items
  <2>2. n > Limit => m = Limit /\ items # <<>> /\ Last(items) = s[m]
    <3> HIDE DEF kept, n, s
    <3> QED
      BY <1>1, <1>4, <2>1 DEF Last
  <2> HIDE DEF kept, n, s, m
  <2> QED
    BY <1>3, <1>4, <1>6, <1>9, <2>1, <2>2
<1> QED
  BY <1>8, <1>9

(* It leaves nothing out down to where it ends, and ends where the next    *)
(* page starts.                                                            *)
LEMMA PageIsComplete ==
  ASSUME NEW t \in [Rows -> Row], NEW q \in Url, NEW rows, q.dir = "next"
  PROVE  Complete(t, rows, q, ReadPage(t, q))
<1> DEFINE s == InOrder(Found(t, q), NearerOf(t, q))
           n == Cardinality(Found(t, q))
           m == IF n < Limit THEN n ELSE Limit
           page == ReadPage(t, q)
<1>1. n \in Nat /\ Limit \in Nat \ {0}
  BY FoundSorted, ListingsAssumption
<1>2. /\ page.items \in Seq(Item(q)) /\ Len(page.items) = m
      /\ \A i \in 1..m : page.items[i] = s[i]
      /\ page.next = IF n > Limit THEN s[m] ELSE NoCursor
  BY PageIsFirst DEF Page
<1>3. /\ s \in [1..n -> Found(t, q)]
      /\ \A x \in Found(t, q) : \E i \in 1..n : s[i] = x
      /\ \A i, j \in 1..n : i < j => <<s[i], s[j]>> \in NearerOf(t, q)
  BY FoundSorted DEF SortsBy
<1>4. \A x, y : <<x, y>> \in NearerOf(t, q) => Before(q, x, y)
  BY DEF NearerOf, Nearer
<1>5. \A x \in Found(t, q) : Beyond(q, x) /\ x # NoCursor
  <2>1. Found(t, q) \subseteq Item(q)
    BY FoundSorted
  <2>2. NoCursor \notin Item(q)
    BY ListingsAssumption DEF NoCursor, Item, JobItem, QueueItem
  <2> QED
    BY <2>1, <2>2 DEF Found
<1>6. SteadyOf(t, rows, q) \subseteq Items(t, q)
  BY DEF SteadyOf
<1> HIDE DEF s, n, page
<1>7. m \in 0..n /\ (n > Limit => m \in 1..n) /\ (n <= Limit => m = n)
  BY <1>1
<1>8. page.next # NoCursor => Beyond(q, page.next)
  BY <1>2, <1>3, <1>5, <1>7
<1>9. ASSUME NEW item \in SteadyOf(t, rows, q), Beyond(q, item)
      PROVE  \/ \E i \in DOMAIN page.items : page.items[i].id = item.id
             \/ page.next # NoCursor /\ Before(q, page.next, item)
  <2>1. item \in Found(t, q)
    BY <1>6, <1>9 DEF Found
  <2>2. PICK k \in 1..n : s[k] = item
    BY <1>3, <2>1
  <2>3. CASE k <= m
    <3>1. k \in 1..m /\ DOMAIN page.items = 1..m
      BY <1>2, <1>7, <2>3
    <3> HIDE DEF m
    <3> QED
      BY <1>2, <2>2, <3>1
  <2>4. CASE ~(k <= m)
    <3>1. n > Limit /\ m \in 1..n /\ m < k
      BY <1>1, <1>7, <2>4
    <3> HIDE DEF m
    <3> QED
      BY <1>2, <1>3, <1>4, <1>5, <2>2, <3>1
  <2> QED
    BY <2>3, <2>4
<1> QED
  BY <1>8, <1>9 DEF Complete, page

-----------------------------------------------------------------------------
(* Where the buttons lead.                                                 *)

(* What a query is asked with is an address of the same table.             *)
LEMMA QueryType ==
  ASSUME NEW u \in Url, NEW late \in Url, late.page = u.page
  PROVE  QueryFilters(u, late) \in Url /\ QueryFilters(u, late).page = u.page
BY DEF QueryFilters

(* A page on show is one of the table that is open.                        *)
LEMMA DataType ==
  ASSUME TabType, Loaded
  PROVE  /\ Query \in Url /\ Query.page = url.page
         /\ Key = QueryKey(paused, Query) /\ Key.query = Query
         /\ Data \in Page(Query)
         /\ Data.next \in Item(url) \union {NoCursor} /\ Data.prev \in Item(url) \union {NoCursor}
<1>1. Query \in Url /\ Query.page = url.page
  BY QueryType DEF TabType, Query
<1>2. Key = QueryKey(paused, Query) /\ Key.query = Query
  BY DEF Key, QueryKey
<1>3. Data \in Page(Query)
  BY <1>2 DEF TabType, Loaded, Data
<1>4. Item(Query) = Item(url)
  BY <1>1 DEF Item
<1> QED
  BY <1>1, <1>2, <1>3, <1>4 DEF Page

(* What the cache holds after Show it held before, perhaps under the key   *)
(* of the same query live.                                                 *)
Copied ==
  /\ \A k \in DOMAIN cache : k \in DOMAIN cache' /\ cache'[k] = cache[k]
  /\ \A key \in DOMAIN cache' :
       \/ key \in DOMAIN cache
       \/ /\ key = QueryKey(key.frozen, key.query)
          /\ \E k \in DOMAIN cache : k.query = key.query /\ cache'[key] = cache[k]

(* Showing a page keeps no other than those there are.                     *)
LEMMA ShowCopies ==
  ASSUME NEW p, NEW q, Show(p, q) \/ ShowIfOther(p, q)
  PROVE  Copied
<1> DEFINE key == QueryKey(p, q)
           live == QueryKey(FALSE, q)
<1>1. CASE cache' = Put(cache, key, cache[live]) /\ key \notin DOMAIN cache /\ live \in DOMAIN cache
  <2>1. DOMAIN cache' = DOMAIN cache \union {key} /\ cache'[key] = cache[live]
        /\ \A k \in DOMAIN cache : cache'[k] = cache[k]
    BY <1>1 DEF Put
  <2>2. key = QueryKey(key.frozen, key.query) /\ live.query = key.query
    BY DEF QueryKey
  <2> HIDE DEF key, live
  <2> QED
    BY <1>1, <2>1, <2>2 DEF Copied
<1>2. CASE cache' = cache
  BY <1>2 DEF Copied
<1> QED
  BY <1>1, <1>2 DEF Show, ShowIfOther, dataVars

(* A copied page is typed as what it is copied from.                       *)
LEMMA CopiedType ==
  ASSUME TabType, Copied
  PROVE  \A key \in DOMAIN cache' :
           /\ key.query \in Url /\ key = QueryKey(key.frozen, key.query)
           /\ cache'[key] \in Page(key.query)
BY DEF TabType, Copied

(* A turn of the page to a query of the same table.                        *)
LEMMA GoType ==
  ASSUME TabType, NEW u \in Url, u.page = url.page, u.cursor = NoCursor => u.dir = "next",
         Go(u), UNCHANGED Elsewhere, tab = "tables", tab' = tab,
         history' \in Seq(JobItem \union {NoCursor})
  PROVE  TabType'
<1>1. UNCHANGED <<table, debounced, paused>> /\ url' = u
  BY DEF Go, Elsewhere, tableVars
<1>2. Copied
  BY ShowCopies DEF Go
<1> QED
  BY <1>1, <1>2, CopiedType DEF TabType

(* Next leads to an address.                                               *)
LEMMA ClickNextType ==
  ASSUME TabType, ClickNext, tab = "tables", tab' = tab PROVE TabType'
<1> DEFINE u == [url EXCEPT !.cursor = Data.next, !.dir = "next"]
<1>1. Loaded /\ Go(u) /\ UNCHANGED Elsewhere
  BY DEF ClickNext
<1>2. u \in Url /\ u.page = url.page /\ u.dir = "next"
  <2>1. url \in Url /\ Data.next \in Item(url) \union {NoCursor}
    BY <1>1, DataType DEF TabType
  <2> QED
    BY <2>1, UrlWith
<1>3. history' \in Seq(JobItem \union {NoCursor})
  <2>1. CASE OnRuns
    <3>1. url.cursor \in JobItem \union {NoCursor}
      BY <2>1, UrlPages DEF TabType, OnRuns, Item
    <3> QED
      BY <2>1, <3>1 DEF ClickNext, TabType
  <2>2. CASE ~OnRuns
    BY <2>2 DEF ClickNext, TabType
  <2> QED
    BY <2>1, <2>2
<1> HIDE DEF u
<1> QED
  BY <1>1, <1>2, <1>3, GoType

(* A sequence is its last one after all before it.                         *)
LEMMA FrontLast ==
  ASSUME NEW S, NEW s \in Seq(S), s # <<>>
  PROVE  /\ Last(s) \in S /\ Front(s) \in Seq(S)
         /\ Len(s) \in Nat \ {0} /\ Last(s) = s[Len(s)] /\ Len(Front(s)) = Len(s) - 1
         /\ \A i \in 1..(Len(s) - 1) : Front(s)[i] = s[i]
<1>1. Len(s) \in Nat \ {0} /\ Last(s) = s[Len(s)] /\ Last(s) \in S
  BY EmptySeq DEF Last
<1>2. \A i \in 1..(Len(s) - 1) : s[i] \in S
  BY <1>1
<1> DEFINE n == Len(s) - 1
<1>3. /\ SubSeq(s, 1, n) \in Seq(S) /\ Len(SubSeq(s, 1, n)) = n
      /\ \A i \in 1..n : SubSeq(s, 1, n)[i] = s[i]
  <2>1. n \in Nat
    BY <1>1
  <2>2. \A i \in 1..n : s[i] \in S
    BY <1>2
  <2> HIDE DEF n
  <2> QED
    BY <2>1, <2>2, SubSeqProperties
<1> QED
  BY <1>1, <1>3 DEF Front

(* Previous leads to an address.                                           *)
LEMMA ClickPreviousType ==
  ASSUME TabType, ClickPrevious, tab = "tables", tab' = tab PROVE TabType'
<1>1. Loaded /\ UNCHANGED Elsewhere /\ Data.prev # NoCursor
  BY DEF ClickPrevious
<1>2. CASE OnRuns /\ history # <<>>
  <2> DEFINE u == [url EXCEPT !.cursor = Last(history), !.dir = "next"]
  <2>1. Go(u) /\ history' = Front(history)
    BY <1>2 DEF ClickPrevious
  <2>2. Last(history) \in Item(url) \union {NoCursor} /\ history' \in Seq(JobItem \union {NoCursor})
    BY <1>2, <2>1, FrontLast DEF TabType, OnRuns, Item
  <2>3. u \in Url /\ u.page = url.page /\ u.dir = "next"
    <3>1. url \in Url
      BY DEF TabType
    <3>2. PICK c \in Item(url) \union {NoCursor} : c = Last(history)
      BY <2>2
    <3>3. u = [url EXCEPT !.cursor = c, !.dir = "next"]
      BY <3>2
    <3> HIDE DEF u
    <3> QED
      BY <3>1, <3>3, UrlWith
  <2> HIDE DEF u
  <2> QED
    BY <1>1, <2>1, <2>2, <2>3, GoType
<1>3. CASE ~(OnRuns /\ history # <<>>)
  <2> DEFINE u == [url EXCEPT !.cursor = Data.prev, !.dir = "prev"]
  <2>1. Go(u) /\ history' = history
    BY <1>3 DEF ClickPrevious
  <2>2. u \in Url /\ u.page = url.page /\ u.cursor # NoCursor
    <3>1. url \in Url /\ Data.prev \in Item(url) \union {NoCursor}
      BY <1>1, DataType DEF TabType
    <3> QED
      BY <1>1, <3>1, UrlWith
  <2>3. history' \in Seq(JobItem \union {NoCursor})
    BY <2>1 DEF TabType
  <2> HIDE DEF u
  <2> QED
    BY <1>1, <2>1, <2>2, <2>3, GoType
<1> QED
  BY <1>2, <1>3

(* What goes back to the first page leads to an address.                   *)
LEMMA FirstPageType ==
  ASSUME TabType, NEW u \in Url, u.page = url.page, Go(FirstPage(u)), UNCHANGED Elsewhere,
         tab = "tables", tab' = tab, history' \in Seq(JobItem \union {NoCursor})
  PROVE  TabType'
<1> DEFINE f == FirstPage(u)
<1>1. f \in Url /\ f.page = url.page /\ f.dir = "next" /\ Go(f)
  BY FirstPageUrl
<1> HIDE DEF f
<1> QED
  BY <1>1, GoType

(* Another order is that of an address, from its first page.               *)
LEMMA SortedType ==
  ASSUME NEW u \in Url,
         NEW by, by \in IF u.page = "runs" THEN {"durationMs"}
           ELSE {"waitingJobs", "activeJobs", "pressure"}
  PROVE  \E v \in Url : v.page = u.page /\ Sorted(u, by) = FirstPage(v)
<1> DEFINE v == [u EXCEPT !.sortBy = by, !.desc = ~(u.sortBy = by /\ u.desc)]
<1>1. Sorted(u, by) = FirstPage(v)
  BY DEF Sorted
<1>2. CASE u.page = "runs"
  <2>1. u \in RunsUrl
    BY <1>2, UrlPages
  <2>2. v \in RunsUrl
    BY <1>2, <2>1 DEF RunsUrl
  <2> QED
    BY <1>1, <1>2, <2>1, <2>2 DEF Url, RunsUrl
<1>3. CASE u.page # "runs"
  <2>1. u \in QueuesUrl
    BY <1>3, UrlPages
  <2>2. v \in QueuesUrl
    BY <1>3, <2>1 DEF QueuesUrl
  <2> QED
    BY <1>1, <1>3, <2>1, <2>2 DEF Url, QueuesUrl
<1> QED
  BY <1>2, <1>3

(* Filters and orders lead to addresses.                                   *)
LEMMA FiltersType ==
  ASSUME TabType, tab = "tables", tab' = tab,
         \/ ClickPreviousToFirst
         \/ \E status \in {"all", "completed"} : OnRuns /\ FilterByStatus(status)
         \/ OnRuns /\ SortRuns
         \/ \E by \in {"waitingJobs", "activeJobs", "pressure"} : SortQueues(by)
  PROVE  TabType'
<1>1. url \in Url /\ history \in Seq(JobItem \union {NoCursor}) /\ (OnRuns => url \in RunsUrl)
  BY UrlPages DEF TabType, OnRuns
<1>2. CASE ClickPreviousToFirst
  <2>1. history' \in Seq(JobItem \union {NoCursor})
    BY <1>1, <1>2 DEF ClickPreviousToFirst, RunsUrl
  <2> QED
    BY <1>1, <1>2, <2>1, FirstPageType DEF ClickPreviousToFirst
<1>3. ASSUME NEW v \in Url, v.page = url.page, ChangeFilters(v) PROVE TabType'
  <2>1. history' \in Seq(JobItem \union {NoCursor})
    BY <1>3 DEF ChangeFilters
  <2> QED
    BY <1>3, <2>1, FirstPageType DEF ChangeFilters
<1>4. ASSUME NEW status \in {"all", "completed"}, OnRuns, FilterByStatus(status) PROVE TabType'
  <2> DEFINE v == [url EXCEPT !.status = status]
  <2>1. status \in Statuses \union {"all"}
    BY DEF Statuses
  <2>2. v \in RunsUrl /\ v.page = url.page
    BY <1>1, <1>4, <2>1 DEF RunsUrl
  <2>3. ChangeFilters(v) /\ v \in Url
    BY <1>4, <2>2 DEF FilterByStatus, Url
  <2> HIDE DEF v
  <2> QED
    BY <1>3, <2>2, <2>3
<1>5. ASSUME OnRuns, SortRuns PROVE TabType'
  <2>1. PICK v \in Url : v.page = url.page /\ Sorted(url, "durationMs") = FirstPage(v)
    BY <1>1, <1>5, SortedType DEF OnRuns
  <2> DEFINE f == FirstPage(v)
  <2>2. f \in Url /\ f.page = url.page
    BY <2>1, FirstPageUrl
  <2>3. ChangeFilters(f)
    BY <1>5, <2>1 DEF SortRuns
  <2> HIDE DEF f
  <2> QED
    BY <1>3, <2>2, <2>3
<1>6. ASSUME NEW by \in {"waitingJobs", "activeJobs", "pressure"}, SortQueues(by) PROVE TabType'
  <2>1. url.page # "runs"
    BY <1>6 DEF SortQueues
  <2>2. PICK v \in Url : v.page = url.page /\ Sorted(url, by) = FirstPage(v)
    BY <1>1, <1>6, <2>1, SortedType
  <2>3. Go(FirstPage(v)) /\ UNCHANGED Elsewhere /\ history' = history
    BY <1>6, <2>2 DEF SortQueues, Elsewhere
  <2> QED
    BY <1>1, <2>2, <2>3, FirstPageType
<1> QED
  BY <1>2, <1>4, <1>5, <1>6

-----------------------------------------------------------------------------
(* The steps of the browser, as the tables see them.                       *)

(* What the other steps of a tab do to its tables.                         *)
Answered ==
  /\ tab = "tables" /\ tab' = tab
  /\ UNCHANGED <<tableVars, pageVars>>
  /\ cache' = Put(cache, Key, ReadPage(table, Query))

Still == UNCHANGED <<table, touched, pageVars, cache, tab>>

Written ==
  /\ UNCHANGED <<pageVars, cache, tab>>
  /\ table' \in [Rows -> Row]
  /\ \E r : touched' = touched \union {r} /\ \A p \in Rows : p # r => table'[p] = table[p]

Filters ==
  \/ ClickPreviousToFirst
  \/ \E status \in {"all", "completed"} : OnRuns /\ FilterByStatus(status)
  \/ OnRuns /\ SortRuns
  \/ \E by \in {"waitingJobs", "activeJobs", "pressure"} : SortQueues(by)

Turning ==
  \/ ClickNext \/ ClickPrevious \/ Filters
  \/ TogglePaused \/ Settle \/ Reload
  \/ \E queue \in Queues : OpenQueue(queue)

(* A row is written, and no other.                                         *)
LEMMA WriteRowIs ==
  ASSUME table \in [Rows -> Row], NEW r, NEW row, r \in Rows => row \in Row,
         WriteRow(r, row), UNCHANGED <<pageVars, cache, tab>>
  PROVE  Written
<1>1. table' = [table EXCEPT ![r] = row] /\ touched' = touched \union {r}
  BY DEF WriteRow
<1>2. table' \in [Rows -> Row] /\ \A p \in Rows : p # r => table'[p] = table[p]
  BY <1>1
<1> QED
  BY <1>1, <1>2 DEF Written

(* A change of a job writes its row.                                       *)
LEMMA ChangeIs ==
  ASSUME table \in [Rows -> Row], NEW r \in Rows, Change(r), tab' = tab
  PROVE  Written
<1>1. PICK row \in Moved(table[r]) : WriteRow(r, row)
  BY DEF Change
<1>2. row \in Row
  <2>1. table[r] \in Row
    OBVIOUS
  <2>2. {"waiting", "active", "completed"} \subseteq Statuses
    BY DEF Statuses
  <2>3. \A d \in 1..2 : d \in Nat
    OBVIOUS
  <2> QED
    BY <1>1, <2>1, <2>2, <2>3 DEF Moved, Row
<1>3. UNCHANGED <<pageVars, cache>>
  BY DEF Change, dataVars
<1> QED
  BY <1>1, <1>2, <1>3, WriteRowIs

(* A step of a bulk operation writes a row at most.                        *)
LEMMA BulkStepIs ==
  ASSUME table \in [Rows -> Row], BulkStep, tab' = tab
  PROVE  Written \/ Still
<1> DEFINE r == Head(bulk.rows)
           again == [status |-> "waiting", duration |-> 0]
<1>1. UNCHANGED <<pageVars, cache>>
  BY DEF BulkStep, dataVars
<1>2. again \in Row
  BY DEF Row, Statuses
<1>3. r \in Rows => [table[r] EXCEPT !.status = "failed"] \in Row
  BY DEF Row, Statuses
<1>4. \/ WriteRow(r, again)
      \/ \E copy \in Rows : WriteRow(copy, again)
      \/ WriteRow(r, [table[r] EXCEPT !.status = "failed"])
      \/ UNCHANGED <<table, touched>>
  BY DEF BulkStep
<1> HIDE DEF r, again
<1>5. CASE WriteRow(r, again) \/ \E copy \in Rows : WriteRow(copy, again)
  BY <1>1, <1>2, <1>5, WriteRowIs
<1>6. CASE WriteRow(r, [table[r] EXCEPT !.status = "failed"])
  BY <1>1, <1>3, <1>6, WriteRowIs
<1>7. CASE UNCHANGED <<table, touched>>
  BY <1>1, <1>7 DEF Still
<1> QED
  BY <1>4, <1>5, <1>6, <1>7

(* Every step is one of these.                                             *)
LEMMA TabSteps ==
  ASSUME TabType, [BrowserNext]_<<vars, formVars, listVars>>
  PROVE  \/ Answered \/ Still \/ Written
         \/ tab # "tables" /\ RunCreated
         \/ tab = "tables" /\ tab' = tab /\ Turning
<1>0. table \in [Rows -> Row]
  BY DEF TabType
<1>1. CASE OnTables
  <2>1. tab = "tables" /\ tab' = tab
    BY <1>1 DEF OnTables, formVars
  <2>2. CASE Fetch \/ Refresh \/ BulkDone
    <3>1. UNCHANGED <<tableVars, pageVars>>
            /\ (UNCHANGED cache \/ cache' = Put(cache, Key, ReadPage(table, Query)))
      BY <2>2 DEF Fetch, Refresh, BulkDone, Refetched
    <3> QED
      BY <2>1, <3>1 DEF Answered, Still, tableVars
  <2>3. CASE FetchFails \/ BulkFails \/ SelectAll \/ (\E item : SelectJob(item))
             \/ (\E does : ConfirmBulk(does) \/ \E item : ConfirmOne(does, item))
    BY <2>1, <2>3 DEF FetchFails, BulkFails, SelectAll, SelectJob, ConfirmBulk, ConfirmOne,
                      Still, tableVars, dataVars
  <2>4. CASE BulkStep
    BY <1>0, <2>1, <2>4, BulkStepIs
  <2>5. CASE \E r \in Rows : Change(r)
    BY <1>0, <2>1, <2>5, ChangeIs
  <2>6. CASE Turning
    BY <2>1, <2>6
  <2>7. CASE User
    <3>1. \/ Turning \/ SelectAll \/ (\E item : SelectJob(item))
          \/ (\E does : ConfirmBulk(does) \/ \E item : ConfirmOne(does, item))
      BY <2>7 DEF User, Turning, Filters
    <3> QED
      BY <2>3, <2>6, <3>1
  <2>8. \/ User \/ Turning \/ Fetch \/ Refresh \/ BulkDone \/ FetchFails \/ BulkFails \/ BulkStep
        \/ \E r \in Rows : Change(r)
    BY <1>1 DEF OnTables, Next, Turning
  <2> QED
    BY <2>2, <2>3, <2>4, <2>5, <2>6, <2>7, <2>8
<1>2. CASE OnForm
  <2>1. CASE \E r \in Rows : Change(r) /\ UNCHANGED formVars
    BY <1>0, <2>1, ChangeIs DEF formVars
  <2>2. CASE CreateFails
    BY <2>2 DEF CreateFails, Still, tableVars, dataVars
  <2>3. CASE Form /\ UNCHANGED <<tab, pageVars, dataVars, selected, bulk, faults>>
    <3>1. UNCHANGED tableVars
      BY <2>3 DEF Form, SelectQueue, LastRunLoaded, TypeName, EditData, SubmitRun
    <3> QED
      BY <2>3, <3>1 DEF Still, tableVars, dataVars
  <2> QED
    BY <1>2, <2>1, <2>2, <2>3 DEF OnForm, FormNext
<1>3. CASE OnList \/ UNCHANGED <<vars, formVars, listVars>>
  BY <1>3 DEF OnList, Still, vars, formVars, tableVars, dataVars
<1> QED
  BY <1>1, <1>2, <1>3 DEF BrowserNext

(* An answer replaces the page of the query on show, and no other.         *)
LEMMA AnsweredIs ==
  ASSUME TabType, Answered
  PROVE  /\ DOMAIN cache' = DOMAIN cache \union {Key}
         /\ \A k \in DOMAIN cache : k # Key => cache'[k] = cache[k]
         /\ cache'[Key] = ReadPage(table, Query)
         /\ Query \in Url /\ Query.page = url.page
         /\ Key = QueryKey(Key.frozen, Key.query) /\ Key.query = Query
BY QueryType DEF TabType, Answered, Put, Key, QueryKey, Query

(* Every step keeps the types.                                             *)
LEMMA TypeStep ==
  ASSUME TabType, [BrowserNext]_<<vars, formVars, listVars>>
  PROVE  TabType'
<1>1. CASE Answered
  <2>1. ReadPage(table, Query) \in Page(Query)
    BY <1>1, AnsweredIs, PageIsFirst DEF TabType
  <2> QED
    BY <1>1, <2>1, AnsweredIs DEF TabType, Answered, tableVars, pageVars
<1>2. CASE Still
  BY <1>2 DEF TabType, Still, pageVars
<1>3. CASE Written
  BY <1>3 DEF TabType, Written, pageVars
<1>4. CASE RunCreated
  BY <1>4 DEF TabType, RunCreated, pageVars, dataVars
<1>5. ASSUME tab = "tables", tab' = tab, Turning PROVE TabType'
  <2>1. CASE ClickNext
    BY <1>5, <2>1, ClickNextType
  <2>2. CASE ClickPrevious
    BY <1>5, <2>2, ClickPreviousType
  <2>3. CASE Filters
    BY <1>5, <2>3, FiltersType DEF Filters
  <2>4. CASE TogglePaused \/ Settle
    <3>1. UNCHANGED <<table, url, history>> /\ paused' \in BOOLEAN
          /\ debounced' \in {url, debounced} /\ Copied
      BY <2>4, ShowCopies DEF TogglePaused, Settle, tableVars, TabType
    <3> QED
      BY <1>5, <3>1, CopiedType DEF TabType
  <2>5. CASE Reload
    <3>1. UNCHANGED <<table, url>> /\ debounced' = url /\ history' = <<>> /\ paused' = FALSE
            /\ cache' = <<>>
      BY <2>5 DEF Reload, Mount
    <3>2. history' \in Seq(JobItem \union {NoCursor}) /\ DOMAIN cache' = {}
      BY <3>1
    <3> QED
      BY <1>5, <3>1, <3>2 DEF TabType
  <2>6. ASSUME NEW queue \in Queues, OpenQueue(queue) PROVE TabType'
    <3> DEFINE u == [Runs EXCEPT !.queue = queue]
    <3>1. u \in Url /\ u.dir = "next"
      BY DEF Runs, Url, RunsUrl
    <3>2. url' = u /\ debounced' = u /\ history' = <<>> /\ paused' = FALSE /\ UNCHANGED table
            /\ Copied
      BY <2>6, ShowCopies DEF OpenQueue, Mount, tableVars
    <3>3. history' \in Seq(JobItem \union {NoCursor})
      BY <3>2
    <3> HIDE DEF u
    <3> QED
      BY <1>5, <3>1, <3>2, <3>3, CopiedType DEF TabType
  <2> QED
    BY <1>5, <2>1, <2>2, <2>3, <2>4, <2>5, <2>6 DEF Turning
<1> QED
  BY <1>1, <1>2, <1>3, <1>4, <1>5, TabSteps

-----------------------------------------------------------------------------
(* No page leaves a row out.                                               *)

(* A row that changes leaves the entries of the others as they were.       *)
LEMMA SteadyShrinks ==
  ASSUME NEW t \in [Rows -> Row], NEW u \in [Rows -> Row], NEW rows, NEW r,
         \A p \in Rows : p # r => u[p] = t[p], NEW q \in Url
  PROVE  SteadyOf(u, rows \union {r}, q) \subseteq SteadyOf(t, rows, q)
<1> SUFFICES ASSUME NEW item \in SteadyOf(u, rows \union {r}, q)
             PROVE  item \in SteadyOf(t, rows, q)
  OBVIOUS
<1>1. /\ item \in Items(u, q)
      /\ \A p \in rows \union {r} : IF q.page = "runs" THEN p # item.id ELSE QueueOf[p] # item.id
  BY DEF SteadyOf
<1>2. CASE q.page = "runs"
  <2>1. PICK p \in {p \in Present(u) : q.queue \in {0, QueueOf[p]}
               /\ q.status \in {"all", u[p].status}} :
          item = [id |-> p, duration |-> u[p].duration, status |-> u[p].status]
    BY <1>1, <1>2 DEF Items, JobItems
  <2>2. p # r /\ u[p] = t[p]
    BY <1>1, <1>2, <2>1 DEF Present
  <2>3. item \in Items(t, q)
    BY <1>2, <2>1, <2>2 DEF Items, JobItems, Present
  <2> QED
    BY <1>1, <2>3 DEF SteadyOf
<1>3. CASE q.page # "runs"
  <2>1. PICK queue \in Queues :
          item = [ id          |-> queue,
                   waitingJobs |-> Count(u, queue, "waiting"),
                   activeJobs  |-> Count(u, queue, "active"),
                   pressure    |-> IF q.sortBy = "pressure" THEN Pressure[queue] ELSE 0 ]
    BY <1>1, <1>3 DEF Items, QueueItems
  <2>2. QueueOf[r] # queue
    BY <1>1, <1>3, <2>1
  <2>3. ASSUME NEW status PROVE Count(u, queue, status) = Count(t, queue, status)
    <3>1. {p \in Rows : QueueOf[p] = queue /\ u[p].status = status}
            = {p \in Rows : QueueOf[p] = queue /\ t[p].status = status}
      BY <2>2
    <3> QED
      BY <3>1 DEF Count
  <2>4. item \in Items(t, q)
    BY <1>3, <2>1, <2>3 DEF Items, QueueItems
  <2> QED
    BY <1>1, <2>4 DEF SteadyOf
<1> QED
  BY <1>2, <1>3

(* Turning to another page keeps no page that was not kept, but by a copy. *)
LEMMA TurningIs ==
  ASSUME Turning, ~Reload
  PROVE  UNCHANGED <<table, touched>> /\ Copied
<1>1. CASE ClickNext \/ ClickPrevious \/ Filters
  <2>1. UNCHANGED Elsewhere /\ \E u : Go(u)
    BY <1>1 DEF ClickNext, ClickPrevious, Filters, ClickPreviousToFirst, FilterByStatus, SortRuns,
                ChangeFilters, SortQueues, Elsewhere
  <2> QED
    BY <2>1, ShowCopies DEF Go, Elsewhere, tableVars
<1>2. CASE TogglePaused \/ Settle
  BY <1>2, ShowCopies DEF TogglePaused, Settle, tableVars
<1>3. CASE \E queue \in Queues : OpenQueue(queue)
  BY <1>3, ShowCopies DEF OpenQueue, tableVars
<1> QED
  BY <1>1, <1>2, <1>3 DEF Turning

(* Every step keeps what the pages leave out: nothing.                     *)
LEMMA CacheStep ==
  ASSUME TabType, CacheInv, [BrowserNext]_<<vars, formVars, listVars>>
  PROVE  CacheInv'
<1>1. CASE Answered
  <2>1. UNCHANGED <<table, touched>> /\ table \in [Rows -> Row]
    BY <1>1 DEF Answered, tableVars, TabType
  <2>2. Query.dir = "next" => Complete(table, touched, Query, ReadPage(table, Query))
    BY <1>1, <2>1, AnsweredIs, PageIsComplete
  <2> QED
    BY <1>1, <2>1, <2>2, AnsweredIs DEF CacheInv
<1>2. CASE Still
  BY <1>2 DEF CacheInv, Still
<1>3. CASE Written
  <2>1. PICK r : touched' = touched \union {r} /\ \A p \in Rows : p # r => table'[p] = table[p]
    BY <1>3 DEF Written
  <2>2. cache' = cache /\ table \in [Rows -> Row] /\ table' \in [Rows -> Row]
    BY <1>3 DEF Written, TabType
  <2>3. \A q \in Url : SteadyOf(table', touched', q) \subseteq SteadyOf(table, touched, q)
    BY <2>1, <2>2, SteadyShrinks
  <2>4. \A q \in Url : \A page : Complete(table, touched, q, page)
          => Complete(table', touched', q, page)
    BY <2>3 DEF Complete
  <2> QED
    BY <2>2, <2>4 DEF CacheInv, TabType
<1>4. CASE tab # "tables" /\ RunCreated
  <2>1. DOMAIN cache' = {}
    BY <1>4 DEF TabType, RunCreated, dataVars
  <2> QED
    BY <2>1 DEF CacheInv
<1>5. CASE Reload
  <2>1. DOMAIN cache' = {}
    BY <1>5 DEF Reload
  <2> QED
    BY <2>1 DEF CacheInv
<1>6. CASE Turning /\ ~Reload
  BY <1>6, TurningIs DEF CacheInv, Copied
<1> QED
  BY <1>1, <1>2, <1>3, <1>4, <1>5, <1>6, TabSteps

-----------------------------------------------------------------------------
(* The way from page to page.                                              *)

(* A URL is a list, a cursor in it and a direction.                        *)
LEMMA SameList ==
  ASSUME NEW u \in Url
  PROVE  /\ \A c, d : FirstPage([u EXCEPT !.cursor = c, !.dir = d]) = FirstPage(u)
         /\ \A v \in Url : FirstPage(u) = FirstPage(v) /\ u.cursor = v.cursor /\ u.dir = v.dir
              => u = v
<1>1. u = [f \in DOMAIN u |-> u[f]]
  BY DEF Url, RunsUrl, QueuesUrl
<1>2. ASSUME NEW c, NEW d
      PROVE  FirstPage([u EXCEPT !.cursor = c, !.dir = d]) = FirstPage(u)
  <2>1. CASE u \in RunsUrl
    BY <2>1 DEF RunsUrl, FirstPage
  <2>2. CASE u \in QueuesUrl
    BY <2>2 DEF QueuesUrl, FirstPage
  <2> QED
    BY <2>1, <2>2 DEF Url
<1>3. ASSUME NEW v \in Url, FirstPage(u) = FirstPage(v), u.cursor = v.cursor, u.dir = v.dir
      PROVE  u = v
  <2>1. u.page = v.page
    BY <1>3, FirstPageUrl
  <2>2. CASE u.page = "runs"
    <3>1. u \in RunsUrl /\ v \in RunsUrl
      BY <1>3, <2>1, <2>2, UrlPages
    <3> DEFINE x == FirstPage(u)
               y == FirstPage(v)
    <3>2. x.queue = u.queue /\ x.status = u.status /\ x.sortBy = u.sortBy /\ x.desc = u.desc
      BY <3>1 DEF RunsUrl, FirstPage
    <3>3. y.queue = v.queue /\ y.status = v.status /\ y.sortBy = v.sortBy /\ y.desc = v.desc
      BY <3>1 DEF RunsUrl, FirstPage
    <3> HIDE DEF x, y
    <3>4. x = y
      BY <1>3 DEF x, y
    <3> QED
      BY <1>3, <2>1, <3>1, <3>2, <3>3, <3>4 DEF RunsUrl
  <2>3. CASE u.page # "runs"
    <3>1. u \in QueuesUrl /\ v \in QueuesUrl
      BY <1>3, <2>1, <2>3, UrlPages
    <3> DEFINE x == FirstPage(u)
               y == FirstPage(v)
    <3>2. x.sortBy = u.sortBy /\ x.desc = u.desc
      BY <3>1 DEF QueuesUrl, FirstPage
    <3>3. y.sortBy = v.sortBy /\ y.desc = v.desc
      BY <3>1 DEF QueuesUrl, FirstPage
    <3> HIDE DEF x, y
    <3>4. x = y
      BY <1>3 DEF x, y
    <3> QED
      BY <1>3, <2>1, <3>1, <3>2, <3>3, <3>4 DEF QueuesUrl
  <2> QED
    BY <2>2, <2>3
<1> QED
  BY <1>2, <1>3

(* Two addresses with one first page show the same rows in the same order. *)
LEMMA SameOrder ==
  ASSUME NEW u \in Url, NEW v \in Url, FirstPage(u) = FirstPage(v)
  PROVE  /\ u.page = v.page
         /\ \A t : Items(t, u) = Items(t, v)
         /\ \A a, b : Before(u, a, b) = Before(v, a, b)
<1>1. u.page = v.page
  BY FirstPageUrl
<1>2. CASE u.page = "runs"
  <2>1. u \in RunsUrl /\ v \in RunsUrl
    BY <1>1, <1>2, UrlPages
  <2>2. u.queue = v.queue /\ u.status = v.status /\ u.sortBy = v.sortBy /\ u.desc = v.desc
    <3>1. /\ FirstPage(u).queue = u.queue /\ FirstPage(u).status = u.status
          /\ FirstPage(u).sortBy = u.sortBy /\ FirstPage(u).desc = u.desc
      BY <2>1 DEF RunsUrl, FirstPage
    <3>2. /\ FirstPage(v).queue = v.queue /\ FirstPage(v).status = v.status
          /\ FirstPage(v).sortBy = v.sortBy /\ FirstPage(v).desc = v.desc
      BY <2>1 DEF RunsUrl, FirstPage
    <3> QED
      BY <3>1, <3>2
  <2>3. \A a : SortColumns(u, a) = SortColumns(v, a)
    BY <2>2 DEF SortColumns
  <2>4. \A t : JobItems(t, u) = JobItems(t, v)
    BY <2>2 DEF JobItems
  <2>5. \A a, b : JobBefore(u, a, b) = JobBefore(v, a, b)
    BY <2>2, <2>3 DEF JobBefore
  <2> QED
    BY <1>1, <1>2, <2>4, <2>5 DEF Items, Before
<1>3. CASE u.page # "runs"
  <2>1. u \in QueuesUrl /\ v \in QueuesUrl
    BY <1>1, <1>3, UrlPages
  <2>2. u.sortBy = v.sortBy /\ u.desc = v.desc
    <3>1. FirstPage(u).sortBy = u.sortBy /\ FirstPage(u).desc = u.desc
      BY <2>1 DEF QueuesUrl, FirstPage
    <3>2. FirstPage(v).sortBy = v.sortBy /\ FirstPage(v).desc = v.desc
      BY <2>1 DEF QueuesUrl, FirstPage
    <3> QED
      BY <3>1, <3>2
  <2>3. \A t : QueueItems(t, u) = QueueItems(t, v)
    BY <2>2 DEF QueueItems
  <2>4. \A a, b : QueueBefore(u, a, b) = QueueBefore(v, a, b)
    BY <2>2 DEF QueueBefore
  <2> QED
    BY <1>1, <1>3, <2>3, <2>4 DEF Items, Before
<1> QED
  BY <1>1, <1>2, <1>3

(* On the way the query on show is the URL's, and no page behind it has    *)
(* its key.                                                                *)
LEMMA OnTheWay ==
  ASSUME TabType, WayInv, way # <<>>
  PROVE  /\ Len(way) \in Nat /\ Len(way) > 1 /\ way \in [1..Len(way) -> Url]
         /\ url = way[Len(way)] /\ url.cursor # NoCursor /\ url.dir = "next"
         /\ Query = url
         /\ \A i \in 1..(Len(way) - 1) : QueryKey(paused, way[i]) # Key
<1> DEFINE n == Len(way)
<1>1. n \in Nat /\ n > 1 /\ way \in [1..n -> Url] /\ url = way[n]
  BY LenProperties DEF WayInv
<1>2. n \in 2..n /\ n \in 1..n /\ \A i \in 1..(n - 1) : i \in 1..n /\ i < n
  BY <1>1
<1>3. url.cursor # NoCursor /\ url.dir = "next"
  BY <1>1, <1>2 DEF WayInv
<1>4. Query = url
  BY <1>3 DEF Query, QueryFilters
<1>5. ASSUME NEW i \in 1..(n - 1), QueryKey(paused, way[i]) = Key PROVE FALSE
  <2>1. way[i] = url
    BY <1>4, <1>5 DEF Key, QueryKey
  <2>2. Beyond(way[i], way[n].cursor)
    BY <1>2 DEF WayInv
  <2>3. Before(url, url.cursor, url.cursor)
    BY <1>1, <1>3, <2>1, <2>2 DEF Beyond
  <2>4. url \in Url /\ url.cursor \in Item(url)
    BY <1>3, UrlPages DEF TabType
  <2> QED
    BY <2>3, <2>4, BeforeIsOrder
<1> QED
  BY <1>1, <1>3, <1>4, <1>5

(* What the way needs of the rest.                                         *)
LEMMA WayKept ==
  ASSUME WayInv, TabType, UNCHANGED <<url, history, paused, way>>,
         \A k \in DOMAIN cache : k # Key => k \in DOMAIN cache' /\ cache'[k] = cache[k]
  PROVE  WayInv'
<1> SUFFICES ASSUME way # <<>> PROVE WayInv'
  BY DEF WayInv
<1>1. \A i \in 1..(Len(way) - 1) :
         /\ QueryKey(paused, way[i]) \in DOMAIN cache'
         /\ cache'[QueryKey(paused, way[i])].next = way[i + 1].cursor
  BY OnTheWay DEF WayInv
<1> QED
  BY <1>1 DEF WayInv, OnRuns

(* Next goes on from where the page on show ends.                          *)
LEMMA WayNext ==
  ASSUME TabType, CacheInv, WayInv, ClickNext
  PROVE  WayInv'
<1> DEFINE u == [url EXCEPT !.cursor = Data.next, !.dir = "next"]
           n == Len(way)
<1>1. /\ Loaded /\ Data.next # NoCursor
      /\ url' = u /\ paused' = paused /\ Copied
      /\ way' = IF url.cursor = NoCursor THEN (IF Query = url THEN <<url, u>> ELSE <<>>)
                ELSE IF way # <<>> THEN Append(way, u) ELSE <<>>
      /\ history' = IF OnRuns THEN Append(history, url.cursor) ELSE history
  BY ShowCopies DEF ClickNext, Go, Elsewhere
<1>2. /\ Data.next \in Item(url) \union {NoCursor} /\ url \in Url
      /\ Key = QueryKey(paused, Query) /\ Key \in DOMAIN cache /\ cache[Key] = Data
           /\ Key.query = Query
  BY <1>1, DataType DEF TabType, Loaded, Data
<1>3. u \in Url /\ u.page = url.page /\ u.cursor = Data.next /\ u.dir = "next"
        /\ FirstPage(u) = FirstPage(url)
  <2>1. u \in Url /\ u.page = url.page /\ u.cursor = Data.next /\ u.dir = "next"
    <3>1. url \in Url /\ Data.next \in Item(url) \union {NoCursor}
      BY <1>2
    <3> QED
      BY <3>1, UrlWith
  <2>2. FirstPage(u) = FirstPage(url)
    BY <1>2, SameList
  <2> QED
    BY <2>1, <2>2
<1>4. OnRuns' <=> OnRuns
  BY <1>1, <1>3 DEF OnRuns
<1>5. /\ Key \in DOMAIN cache' /\ cache'[Key].next = u.cursor
      /\ \A k \in DOMAIN cache : k \in DOMAIN cache' /\ cache'[k] = cache[k]
  BY <1>1, <1>2, <1>3 DEF Copied
<1> HIDE DEF u
<1>6. CASE url.cursor = NoCursor /\ Query = url
  <2>1. way' = <<url, u>> /\ Len(way') = 2 /\ way'[1] = url /\ way'[2] = u
    BY <1>1, <1>6
  <2>2. url.dir = "next"
    BY <1>6 DEF TabType
  <2>3. 1..2 = {1, 2} /\ 2..2 = {2} /\ 1..(2 - 1) = {1}
    OBVIOUS
  <2>4. OnRuns => /\ Len(history') >= 1
                  /\ history'[Len(history') - 1 + 1] = url.cursor
    BY <1>1 DEF TabType
  <2>5. way' \in Seq(Url)
    BY <1>2, <1>3, <2>1
  <2>6. QueryKey(paused', way'[1]) = Key
    BY <1>1, <1>2, <1>6, <2>1
  <2>7. \A i, j \in {1, 2} : i < j => Beyond(way'[i], way'[j].cursor)
    BY <1>6, <2>1 DEF Beyond
  <2> QED
    BY <1>1, <1>3, <1>4, <1>5, <1>6, <2>1, <2>2, <2>3, <2>4, <2>5, <2>6, <2>7 DEF WayInv
<1>7. CASE url.cursor # NoCursor /\ way # <<>>
  <2>1. /\ n \in Nat /\ n > 1 /\ way \in [1..n -> Url] /\ way \in Seq(Url)
        /\ url = way[n] /\ Query = url /\ url.dir = "next"
    BY <1>7, OnTheWay DEF WayInv
  <2>2. /\ way' = Append(way, u) /\ Len(way') = n + 1 /\ way'[n + 1] = u
        /\ \A i \in 1..n : way'[i] = way[i]
    BY <1>1, <1>7, <2>1
  <2>3. /\ way[1].cursor = NoCursor
        /\ \A i \in 1..n : FirstPage(way[i]) = FirstPage(url) /\ way[i].dir = "next"
        /\ \A i \in 2..n : way[i].cursor # NoCursor
        /\ \A i, j \in 1..n : i < j => Beyond(way[i], way[j].cursor)
        /\ \A i \in 1..(n - 1) :
             /\ QueryKey(paused, way[i]) \in DOMAIN cache
             /\ cache[QueryKey(paused, way[i])].next = way[i + 1].cursor
    BY <1>7 DEF WayInv
  <2>0. OnRuns => /\ Len(history) >= n - 1
                  /\ \A i \in 1..(n - 1) : history[Len(history) - (n - 1) + i] = way[i].cursor
    BY <1>7 DEF WayInv
  <2> HIDE DEF n
  <2>4. Before(url, url.cursor, u.cursor)
    <3>1. Complete(table, touched, url, Data)
      BY <1>2, <2>1 DEF CacheInv
    <3> QED
      BY <1>1, <1>3, <1>7, <2>1, <3>1 DEF Complete, Beyond
  <2>5. \A i \in 1..n : Beyond(way[i], u.cursor)
    <3> SUFFICES ASSUME NEW i \in 1..n, way[i].cursor # NoCursor
                          PROVE Before(way[i], way[i].cursor, u.cursor)
      BY <2>3 DEF Beyond
    <3>1. way[i] \in Url /\ FirstPage(way[i]) = FirstPage(url) /\ way[i].dir = "next"
      BY <2>1, <2>3
    <3>2. \A a, b : Before(way[i], a, b) = Before(url, a, b)
      BY <1>2, <3>1, SameOrder
    <3>3. CASE i = n
      BY <2>1, <2>4, <3>2, <3>3
    <3>4. CASE i # n
      <4>1. Before(way[i], way[i].cursor, url.cursor)
        <5>1. i < n /\ n \in 1..n
          BY <2>1, <3>4
        <5> QED
          BY <2>1, <2>3, <3>1, <5>1 DEF Beyond
      <4>2. Item(way[i]) = Item(url) /\ way[i].cursor \in Item(url) /\ url.cursor \in Item(url)
        BY <1>2, <1>7, <3>1, SameOrder, UrlPages DEF Item
      <4>3. u.cursor \in Item(url)
        BY <1>1, <1>2, <1>3
      <4> QED
        BY <1>2, <2>4, <3>2, <4>1, <4>2, <4>3, BeforeIsOrder
    <3> QED
      BY <3>3, <3>4
  <2>6. OnRuns => /\ Len(history') >= n
                  /\ \A i \in 1..n : history'[Len(history') - n + i] = way[i].cursor
    <3> SUFFICES ASSUME OnRuns
                 PROVE  /\ Len(history') >= n
                        /\ \A i \in 1..n : history'[Len(history') - n + i] = way[i].cursor
      OBVIOUS
    <3>1. /\ history \in Seq(JobItem \union {NoCursor}) /\ history' = Append(history, url.cursor)
          /\ Len(history) >= n - 1
          /\ \A i \in 1..(n - 1) : history[Len(history) - (n - 1) + i] = way[i].cursor
      BY <1>1, <2>0 DEF TabType
    <3>2. /\ Len(history) \in Nat /\ Len(history') = Len(history) + 1
          /\ history'[Len(history) + 1] = url.cursor
          /\ \A k \in 1..Len(history) : history'[k] = history[k]
      BY <3>1
    <3>3. ASSUME NEW i \in 1..n PROVE history'[Len(history') - n + i] = way[i].cursor
      <4>1. CASE i = n
        <5>1. Len(history') - n + i = Len(history) + 1
          BY <2>1, <3>2, <4>1
        <5> QED
          BY <2>1, <3>2, <4>1, <5>1
      <4>2. CASE i # n
        <5>1. i \in 1..(n - 1) /\ Len(history') - n + i = Len(history) - (n - 1) + i
          BY <2>1, <3>2, <4>2
        <5>2. Len(history) - (n - 1) + i \in 1..Len(history)
          BY <2>1, <3>1, <3>2, <5>1
        <5> QED
          BY <3>1, <3>2, <5>1, <5>2
      <4> QED
        BY <4>1, <4>2
    <3>4. Len(history') >= n
      BY <2>1, <3>1, <3>2
    <3> QED
      BY <3>3, <3>4
  <2>7. way' \in Seq(Url) /\ way' # <<>>
    BY <1>3, <2>1, <2>2
  <2>8. /\ \A i \in 1..(n + 1) : i = n + 1 \/ i \in 1..n
        /\ \A i \in 2..(n + 1) : i = n + 1 \/ i \in 2..n
        /\ \A i \in 1..n : i = n \/ (i \in 1..(n - 1) /\ i + 1 \in 1..n)
        /\ 1 \in 1..n /\ n \in 1..n /\ (n + 1) - 1 = n /\ n + 1 > 1
        /\ \A i \in 1..n : i < n + 1 /\ i \in 1..(n + 1)
    BY <2>1
  <2>9. \A i, j \in 1..(n + 1) : i < j => Beyond(way'[i], way'[j].cursor)
    <3> SUFFICES ASSUME NEW i \in 1..(n + 1), NEW j \in 1..(n + 1), i < j
                 PROVE  Beyond(way'[i], way'[j].cursor)
      OBVIOUS
    <3>1. i \in 1..n
      BY <2>1
    <3> QED
      BY <2>2, <2>3, <2>5, <2>8, <3>1
  <2>10. \A i \in 1..n : /\ QueryKey(paused', way'[i]) \in DOMAIN cache'
                         /\ cache'[QueryKey(paused', way'[i])].next = way'[i + 1].cursor
    <3> SUFFICES ASSUME NEW i \in 1..n
                 PROVE  /\ QueryKey(paused', way'[i]) \in DOMAIN cache'
                        /\ cache'[QueryKey(paused', way'[i])].next = way'[i + 1].cursor
      OBVIOUS
    <3>1. CASE i = n
      BY <1>1, <1>2, <1>5, <2>1, <2>2, <3>1
    <3>2. CASE i # n
      BY <1>1, <1>5, <2>2, <2>3, <2>8, <3>2
    <3> QED
      BY <3>1, <3>2
  <2>11. \A i \in 1..(n + 1) : FirstPage(way'[i]) = FirstPage(u) /\ way'[i].dir = "next"
    <3>1. u.dir = "next" /\ FirstPage(u) = FirstPage(url)
      BY <1>3
    <3> SUFFICES ASSUME NEW i \in 1..(n + 1)
                 PROVE  FirstPage(way'[i]) = FirstPage(u) /\ way'[i].dir = "next"
      OBVIOUS
    <3>2. CASE i = n + 1
      <4>1. way'[i] = u
        BY <2>2, <3>2
      <4> QED
        BY <3>1, <4>1
    <3>3. CASE i \in 1..n
      <4>1. way'[i] = way[i]
        BY <2>2, <3>3
      <4>2. FirstPage(way[i]) = FirstPage(url) /\ way[i].dir = "next"
        BY <2>3, <3>3
      <4> QED
        BY <3>1, <4>1, <4>2
    <3> QED
      BY <2>8, <3>2, <3>3
  <2>12. \A i \in 2..(n + 1) : way'[i].cursor # NoCursor
    <3>1. \A i \in 2..n : i \in 1..n
      BY <2>1
    <3> QED
      BY <1>1, <1>3, <2>2, <2>3, <2>8, <3>1
  <2>13. way'[1].cursor = NoCursor
    BY <2>2, <2>3, <2>8
  <2>14. OnRuns' => /\ Len(history') >= n
                    /\ \A i \in 1..n : history'[Len(history') - n + i] = way'[i].cursor
    BY <1>4, <2>2, <2>6
  <2>15. /\ 1..Len(way') = 1..(n + 1) /\ 2..Len(way') = 2..(n + 1) /\ 1..(Len(way') - 1) = 1..n
         /\ Len(way') - 1 = n /\ Len(way') > 1 /\ way'[Len(way')] = url'
    BY <1>1, <2>1, <2>2
  <2>16. url' = u
    BY <1>1
  <2> QED
    BY <2>7, <2>9, <2>10, <2>11, <2>12, <2>13, <2>14, <2>15, <2>16 DEF WayInv
<1>8. CASE way' = <<>>
  BY <1>8 DEF WayInv
<1> QED
  BY <1>1, <1>6, <1>7, <1>8

(* Where Previous leads while /runs remembers a way.                       *)
LEMMA PreviousOnWay ==
  ASSUME TabType, WayInv, ClickPrevious, OnRuns, way # <<>>
  PROVE  url' = way[Len(way) - 1] /\ history' = Front(history) /\ history # <<>>
<1> DEFINE n == Len(way)
<1>1. /\ n \in Nat /\ n > 1 /\ way \in [1..n -> Url] /\ url \in Url /\ url.dir = "next"
  BY OnTheWay DEF TabType
<1>2. /\ history \in Seq(JobItem \union {NoCursor}) /\ Len(history) \in Nat
      /\ Len(history) >= n - 1
      /\ \A i \in 1..(n - 1) : history[Len(history) - (n - 1) + i] = way[i].cursor
      /\ \A i \in 1..n : FirstPage(way[i]) = FirstPage(url) /\ way[i].dir = "next"
  BY DEF WayInv, TabType
<1> HIDE DEF n
<1>3. history # <<>> /\ Last(history) = way[n - 1].cursor
  <2>1. n - 1 \in 1..(n - 1) /\ Len(history) - (n - 1) + (n - 1) = Len(history)
    BY <1>1, <1>2
  <2>2. history # <<>>
    BY <1>1, <1>2
  <2> QED
    BY <1>2, <2>1, <2>2, FrontLast
<1> DEFINE u == [url EXCEPT !.cursor = Last(history), !.dir = "next"]
<1>4. url' = u /\ history' = Front(history)
  BY <1>3 DEF ClickPrevious, Go
<1>5. way[n - 1] \in Url /\ FirstPage(way[n - 1]) = FirstPage(url) /\ way[n - 1].dir = "next"
  <2>1. n - 1 \in 1..n
    BY <1>1
  <2> QED
    BY <1>1, <1>2, <2>1
<1>6. Last(history) \in Item(url) \union {NoCursor}
  BY <1>2, <1>3, FrontLast DEF OnRuns, Item
<1>7. u \in Url /\ u.cursor = Last(history) /\ u.dir = "next"
  BY <1>1, <1>6, UrlWith
<1>8. FirstPage(u) = FirstPage(url)
  BY <1>1, SameList
<1> HIDE DEF u
<1>9. u = way[n - 1]
  BY <1>3, <1>5, <1>7, <1>8, SameList
<1> QED
  BY <1>3, <1>4, <1>9 DEF n

(* Previous goes one page back on the way.                                 *)
LEMMA WayPrevious ==
  ASSUME TabType, WayInv, ClickPrevious
  PROVE  WayInv'
<1> DEFINE n == Len(way)
<1>1. CASE ~(OnRuns /\ n > 2)
  BY <1>1 DEF ClickPrevious, TurnBack, WayInv
<1>2. CASE OnRuns /\ n > 2
  <2>1. way # <<>>
    BY <1>2
  <2>2. /\ n \in Nat /\ way \in Seq(Url) /\ way \in [1..n -> Url]
        /\ way[1].cursor = NoCursor
        /\ \A i \in 1..n : FirstPage(way[i]) = FirstPage(url) /\ way[i].dir = "next"
        /\ \A i \in 2..n : way[i].cursor # NoCursor
        /\ \A i, j \in 1..n : i < j => Beyond(way[i], way[j].cursor)
        /\ \A i \in 1..(n - 1) :
             /\ QueryKey(paused, way[i]) \in DOMAIN cache
             /\ cache[QueryKey(paused, way[i])].next = way[i + 1].cursor
    BY <2>1, OnTheWay DEF WayInv
  <2>3. /\ history \in Seq(JobItem \union {NoCursor}) /\ Len(history) \in Nat
        /\ Len(history) >= n - 1
        /\ \A i \in 1..(n - 1) : history[Len(history) - (n - 1) + i] = way[i].cursor
    BY <1>2, <2>1 DEF WayInv, TabType
  <2>4. url' = way[n - 1] /\ history' = Front(history) /\ history # <<>>
    BY <1>2, <2>1, PreviousOnWay
  <2>5. /\ way' = Front(way) /\ paused' = paused /\ Copied
    BY <1>2, ShowCopies DEF ClickPrevious, TurnBack, Go, Elsewhere
  <2> HIDE DEF n
  <2>6. /\ Len(way') = n - 1 /\ way' \in Seq(Url)
        /\ \A i \in 1..(n - 1) : way'[i] = way[i]
    <3>1. n = Len(way)
      BY DEF n
    <3> QED
      BY <2>1, <2>2, <2>5, <3>1, FrontLast
  <2>7. /\ Len(history') = Len(history) - 1
        /\ \A i \in 1..(Len(history) - 1) : history'[i] = history[i]
    BY <2>3, <2>4, FrontLast
  <2>8. /\ 1..Len(way') = 1..(n - 1) /\ 2..Len(way') = 2..(n - 1) /\ 1..(Len(way') - 1) = 1..(n - 2)
        /\ Len(way') - 1 = n - 2 /\ Len(way') > 1 /\ way'[Len(way')] = url'
        /\ \A i \in 1..(n - 1) : i \in 1..n
        /\ \A i \in 2..(n - 1) : i \in 2..n /\ i \in 1..(n - 1)
        /\ \A i \in 1..(n - 2) : i \in 1..(n - 1) /\ i + 1 \in 1..(n - 1)
        /\ 1 \in 1..(n - 1) /\ n - 1 \in 1..(n - 1)
    BY <1>2, <2>2, <2>4, <2>6
  <2>9. \A i \in 1..(n - 2) : history'[Len(history') - (n - 2) + i] = way'[i].cursor
    <3> SUFFICES ASSUME NEW i \in 1..(n - 2)
                 PROVE  history'[Len(history') - (n - 2) + i] = way'[i].cursor
      OBVIOUS
    <3>1. /\ Len(history') - (n - 2) + i = Len(history) - (n - 1) + i
          /\ Len(history) - (n - 1) + i \in 1..(Len(history) - 1)
      BY <1>2, <2>2, <2>3, <2>7
    <3> QED
      BY <2>3, <2>6, <2>7, <2>8, <3>1
  <2>10. Len(history') >= n - 2
    BY <2>2, <2>3, <2>7
  <2>11. \A i \in 1..(n - 1) : FirstPage(way'[i]) = FirstPage(url') /\ way'[i].dir = "next"
    BY <2>2, <2>4, <2>6, <2>8
  <2>12. \A i \in 2..(n - 1) : way'[i].cursor # NoCursor
    BY <2>2, <2>6, <2>8
  <2>13. \A i, j \in 1..(n - 1) : i < j => Beyond(way'[i], way'[j].cursor)
    BY <2>2, <2>6, <2>8
  <2>14. \A i \in 1..(n - 2) : /\ QueryKey(paused', way'[i]) \in DOMAIN cache'
                               /\ cache'[QueryKey(paused', way'[i])].next = way'[i + 1].cursor
    BY <2>2, <2>5, <2>6, <2>8 DEF Copied
  <2>15. way'[1].cursor = NoCursor
    BY <2>2, <2>6, <2>8
  <2> QED
    BY <2>6, <2>8, <2>9, <2>10, <2>11, <2>12, <2>13, <2>14, <2>15 DEF WayInv
<1> QED
  BY <1>1, <1>2

(* Every step keeps the way.                                               *)
LEMMA WayStep ==
  ASSUME TabType, CacheInv, WayInv, [BrowserNext]_<<vars, formVars, listVars>>
  PROVE  WayInv'
<1>1. CASE Answered
  <2>1. \A k \in DOMAIN cache : k # Key => k \in DOMAIN cache' /\ cache'[k] = cache[k]
    BY <1>1, AnsweredIs
  <2> QED
    BY <1>1, <2>1, WayKept DEF Answered, pageVars
<1>2. CASE Still \/ Written
  BY <1>2, WayKept DEF Still, Written, pageVars
<1>3. CASE RunCreated
  BY <1>3, WayKept DEF RunCreated, pageVars, dataVars
<1>4. CASE ClickNext
  BY <1>4, WayNext
<1>5. CASE ClickPrevious
  BY <1>5, WayPrevious
<1>6. CASE Settle
  <2>1. UNCHANGED <<url, history, paused, way>> /\ Copied
    BY <1>6, ShowCopies DEF Settle
  <2> QED
    BY <2>1, WayKept DEF Copied
<1>7. CASE Filters \/ TogglePaused \/ Reload \/ \E queue \in Queues : OpenQueue(queue)
  <2>1. way' = <<>>
    BY <1>7 DEF Filters, ClickPreviousToFirst, FilterByStatus, SortRuns, ChangeFilters, SortQueues,
                TogglePaused, Reload, OpenQueue, Mount
  <2> QED
    BY <2>1 DEF WayInv
<1> QED
  BY <1>1, <1>2, <1>3, <1>4, <1>5, <1>6, <1>7, TabSteps DEF Turning

(* A tab starts with nothing kept and nowhere to go back to.               *)
LEMMA TabInit == BrowserInit => TabInv
<1> SUFFICES ASSUME BrowserInit PROVE TabInv
  OBVIOUS
<1>1. Runs \in Url /\ QueueTable \in Url /\ Runs.dir = "next" /\ QueueTable.dir = "next"
  BY DEF Runs, QueueTable, Url, RunsUrl, QueuesUrl
<1>2. DOMAIN cache = {} /\ history \in Seq(JobItem \union {NoCursor})
  BY DEF BrowserInit, Init
<1> QED
  BY <1>1, <1>2, WebTablesAssumption DEF BrowserInit, Init, TabInv, TabType, CacheInv, WayInv

(* The invariant of the tables is inductive.                               *)
LEMMA TabStep == TabInv /\ [BrowserNext]_<<vars, formVars, listVars>> => TabInv'
BY TypeStep, CacheStep, WayStep DEF TabInv

(* No row that was there all along is missing.                             *)
LEMMA WalkComplete ==
  ASSUME TabInv PROVE WalkShowsAll
<1> DEFINE shownUrls == IF way = <<>> THEN {url} ELSE ToSet(way)
<1> SUFFICES ASSUME Query = url, Loaded, Data.next = NoCursor, way = <<>> => url.cursor = NoCursor,
                    NEW item \in Steady
             PROVE  item.id \in UNION {Shown(u) : u \in shownUrls}
  BY DEF WalkShowsAll
<1>1. Steady = SteadyOf(table, touched, url)
  BY DEF Steady, SteadyOf, OnRuns
<1>2. url \in Url /\ table \in [Rows -> Row] /\ Key = QueryKey(paused, url)
        /\ Key \in DOMAIN cache /\ cache[Key] = Data
  BY DEF TabInv, TabType, Key, Loaded, Data
<1>3. ASSUME NEW u \in Url, QueryKey(paused, u) \in DOMAIN cache, u.dir = "next",
             FirstPage(u) = FirstPage(url), Beyond(u, item)
      PROVE  LET answer == cache[QueryKey(paused, u)]
             IN  \/ item.id \in Shown(u)
                 \/ answer.next # NoCursor /\ Before(u, answer.next, item)
  <2> DEFINE key == QueryKey(paused, u)
             answer == cache[key]
  <2>1. key.query = u
    BY DEF QueryKey
  <2>2. Complete(table, touched, u, answer)
    BY <1>3, <2>1 DEF TabInv, CacheInv
  <2>3. item \in SteadyOf(table, touched, u)
    BY <1>1, <1>2, <1>3, SameOrder DEF SteadyOf
  <2>4. \/ \E i \in DOMAIN answer.items : answer.items[i].id = item.id
        \/ answer.next # NoCursor /\ Before(u, answer.next, item)
    BY <1>3, <2>2, <2>3 DEF Complete
  <2>5. (\E i \in DOMAIN answer.items : answer.items[i].id = item.id) => item.id \in Shown(u)
    BY <1>3 DEF Shown, ToSet
  <2> QED
    BY <2>4, <2>5
<1>4. CASE way = <<>>
  <2>1. url.cursor = NoCursor /\ url.dir = "next"
    BY <1>4 DEF TabInv, TabType
  <2>2. item.id \in Shown(url)
    BY <1>2, <1>3, <2>1 DEF Beyond
  <2> QED
    BY <1>4, <2>2
<1>5. CASE way # <<>>
  <2> DEFINE n == Len(way)
             past == {i \in 1..n : Beyond(way[i], item)}
             less == {p \in past \X past : p[1] < p[2]}
  <2>1. n \in Nat /\ n > 1 /\ way \in [1..n -> Url] /\ url = way[n]
    BY <1>5, OnTheWay DEF TabInv
  <2>2. /\ way[1].cursor = NoCursor
        /\ \A i \in 1..n : FirstPage(way[i]) = FirstPage(url) /\ way[i].dir = "next"
        /\ \A i \in 2..n : way[i].cursor # NoCursor
        /\ \A i \in 1..(n - 1) :
             /\ QueryKey(paused, way[i]) \in DOMAIN cache
             /\ cache[QueryKey(paused, way[i])].next = way[i + 1].cursor
    BY <1>5 DEF TabInv, WayInv
  <2> HIDE DEF n
  <2>3. 1 \in past
    BY <2>1, <2>2 DEF Beyond
  <2>4. IsFiniteSet(past)
    <3>1. IsFiniteSet(1..n) /\ past \subseteq 1..n
      BY <2>1, FS_Interval
    <3> HIDE DEF past
    <3> QED
      BY <3>1, FS_Subset
  <2>5. StrictOrder(less, past)
    <3>1. past \subseteq Int
      OBVIOUS
    <3> HIDE DEF past
    <3> QED
      BY <3>1 DEF StrictOrder
  <2>6. PICK i \in past : \A j \in past : j = i \/ <<j, i>> \in less
    <3> HIDE DEF past, less
    <3> QED
      BY <2>3, <2>4, <2>5, LastExists
  <2>7. i \in 1..n /\ way[i] \in Url /\ Beyond(way[i], item) /\ FirstPage(way[i]) = FirstPage(url)
        /\ way[i].dir = "next"
    BY <2>1, <2>2, <2>6
  <2>8. QueryKey(paused, way[i]) \in DOMAIN cache
    <3>1. CASE i = n
      BY <1>2, <2>1, <3>1
    <3>2. CASE i # n
      BY <2>1, <2>2, <2>7, <3>2
    <3> QED
      BY <3>1, <3>2
  <2>9. item.id \in Shown(way[i])
    <3> SUFFICES ASSUME cache[QueryKey(paused, way[i])].next # NoCursor,
                        Before(way[i], cache[QueryKey(paused, way[i])].next, item)
                 PROVE  FALSE
      BY <1>3, <2>7, <2>8
    <3>1. i # n
      BY <1>2, <2>1
    <3>2. i \in 1..(n - 1) /\ i + 1 \in 1..n /\ i + 1 > i /\ i \in Int
      BY <2>1, <2>7, <3>1
    <3>3. Before(way[i], way[i + 1].cursor, item)
      BY <2>2, <3>2
    <3>4. way[i + 1] \in Url /\ FirstPage(way[i + 1]) = FirstPage(way[i]) /\ way[i + 1].dir = "next"
      BY <2>1, <2>2, <2>7, <3>2
    <3>5. Before(way[i + 1], way[i + 1].cursor, item)
      BY <2>7, <3>3, <3>4, SameOrder
    <3>6. i + 1 \in past
      BY <3>2, <3>4, <3>5 DEF Beyond
    <3>7. <<i + 1, i>> \in less
      BY <2>6, <3>2, <3>6
    <3>8. i + 1 < i
      BY <3>7
    <3> QED
      BY <3>2, <3>8
  <2>10. way[i] \in ToSet(way)
    BY <2>1, <2>7 DEF ToSet
  <2> QED
    BY <1>5, <2>9, <2>10
<1> QED
  BY <1>4, <1>5

(* Whoever pages through a table by Next sees all that stayed the same,    *)
(* for every table, order and size of page.                                *)
THEOREM WalkMissesNothing == BrowserSpec => []WalkShowsAll
BY TabInit, TabStep, WalkComplete, PTL DEF BrowserSpec

-----------------------------------------------------------------------------
(* The way back on /runs.                                                  *)

(* The URLs that were left are of the same list, and the cursors that are  *)
(* kept are theirs.                                                        *)
LeftOf(u, urls, cursors) ==
  /\ urls \in Seq(Url) /\ Len(urls) = Len(cursors)
  /\ \A i \in 1..Len(urls) : urls[i].cursor = cursors[i] /\ FirstPage(urls[i]) = FirstPage(u)

LeftInv == OnRuns => LeftOf(url, left, history)

(* One more page is left.                                                  *)
LEMMA LeftMore ==
  ASSUME TabType, LeftInv, OnRuns, NEW u, FirstPage(u) = FirstPage(url)
  PROVE  LeftOf(u, Append(left, url), Append(history, url.cursor))
<1>1. /\ url \in Url /\ history \in Seq(JobItem \union {NoCursor}) /\ left \in Seq(Url)
      /\ Len(left) = Len(history)
      /\ \A i \in 1..Len(left) : left[i].cursor = history[i]
                                 /\ FirstPage(left[i]) = FirstPage(url)
  BY DEF TabType, LeftInv, LeftOf
<1>2. url.cursor \in JobItem \union {NoCursor}
  BY <1>1, UrlPages DEF OnRuns, Item
<1>3. /\ Append(left, url) \in Seq(Url) /\ Len(Append(left, url)) = Len(left) + 1
      /\ Len(Append(history, url.cursor)) = Len(history) + 1
      /\ \A i \in 1..Len(left) : Append(left, url)[i] = left[i]
                                 /\ Append(history, url.cursor)[i] = history[i]
      /\ Append(left, url)[Len(left) + 1] = url
      /\ Append(history, url.cursor)[Len(left) + 1] = url.cursor
  BY <1>1, <1>2
<1>4. ASSUME NEW i \in 1..(Len(left) + 1)
      PROVE  /\ Append(left, url)[i].cursor = Append(history, url.cursor)[i]
             /\ FirstPage(Append(left, url)[i]) = FirstPage(u)
  <2>1. i \in 1..Len(left) \/ i = Len(left) + 1
    BY <1>1
  <2> QED
    BY <1>1, <1>3, <2>1
<1> QED
  BY <1>1, <1>3, <1>4 DEF LeftOf

(* The page of the same list at a cursor, in a direction.                  *)
At(u, c, d) == [u EXCEPT !.cursor = c, !.dir = d]

LEMMA AtIsUrl ==
  ASSUME NEW u \in Url, NEW c \in Item(u) \union {NoCursor}, NEW d \in {"next", "prev"}
  PROVE  /\ At(u, c, d) \in Url /\ At(u, c, d).page = u.page
         /\ At(u, c, d).cursor = c /\ At(u, c, d).dir = d
         /\ FirstPage(At(u, c, d)) = FirstPage(u)
<1>1. CASE u.page = "runs"
  <2>1. u \in RunsUrl /\ c \in JobItem \union {NoCursor}
    BY <1>1, UrlPages DEF Item
  <2> QED
    BY <1>1, <2>1 DEF At, FirstPage, RunsUrl, Url
<1>2. CASE u.page # "runs"
  <2>1. u \in QueuesUrl /\ c \in QueueItem \union {NoCursor}
    BY <1>2, UrlPages DEF Item
  <2> QED
    BY <1>2, <2>1 DEF At, FirstPage, QueuesUrl, Url
<1> QED
  BY <1>1, <1>2

(* Previous goes back to a cursor, and to the page that had it.            *)
LEMMA LeftLess ==
  ASSUME TabType, LeftInv, OnRuns, ClickPrevious
  PROVE  /\ LeftInv'
         /\ left # <<>> /\ Last(left).dir = "next" => url' = Last(left)
<1>1. /\ url \in Url /\ history \in Seq(JobItem \union {NoCursor}) /\ left \in Seq(Url)
      /\ Len(left) = Len(history)
      /\ \A i \in 1..Len(left) : left[i].cursor = history[i]
                                 /\ FirstPage(left[i]) = FirstPage(url)
  BY DEF TabType, LeftInv, LeftOf
<1>2. (left = <<>>) = (history = <<>>)
  BY <1>1, EmptySeq
<1>3. CASE history = <<>>
  <2> DEFINE u == [url EXCEPT !.cursor = Data.prev, !.dir = "prev"]
  <2>1. url' = u /\ left' = left /\ history' = history /\ left = <<>>
    BY <1>2, <1>3 DEF ClickPrevious, Go, TurnBack
  <2>2. Len(left) = 0
    BY <2>1
  <2> HIDE DEF u
  <2> QED
    BY <1>1, <2>1, <2>2 DEF LeftInv, LeftOf
<1>4. CASE history # <<>>
  <2> DEFINE u == [url EXCEPT !.cursor = Last(history), !.dir = "next"]
  <2>1. url' = u /\ left' = Front(left) /\ history' = Front(history) /\ left # <<>>
    BY <1>2, <1>4 DEF ClickPrevious, Go, TurnBack
  <2>2. /\ Last(history) = history[Len(history)] /\ Last(history) \in JobItem \union {NoCursor}
        /\ Len(Front(history)) = Len(history) - 1 /\ Len(history) \in Nat \ {0}
        /\ \A i \in 1..(Len(history) - 1) : Front(history)[i] = history[i]
    BY <1>1, <1>4, FrontLast
  <2>3. /\ Last(left) = left[Len(left)] /\ Last(left) \in Url
        /\ Front(left) \in Seq(Url) /\ Len(Front(left)) = Len(left) - 1
        /\ \A i \in 1..(Len(left) - 1) : Front(left)[i] = left[i]
    BY <1>1, <2>1, FrontLast
  <2>4. Last(left).cursor = Last(history) /\ FirstPage(Last(left)) = FirstPage(url)
    BY <1>1, <2>2, <2>3
  <2>5. Last(history) \in Item(url) \union {NoCursor}
    BY <2>2 DEF OnRuns, Item
  <2>6. u \in Url /\ u.cursor = Last(history) /\ u.dir = "next" /\ FirstPage(u) = FirstPage(url)
    <3>1. u = At(url, Last(history), "next") /\ url \in Url
      BY <1>1 DEF At
    <3> HIDE DEF u
    <3> QED
      BY <2>5, <3>1, AtIsUrl
  <2> HIDE DEF u
  <2>7. Last(left).dir = "next" => url' = Last(left)
    BY <2>1, <2>3, <2>4, <2>6, SameList
  <2>8. LeftOf(u, Front(left), Front(history))
    BY <1>1, <2>2, <2>3, <2>6 DEF LeftOf
  <2> QED
    BY <2>1, <2>7, <2>8 DEF LeftInv
<1> QED
  BY <1>3, <1>4

(* Every step keeps what was left, as long as the list is the same.        *)
LEMMA LeftStep ==
  ASSUME TabType, LeftInv, [BrowserNext]_<<vars, formVars, listVars>>
  PROVE  LeftInv'
<1>0. /\ left' = <<>> /\ history' = <<>> => LeftInv'
      /\ url'.page # "runs" => LeftInv'
      /\ UNCHANGED <<url, history, left>> => LeftInv'
  <2>1. ASSUME left' = <<>>, history' = <<>> PROVE LeftInv'
    <3>1. left' \in Seq(Url) /\ Len(left') = 0 /\ Len(history') = 0
      BY <2>1
    <3> QED
      BY <3>1 DEF LeftInv, LeftOf
  <2>2. ASSUME url'.page # "runs" PROVE LeftInv'
    BY <2>2 DEF LeftInv, OnRuns
  <2>3. ASSUME UNCHANGED <<url, history, left>> PROVE LeftInv'
    BY <2>3 DEF LeftInv, LeftOf, OnRuns
  <2> QED
    BY <2>1, <2>2, <2>3
<1>1. CASE Answered \/ Still \/ Written \/ RunCreated
  BY <1>0, <1>1 DEF Answered, Still, Written, RunCreated, pageVars
<1>2. CASE ClickNext
  <2> DEFINE u == [url EXCEPT !.cursor = Data.next, !.dir = "next"]
  <2>1. url \in Url /\ Loaded /\ url' = u
    BY <1>2 DEF TabType, ClickNext, Go
  <2>2. u.page = url.page /\ FirstPage(u) = FirstPage(url)
    <3>1. Data.next \in Item(url) \union {NoCursor} /\ u = At(url, Data.next, "next")
      BY <2>1, DataType DEF At
    <3> HIDE DEF u
    <3> QED
      BY <2>1, <3>1, AtIsUrl
  <2> HIDE DEF u
  <2>3. CASE OnRuns
    <3>1. left' = Append(left, url) /\ history' = Append(history, url.cursor)
      BY <1>2, <2>3 DEF ClickNext
    <3> QED
      BY <2>1, <2>2, <2>3, <3>1, LeftMore DEF LeftInv
  <2>4. CASE ~OnRuns
    BY <1>0, <2>1, <2>2, <2>4 DEF OnRuns
  <2> QED
    BY <2>3, <2>4
<1>3. CASE ClickPrevious
  <2>1. CASE OnRuns
    BY <1>3, <2>1, LeftLess
  <2>2. CASE ~OnRuns
    <3>1. url \in Url
      BY DEF TabType
    <3>2. Data.prev \in Item(url) \union {NoCursor}
      BY <1>3, DataType DEF ClickPrevious
    <3>3. url' = At(url, Data.prev, "prev")
      BY <1>3, <2>2 DEF ClickPrevious, Go, At
    <3>4. url'.page = url.page
      BY <3>1, <3>2, <3>3, AtIsUrl
    <3> QED
      BY <1>0, <2>2, <3>4 DEF OnRuns
  <2> QED
    BY <2>1, <2>2
<1>4. CASE ClickPreviousToFirst
  <2>1. /\ OnRuns /\ url' = FirstPage(url) /\ left' = Append(left, url)
        /\ history' = Append(history, url.cursor) /\ url \in Url
    BY <1>4 DEF ClickPreviousToFirst, Go, TabType
  <2>2. FirstPage(FirstPage(url)) = FirstPage(url)
    BY <2>1, SameList DEF FirstPage
  <2> QED
    BY <2>1, <2>2, LeftMore DEF LeftInv
<1>5. ASSUME NEW by \in {"waitingJobs", "activeJobs", "pressure"}, SortQueues(by)
      PROVE  LeftInv'
  <2>1. url.page = "queues" /\ url' = Sorted(url, by) /\ url \in Url
    BY <1>5 DEF SortQueues, Go, TabType
  <2>2. PICK v \in Url : v.page = url.page /\ Sorted(url, by) = FirstPage(v)
    BY <2>1, SortedType
  <2>3. url'.page = "queues"
    BY <2>1, <2>2, FirstPageUrl
  <2> QED
    BY <1>0, <2>3 DEF OnRuns
<1>6. CASE \/ \E status \in {"all", "completed"} : OnRuns /\ FilterByStatus(status)
           \/ OnRuns /\ SortRuns
  BY <1>0, <1>6 DEF FilterByStatus, SortRuns, ChangeFilters
<1>7. CASE TogglePaused \/ Settle
  BY <1>0, <1>7 DEF TogglePaused, Settle
<1>8. CASE Reload \/ \E queue \in Queues : OpenQueue(queue)
  BY <1>0, <1>8 DEF Reload, OpenQueue, Mount
<1> QED
  BY <1>1, <1>2, <1>3, <1>4, <1>5, <1>6, <1>7, <1>8, TabSteps DEF Turning, Filters

(* Previous on /runs undoes Next from wherever the walk began, after a     *)
(* reload too, whatever has been read, paused or refreshed in between: it  *)
(* leads to the page that was last left forward, if that page had itself   *)
(* been reached forward (runs-table.tsx: handleFiltersChange).             *)
THEOREM PreviousUndoesNext == BrowserSpec => PreviousComesBack
<1> DEFINE Back == OnRuns /\ ClickPrevious /\ left # <<>> /\ Last(left).dir = "next"
                     => url' = Last(left)
<1>1. BrowserInit => TabType /\ LeftInv
  BY TabInit DEF TabInv, BrowserInit, Init, LeftInv, LeftOf
<1>2. TabType /\ LeftInv /\ [BrowserNext]_<<vars, formVars, listVars>> => (TabType /\ LeftInv)'
  BY TypeStep, LeftStep
<1>3. TabType /\ LeftInv => [Back]_vars
  BY LeftLess
<1>4. BrowserSpec => [][Back]_vars
  BY <1>1, <1>2, <1>3, PTL DEF BrowserSpec
<1> QED
  BY <1>4 DEF PreviousComesBack

-----------------------------------------------------------------------------
(* The lists that grow.                                                    *)

(* The two lists that grow: types.                                         *)
ListPage == [rows : Seq(Entries), next : Nat]

(* A fetch that goes on has a next page to ask for.                        *)
ListType ==
  /\ stored \subseteq Entries
  /\ pages \in Seq(ListPage)
  /\ fetch \in [whole : BOOLEAN, got : Seq(ListPage), total : Seq(Nat), rows : Seq(Seq(Entries))]
  /\ due \in Nat /\ missed \in BOOLEAN /\ error \in BOOLEAN
  /\ fetch.got # <<>> => NextParam(fetch.got) # 0

(* Pages of names leave nothing out down to where they end.                *)
Covers(steady, ps) ==
  ps # <<>> =>
    \A e \in steady : NextParam(ps) = 0 \/ e < NextParam(ps) =>
      \E i \in 1..Len(ps) : e \in ToSet(ps[i].rows)

(* The rows read for a page leave nothing out between the first and the one*)
(* the next page starts with.                                              *)
RowsCover(steady, param, rows) ==
  /\ Len(rows) > PageSize => Len(rows) = PageSize + 1
  /\ \A e \in steady :
       e >= param => \/ \E i \in 1..Len(rows) : rows[i] = e
                     \/ Len(rows) > PageSize /\ e > Last(rows)

(* Neither the names on show nor those of the fetch under way leave one out.*)
SelectorInv ==
  ~Logs =>
    /\ Covers(stored \ disturbed, pages)
    /\ Covers(stored \ disturbed, fetch.got)
    /\ fetch.rows # <<>> =>
         RowsCover(stored \ disturbed, NextParam(fetch.got), Head(fetch.rows))

(* A page of logs is cut from the lines there are.                         *)
Slice(S, param) == FirstOf(SubSeq(Listed(S), param + 1, Len(Listed(S))), PageSize)

(* The offset a page of logs gives for the next.                           *)
NextAfter(S, param) == IF Cardinality(S) > param + PageSize THEN param + PageSize ELSE 0

(* The offset a page has been read at.                                     *)
Start(ps, i) == IF i = 1 THEN 0 ELSE ps[i - 1].next

(* Every page starts where the one before it ends, and is what is there.   *)
Chained(S, ps) ==
  \A i \in 1..Len(ps) :
    /\ ps[i].rows = Slice(S, Start(ps, i))
    /\ ps[i].next = NextAfter(S, Start(ps, i))
    /\ i < Len(ps) => ps[i].next # 0

(* Once all events are in, the pages read since the last one follow each   *)
(* other, and those on show do unless a fetch has failed or is under way.  *)
LogsInv ==
  (Logs /\ due = 0 /\ ~missed) =>
    /\ ~error /\ ~fetch.whole => Chained(stored, pages)
    /\ Chained(stored, fetch.got)
    /\ fetch.total # <<>> => Head(fetch.total) = Cardinality(stored)
    /\ fetch.rows # <<>> => Head(fetch.rows) = Slice(stored, NextParam(fetch.got))

(* What holds of the first and of the one after each holds of all up to n. *)
LEMMA UpTo ==
  ASSUME NEW n \in Nat, n > 0, NEW K, 1 \in K, \A k \in 1..(n - 1) : k \in K => k + 1 \in K
  PROVE  1..n \subseteq K
<1> DEFINE bad == {k \in 1..n : k \notin K}
           R == {p \in bad \X bad : p[1] > p[2]}
<1> SUFFICES ASSUME bad # {} PROVE FALSE
  OBVIOUS
<1>1. IsFiniteSet(bad)
  <2>1. IsFiniteSet(1..n) /\ bad \subseteq 1..n
    BY FS_Interval
  <2> HIDE DEF bad
  <2> QED
    BY <2>1, FS_Subset
<1>2. StrictOrder(R, bad)
  <2>1. bad \subseteq Int
    OBVIOUS
  <2> HIDE DEF bad
  <2> QED
    BY <2>1 DEF StrictOrder
<1>3. PICK m \in bad : \A x \in bad : x = m \/ <<x, m>> \in R
  <2> HIDE DEF bad, R
  <2> QED
    BY <1>1, <1>2, LastExists
<1>4. m \in 1..n /\ m # 1 /\ m - 1 \in 1..(n - 1) /\ m - 1 + 1 = m
  OBVIOUS
<1>5. m - 1 \in K
  <2> SUFFICES ASSUME m - 1 \notin K PROVE FALSE
    OBVIOUS
  <2>1. m - 1 \in bad /\ m - 1 # m
    BY <1>4
  <2>2. <<m - 1, m>> \in R
    BY <1>3, <2>1
  <2>3. m - 1 > m
    BY <2>2
  <2> QED
    BY <1>4, <2>3
<1> QED
  BY <1>4, <1>5

(* FlattenSeq appends one sequence after the other.                        *)
Flat(ss, f, k) == f = [i \in 1..k |-> IF i = 1 THEN ss[i] ELSE f[i - 1] \o ss[i]]

(* f is a function on 1..k.                                                *)
Indexed(f, k) == f = [i \in 1..k |-> f[i]]

(* Flat, step by step.                                                     *)
LEMMA FlatIs ==
  ASSUME NEW ss, NEW f, NEW k \in Nat
  PROVE  Flat(ss, f, k) <=>
           /\ Indexed(f, k)
           /\ 1 \in 1..k => f[1] = ss[1]
           /\ \A i \in 1..(k - 1) : f[i + 1] = f[i] \o ss[i + 1]
<1> DEFINE e(i) == IF i = 1 THEN ss[i] ELSE f[i - 1] \o ss[i]
<1>1. ASSUME Flat(ss, f, k)
      PROVE  /\ Indexed(f, k)
             /\ 1 \in 1..k => f[1] = ss[1]
             /\ \A i \in 1..(k - 1) : f[i + 1] = f[i] \o ss[i + 1]
  <2>1. f = [i \in 1..k |-> e(i)]
    BY <1>1 DEF Flat
  <2> HIDE DEF e
  <2>2. Indexed(f, k) /\ \A i \in 1..k : f[i] = e(i)
    BY <2>1 DEF Indexed
  <2>3. \A i \in 1..(k - 1) : i + 1 \in 1..k /\ i + 1 # 1 /\ i + 1 - 1 = i
    OBVIOUS
  <2>4. \A i \in 1..k : i # 1 => e(i) = f[i - 1] \o ss[i]
    BY DEF e
  <2>5. e(1) = ss[1]
    BY DEF e
  <2>6. ASSUME NEW i \in 1..(k - 1) PROVE f[i + 1] = f[i] \o ss[i + 1]
    <3>1. \A j \in 1..k : j # 1 => f[j] = f[j - 1] \o ss[j]
      BY <2>2, <2>4
    <3>2. PICK j \in 1..k : j = i + 1 /\ j # 1 /\ j - 1 = i
      BY <2>3
    <3>3. f[j] = f[j - 1] \o ss[j]
      BY <3>1, <3>2
    <3> QED
      BY <3>2, <3>3
  <2> QED
    BY <2>2, <2>5, <2>6
<1>2. ASSUME /\ Indexed(f, k)
             /\ 1 \in 1..k => f[1] = ss[1]
             /\ \A i \in 1..(k - 1) : f[i + 1] = f[i] \o ss[i + 1]
      PROVE  Flat(ss, f, k)
  <2>1. ASSUME NEW i \in 1..k PROVE f[i] = e(i)
    <3>1. CASE i = 1
      BY <1>2, <3>1
    <3>2. CASE i # 1
      <4>1. i - 1 \in 1..(k - 1) /\ i - 1 + 1 = i
        BY <3>2
      <4>2. f[i - 1 + 1] = f[i - 1] \o ss[i - 1 + 1]
        BY <1>2, <4>1
      <4> QED
        BY <3>2, <4>1, <4>2
    <3> QED
      BY <3>1, <3>2
  <2>2. [i \in 1..k |-> f[i]] = [i \in 1..k |-> e(i)]
    <3> HIDE DEF e
    <3> QED
      BY <2>1
  <2> QED
    BY <1>2, <2>2 DEF Flat, Indexed
<1> QED
  BY <1>1, <1>2

(* There is such a sequence of sequences.                                  *)
LEMMA FlatExists ==
  ASSUME NEW ss, NEW n \in Nat, n > 0
  PROVE  \E f : Flat(ss, f, n)
<1> DEFINE K == {k \in 1..n : \E f : Flat(ss, f, k)}
<1>1. 1 \in K
  <2> DEFINE f == [i \in 1..1 |-> ss[1]]
  <2>1. Indexed(f, 1) /\ f[1] = ss[1] /\ 1..(1 - 1) = {} /\ 1 \in 1..n
    BY DEF Indexed
  <2> HIDE DEF f
  <2>2. Flat(ss, f, 1)
    BY <2>1, FlatIs
  <2> QED
    BY <2>1, <2>2
<1>2. ASSUME NEW k \in 1..(n - 1), k \in K PROVE k + 1 \in K
  <2>1. PICK f : Flat(ss, f, k)
    BY <1>2
  <2> DEFINE last == f[k] \o ss[k + 1]
             g == [i \in 1..(k + 1) |-> IF i = k + 1 THEN last ELSE f[i]]
  <2>2. /\ k \in Nat /\ k + 1 \in Nat /\ k \in 1..k /\ k + 1 \in 1..(k + 1) /\ 1 \in 1..k
        /\ k + 1 \in 1..n /\ k + 1 - 1 = k
        /\ \A i \in 1..k : i # k + 1 /\ i \in 1..(k + 1)
        /\ \A i \in 1..k : i = k \/ (i \in 1..(k - 1) /\ i + 1 \in 1..k)
    OBVIOUS
  <2>3. f[1] = ss[1] /\ \A i \in 1..(k - 1) : f[i + 1] = f[i] \o ss[i + 1]
    BY <2>1, <2>2, FlatIs
  <2>4. /\ Indexed(g, k + 1)
        /\ g[k + 1] = last
        /\ \A i \in 1..k : g[i] = f[i]
    <3> HIDE DEF last
    <3> QED
      BY <2>2 DEF Indexed
  <2> HIDE DEF g
  <2>5. ASSUME NEW i \in 1..k PROVE g[i + 1] = g[i] \o ss[i + 1]
    <3>1. CASE i = k
      BY <2>2, <2>4, <3>1
    <3>2. CASE i # k
      BY <2>2, <2>3, <2>4, <3>2
    <3> QED
      BY <3>1, <3>2
  <2>6. /\ 1..(k + 1 - 1) = 1..k
        /\ g[1] = ss[1]
    BY <2>2, <2>3, <2>4
  <2>7. Flat(ss, g, k + 1)
    <3>1. \A i \in 1..(k + 1 - 1) : g[i + 1] = g[i] \o ss[i + 1]
      BY <2>5, <2>6
    <3>2. PICK m \in Nat : m = k + 1
      BY <2>2
    <3>3. Indexed(g, m)
      BY <2>4, <3>2, Zenon
    <3>4. ASSUME NEW i \in 1..(m - 1) PROVE g[i + 1] = g[i] \o ss[i + 1]
      <4>1. i \in 1..k
        BY <3>2
      <4> QED
        BY <2>5, <4>1
    <3>5. Flat(ss, g, m)
      BY <2>6, <3>3, <3>4, FlatIs
    <3> QED
      BY <3>2, <3>5
  <2> QED
    BY <2>2, <2>7
<1>3. n \in K
  <2> HIDE DEF K
  <2>1. 1..n \subseteq K
    BY <1>1, <1>2, UpTo
  <2> QED
    BY <2>1
<1> QED
  BY <1>3

(* FlattenSeq by its steps.                                                *)
LEMMA Flattens ==
  ASSUME NEW S, NEW ss \in Seq(Seq(S)), ss # <<>>
  PROVE  \E f \in [1..Len(ss) -> Seq(S)] :
           /\ f[1] = ss[1]
           /\ \A k \in 1..(Len(ss) - 1) : f[k + 1] = f[k] \o ss[k + 1]
           /\ FlattenSeq(ss) = f[Len(ss)]
<1> DEFINE n == Len(ss)
           flatten == CHOOSE f : Flat(ss, f, n)
           typed == {i \in 1..n : flatten[i] \in Seq(S)}
<1>1. n \in Nat /\ n > 0 /\ 1 \in 1..n /\ \A i \in 1..n : ss[i] \in Seq(S)
  BY EmptySeq
<1>2. FlattenSeq(ss) = flatten[n]
  BY <1>1 DEF FlattenSeq, Flat
<1> HIDE DEF n
<1>3. Flat(ss, flatten, n)
  BY <1>1, FlatExists
<1> HIDE DEF flatten
<1>4. /\ Indexed(flatten, n)
      /\ flatten[1] = ss[1] /\ \A k \in 1..(n - 1) : flatten[k + 1] = flatten[k] \o ss[k + 1]
  BY <1>1, <1>3, FlatIs
<1>5. 1..n \subseteq typed
  <2>1. 1 \in typed
    BY <1>1, <1>4
  <2>2. ASSUME NEW k \in 1..(n - 1), k \in typed PROVE k + 1 \in typed
    <3>1. k + 1 \in 1..n
      BY <1>1
    <3>2. flatten[k] \in Seq(S) /\ ss[k + 1] \in Seq(S)
      BY <1>1, <2>2, <3>1
    <3>3. flatten[k + 1] \in Seq(S)
      BY <1>4, <3>2, ConcatProperties
    <3> QED
      BY <3>1, <3>3
  <2> HIDE DEF typed
  <2> QED
    BY <1>1, <2>1, <2>2, UpTo
<1>6. flatten \in [1..n -> Seq(S)]
  BY <1>4, <1>5 DEF Indexed
<1> QED
  BY <1>2, <1>4, <1>6 DEF n

(* Listed has all there are, each once, in order.                          *)
LEMMA ListedIs ==
  ASSUME NEW S \in SUBSET Entries
  PROVE  /\ Listed(S) \in Seq(S) /\ Len(Listed(S)) = Cardinality(S) /\ Cardinality(S) \in Nat
         /\ \A x \in S : \E i \in 1..Cardinality(S) : Listed(S)[i] = x
         /\ \A i, j \in 1..Cardinality(S) : i < j => Listed(S)[i] < Listed(S)[j]
<1> DEFINE R == {p \in S \X S : p[1] < p[2]}
           n == Cardinality(S)
           s == Listed(S)
<1>1. IsFiniteSet(S) /\ S \subseteq Nat
  BY InfiniteListsAssumption, FS_Subset
<1>2. StrictOrder(R, S)
  BY <1>1 DEF StrictOrder
<1>3. n \in Nat
  BY <1>1, FS_CardinalityType
<1>4. SortsBy(s, S, R)
  <2> HIDE DEF R
  <2> QED
    BY <1>1, <1>2, InOrderSorts DEF Listed, R
<1>5. /\ s \in [1..n -> S]
      /\ \A x \in S : \E i \in 1..n : s[i] = x
      /\ \A i, j \in 1..n : i < j => s[i] < s[j]
  <2> HIDE DEF s
  <2> QED
    BY <1>4 DEF SortsBy
<1>6. s \in Seq(S) /\ Len(s) = n
  <2> HIDE DEF s, n
  <2>1. s \in Seq(S) /\ DOMAIN s = 1..n
    BY <1>3, <1>5, SeqDef
  <2> QED
    BY <1>3, <2>1, LenProperties
<1> QED
  BY <1>3, <1>5, <1>6

(* The first rows, as many as there are up to the limit.                   *)
LEMMA FirstOfIs ==
  ASSUME NEW S, NEW s \in Seq(S), NEW limit \in Nat
  PROVE  LET m == IF Len(s) < limit THEN Len(s) ELSE limit
         IN  /\ m \in Nat
             /\ FirstOf(s, limit) \in Seq(S)
             /\ Len(FirstOf(s, limit)) = m
             /\ \A i \in 1..m : FirstOf(s, limit)[i] = s[i]
<1> DEFINE m == IF Len(s) < limit THEN Len(s) ELSE limit
<1>1. m \in Nat /\ \A i \in 1..m : s[i] \in S
  OBVIOUS
<1>2. FirstOf(s, limit) = SubSeq(s, 1, m)
  BY DEF FirstOf
<1> HIDE DEF m
<1> QED
  BY <1>1, <1>2, SubSeqProperties DEF m

(* What a page reads are entries.                                          *)
LEMMA RowsFromType ==
  ASSUME NEW param \in Nat, stored \subseteq Entries
  PROVE  RowsFrom(param) \in Seq(Entries)
<1>1. CASE Logs
  <2> DEFINE all == Listed(stored)
             n == Len(all)
  <2>1. all \in Seq(Entries) /\ n \in Nat /\ \A i \in (param + 1)..n : all[i] \in Entries
    <3>1. all \in Seq(stored)
      BY ListedIs
    <3> HIDE DEF all
    <3> QED
      BY <3>1
  <2> HIDE DEF all, n
  <2>2. SubSeq(all, param + 1, n) \in Seq(Entries)
    BY <2>1, SubSeqProperties
  <2> QED
    BY <1>1, <2>2 DEF RowsFrom, all, n
<1>2. CASE ~Logs
  <2> DEFINE S == {e \in stored : e >= param}
  <2>1. Listed(S) \in Seq(S) /\ S \subseteq Entries
    <3>1. S \in SUBSET Entries
      OBVIOUS
    <3> HIDE DEF S
    <3> QED
      BY <3>1, ListedIs
  <2>2. Listed(S) \in Seq(Entries)
    <3> HIDE DEF S
    <3> QED
      BY <2>1, SeqMonotonic
  <2> QED
    BY <1>2, <2>2 DEF RowsFrom
<1> QED
  BY <1>1, <1>2

(* The next page starts where the last one says.                           *)
LEMMA NextParamType ==
  ASSUME NEW ps \in Seq(ListPage)
  PROVE  NextParam(ps) \in Nat /\ (ps # <<>> => NextParam(ps) = ps[Len(ps)].next
           /\ Len(ps) \in 1..Len(ps))
<1>1. CASE ps = <<>>
  BY <1>1 DEF NextParam
<1>2. CASE ps # <<>>
  <2>1. Len(ps) \in 1..Len(ps) /\ \A i \in 1..Len(ps) : ps[i] \in ListPage
    BY <1>2
  <2>2. ps[Len(ps)].next \in Nat
    BY <2>1 DEF ListPage
  <2> QED
    BY <1>2, <2>1, <2>2 DEF NextParam, Last
<1> QED
  BY <1>1, <1>2

(* A page that has been read is a page.                                    *)
LEMMA PageReadType ==
  ASSUME ListType, fetch.total # NotRead, fetch.rows # NotRead
  PROVE  PageRead \in ListPage
<1>1. /\ NextParam(fetch.got) \in Nat /\ PageSize \in Nat
      /\ Head(fetch.rows) \in Seq(Entries) /\ Head(fetch.total) \in Nat
  BY NextParamType, InfiniteListsAssumption DEF ListType, NotRead
<1>2. FirstOf(Head(fetch.rows), PageSize) \in Seq(Entries)
  BY <1>1, FirstOfIs
<1>3. Len(Head(fetch.rows)) > PageSize => Last(Head(fetch.rows)) \in Nat
  <2> DEFINE rows == Head(fetch.rows)
  <2> HIDE DEF rows
  <2>1. rows \in Seq(Entries)
    BY <1>1 DEF rows
  <2>2. Len(rows) > PageSize => rows[Len(rows)] \in Entries
    BY <2>1, <1>1
  <2>3. \A e \in Entries : e \in Nat
    BY InfiniteListsAssumption
  <2>4. Len(rows) > PageSize => Last(rows) \in Nat
    BY <2>2, <2>3 DEF Last
  <2> QED
    BY <2>4 DEF rows
<1> QED
  BY <1>1, <1>2, <1>3 DEF PageRead, ListPage

(* What a fetch starts with.                                               *)
FetchType == [whole : BOOLEAN, got : Seq(ListPage), total : Seq(Nat), rows : Seq(Seq(Entries))]

(* A fetch starts with nothing, or with what is on show.                   *)
LEMMA FetchStarts ==
  ASSUME ListType
  PROVE  /\ Idle \in FetchType
         /\ FetchAll => fetch' = [whole |-> TRUE, got |-> <<>>, total |-> <<>>, rows |-> <<>>]
         /\ FetchNext => fetch' = [whole |-> FALSE, got |-> pages, total |-> <<>>, rows |-> <<>>]
         /\ FetchAll \/ FetchNext => fetch' \in FetchType
<1>1. Idle = [whole |-> FALSE, got |-> <<>>, total |-> <<>>, rows |-> <<>>]
  BY DEF Idle, NotRead
<1>2. <<>> \in Seq(ListPage) /\ <<>> \in Seq(Nat) /\ <<>> \in Seq(Seq(Entries))
  OBVIOUS
<1> QED
  BY <1>1, <1>2 DEF FetchAll, FetchNext, FetchType, ListType

(* Every step of a list keeps the types.                                   *)
LEMMA ListTypeStep ==
  ASSUME ListType, ListNext
  PROVE  ListType'
<1> USE DEF ListType
<1>0. fetch \in FetchType
  BY DEF FetchType
<1>1. CASE ReadTotal
  <2>1. Cardinality(stored) \in Nat
    BY ListedIs
  <2>2. <<Cardinality(stored)>> \in Seq(Nat)
    BY <2>1
  <2>3. fetch' = [fetch EXCEPT !.total = <<Cardinality(stored)>>]
    BY <1>1 DEF ReadTotal
  <2>4. fetch' \in FetchType /\ fetch'.got = fetch.got
    BY <1>0, <2>2, <2>3 DEF FetchType
  <2> QED
    BY <1>1, <2>4 DEF ReadTotal, storeVars, FetchType
<1>2. CASE ReadRows
  <2> DEFINE rows == FirstOf(RowsFrom(NextParam(fetch.got)), IF Logs THEN PageSize
               ELSE PageSize + 1)
  <2>1. rows \in Seq(Entries)
    <3>1. RowsFrom(NextParam(fetch.got)) \in Seq(Entries)
      BY NextParamType, RowsFromType
    <3>2. (IF Logs THEN PageSize ELSE PageSize + 1) \in Nat
      BY InfiniteListsAssumption
    <3> QED
      BY <3>1, <3>2, FirstOfIs
  <2>2. fetch' = [fetch EXCEPT !.rows = <<rows>>]
    BY <1>2 DEF ReadRows
  <2> HIDE DEF rows
  <2>3. <<rows>> \in Seq(Seq(Entries))
    BY <2>1
  <2>4. fetch' \in FetchType /\ fetch'.got = fetch.got
    BY <1>0, <2>2, <2>3 DEF FetchType
  <2> QED
    BY <1>2, <2>4 DEF ReadRows, storeVars, FetchType
<1>3. CASE Answer
  <2> DEFINE got == Append(fetch.got, PageRead)
  <2>1. /\ got \in Seq(ListPage) /\ NextParam(got) = PageRead.next
    <3>1. PageRead \in ListPage
      BY <1>3, PageReadType DEF Answer
    <3>2. got \in Seq(ListPage) /\ got # <<>> /\ Len(got) = Len(fetch.got) + 1
            /\ got[Len(fetch.got) + 1] = PageRead
      <4>1. fetch.got \in Seq(ListPage)
        BY <1>0 DEF FetchType
      <4>2. /\ got \in Seq(ListPage) /\ Len(got) = Len(fetch.got) + 1
            /\ got[Len(fetch.got) + 1] = PageRead
        <5> HIDE DEF ListType
        <5> QED
          BY <3>1, <4>1, AppendProperties
      <4>3. Len(fetch.got) \in Nat
        BY <4>1, LenProperties
      <4>4. got # <<>>
        <5> HIDE DEF got, ListType
        <5> QED
          BY <4>2, <4>3
      <4> QED
        BY <4>2, <4>4
    <3> HIDE DEF got
    <3>3. Len(got) = Len(fetch.got) + 1 /\ NextParam(got) = got[Len(got)].next
      BY <3>2, NextParamType
    <3> QED
      BY <3>2, <3>3
  <2>2. UNCHANGED <<storeVars, due, missed, listFaults>>
    BY <1>3 DEF Answer
  <2>3. CASE fetch.whole /\ Len(got) < Len(pages) /\ PageRead.next # 0
    <3>1. fetch' = [fetch EXCEPT !.got = got, !.total = NotRead, !.rows = NotRead]
            /\ UNCHANGED <<pages, error>>
      BY <1>3, <2>3 DEF Answer
    <3>2. NotRead \in Seq(Nat) /\ NotRead \in Seq(Seq(Entries))
      BY DEF NotRead
    <3> HIDE DEF got
    <3>3. fetch' \in FetchType /\ fetch'.got = got
      BY <1>0, <2>1, <3>1, <3>2 DEF FetchType
    <3> QED
      BY <2>1, <2>2, <2>3, <3>1, <3>3 DEF storeVars, FetchType
  <2>4. CASE ~(fetch.whole /\ Len(got) < Len(pages) /\ PageRead.next # 0)
    <3>1. pages' = got /\ fetch' = Idle /\ error' = FALSE
      BY <1>3, <2>4 DEF Answer
    <3>2. fetch' \in FetchType /\ fetch'.got = <<>>
      BY <3>1, FetchStarts DEF Idle
    <3> HIDE DEF got
    <3> QED
      BY <2>1, <2>2, <3>1, <3>2 DEF storeVars, FetchType
  <2> QED
    BY <2>3, <2>4
<1>4. CASE AnswerLost
  BY <1>4, FetchStarts DEF AnswerLost, Idle, storeVars, FetchType
<1>5. CASE LoadMore
  <2>1. fetch' \in FetchType /\ fetch'.got = pages
    BY <1>5, FetchStarts DEF LoadMore
  <2>2. NextParam(pages) # 0 /\ missed' \in BOOLEAN
    BY <1>5 DEF LoadMore
  <2> QED
    BY <1>5, <2>1, <2>2 DEF LoadMore, storeVars, FetchType
<1>6. CASE Focus \/ LogRefresh
  <2>1. due' \in Nat /\ missed' \in BOOLEAN /\ UNCHANGED <<stored, pages, error>>
    <3>1. CASE Focus
      BY <3>1 DEF Focus, storeVars
    <3>2. CASE LogRefresh
      <4>1. due > 0 /\ due' = due - 1 /\ UNCHANGED <<stored, pages, error>>
        BY <3>2 DEF LogRefresh, storeVars
      <4>2. missed' \in BOOLEAN
        BY <3>2 DEF LogRefresh
      <4> QED
        BY <4>1, <4>2
    <3> QED
      BY <1>6, <3>1, <3>2
  <2>2. fetch' \in FetchType /\ (fetch'.got # <<>> => NextParam(fetch'.got) # 0)
    <3>1. CASE FetchAll
      <4>1. fetch' \in FetchType /\ fetch'.got = <<>>
        BY <3>1, FetchStarts
      <4> QED
        BY <4>1
    <3>2. CASE UNCHANGED fetch
      BY <1>0, <3>2
    <3>3. FetchAll \/ UNCHANGED fetch
      BY <1>6 DEF Focus, LogRefresh
    <3> QED
      BY <3>1, <3>2, <3>3
  <2> QED
    BY <2>1, <2>2 DEF FetchType
<1>7. CASE LogRefreshLost
  BY <1>7 DEF LogRefreshLost, storeVars
<1>8. CASE \E e \in Entries : InsertLog(e) \/ ChangeQueue(e)
  <2>1. UNCHANGED <<pages, fetch, error>> /\ stored' \subseteq Entries /\ due' \in Nat
          /\ missed' = missed
    BY <1>8 DEF InsertLog, ChangeQueue
  <2> QED
    BY <2>1
<1> QED
  BY <1>1, <1>2, <1>3, <1>4, <1>5, <1>6, <1>7, <1>8 DEF ListNext

-----------------------------------------------------------------------------
(* The queue selector leaves no name out.                                  *)

(* What leaves nothing out of a set leaves nothing out of a smaller one.   *)
LEMMA CoversLess ==
  ASSUME NEW S, NEW T \in SUBSET S, NEW ps, NEW param, NEW rows
  PROVE  /\ Covers(S, ps) => Covers(T, ps)
         /\ RowsCover(S, param, rows) => RowsCover(T, param, rows)
BY DEF Covers, RowsCover

(* The rows a page of names reads.                                         *)
LEMMA NamesRead ==
  ASSUME stored \subseteq Entries, ~Logs, NEW param \in Nat
  PROVE  RowsCover(stored \ disturbed, param, FirstOf(RowsFrom(param), PageSize + 1))
<1> DEFINE S == {e \in stored : e >= param}
           all == Listed(S)
           n == Cardinality(S)
           rows == FirstOf(all, PageSize + 1)
<1>1. RowsFrom(param) = all /\ PageSize \in Nat /\ PageSize + 1 \in Nat
  BY InfiniteListsAssumption DEF RowsFrom
<1>2. /\ all \in Seq(S) /\ Len(all) = n /\ n \in Nat
      /\ \A x \in S : \E i \in 1..n : all[i] = x
      /\ \A i, j \in 1..n : i < j => all[i] < all[j]
  <2>1. S \in SUBSET Entries
    OBVIOUS
  <2> HIDE DEF S
  <2> QED
    BY <2>1, ListedIs
<1>3. PICK m \in Nat : m = IF n < PageSize + 1 THEN n ELSE PageSize + 1
  BY <1>1, <1>2
<1>4. Len(rows) = m /\ \A i \in 1..m : rows[i] = all[i]
  <2> HIDE DEF S, all
  <2> QED
    BY <1>1, <1>2, <1>3, FirstOfIs
<1> HIDE DEF all, n, rows
<1>5. Len(rows) > PageSize => Len(rows) = PageSize + 1
  BY <1>1, <1>3, <1>4, <1>2
<1>6. ASSUME NEW e \in stored \ disturbed, e >= param
      PROVE  \/ \E i \in 1..Len(rows) : rows[i] = e
             \/ Len(rows) > PageSize /\ e > Last(rows)
  <2>1. PICK i \in 1..n : all[i] = e
    BY <1>2, <1>6
  <2>2. CASE i \in 1..m
    BY <1>4, <2>1, <2>2
  <2>3. CASE i \notin 1..m
    <3>1. m = PageSize + 1 /\ m < i /\ m \in 1..n /\ m \in 1..m
      BY <1>1, <1>2, <1>3, <2>3
    <3>2. Last(rows) = all[m]
      BY <1>4, <3>1 DEF Last
    <3>3. all[m] < e
      BY <1>2, <2>1, <3>1
    <3>4. all[m] \in Nat /\ e \in Nat
      <4>1. all[m] \in S
        BY <1>2, <3>1
      <4>2. \A x \in S : x \in Nat
        BY InfiniteListsAssumption
      <4> HIDE DEF S
      <4>3. e \in S
        BY <1>2, <2>1
      <4> QED
        BY <4>1, <4>2, <4>3
    <3> QED
      BY <1>1, <1>4, <3>1, <3>2, <3>3, <3>4
  <2> QED
    BY <2>2, <2>3
<1> QED
  BY <1>1, <1>5, <1>6 DEF RowsCover, rows

(* A page of names goes on where the pages before it end.                  *)
LEMMA CoversMore ==
  ASSUME NEW S \in SUBSET Entries, NEW got \in Seq(ListPage), NEW rows \in Seq(Entries),
         NEW page \in ListPage,
         page.rows = FirstOf(rows, PageSize),
         page.next = IF Len(rows) > PageSize THEN Last(rows) ELSE 0,
         got # <<>> => NextParam(got) # 0,
         Covers(S, got), RowsCover(S, NextParam(got), rows)
  PROVE  Covers(S, Append(got, page))
<1> DEFINE n == Len(got)
           ps == Append(got, page)
<1>1. /\ n \in Nat /\ ps \in Seq(ListPage) /\ Len(ps) = n + 1 /\ ps[n + 1] = page
      /\ \A i \in 1..n : ps[i] = got[i]
  BY AppendProperties, LenProperties
<1>2. PageSize \in Nat \ {0} /\ \A e \in Entries : e \in Nat /\ e # 0
  BY InfiniteListsAssumption
<1>3. NextParam(ps) = page.next
  <2> HIDE DEF ps, n
  <2>1. ps # <<>>
    BY <1>1
  <2> QED
    BY <1>1, <2>1, NextParamType
<1> HIDE DEF ps, n
<1>4. /\ NextParam(got) \in Nat
      /\ got = <<>> => NextParam(got) = 0
  BY NextParamType DEF NextParam
<1>5. PICK m \in Nat : /\ m = IF Len(rows) < PageSize THEN Len(rows) ELSE PageSize
                       /\ FirstOf(rows, PageSize) \in Seq(Entries)
                       /\ Len(FirstOf(rows, PageSize)) = m
                       /\ \A i \in 1..m : FirstOf(rows, PageSize)[i] = rows[i]
  BY <1>2, FirstOfIs
<1>6. ASSUME NEW e \in S, NextParam(ps) = 0 \/ e < NextParam(ps)
      PROVE  \E i \in 1..(n + 1) : e \in ToSet(ps[i].rows)
  <2>1. e \in Nat
    BY <1>2
  <2>2. CASE e < NextParam(got)
    <3>1. got # <<>>
      BY <1>4, <2>1, <2>2
    <3>2. PICK i \in 1..n : e \in ToSet(got[i].rows)
      BY <2>2, <3>1 DEF Covers, n
    <3> QED
      BY <1>1, <3>2
  <2>3. CASE e >= NextParam(got)
    <3>1. Len(rows) \in Nat /\ \A i \in 1..Len(rows) : rows[i] \in Nat /\ rows[i] # 0
      BY <1>2
    <3>2. Len(rows) > PageSize => Last(rows) = rows[PageSize + 1] /\ PageSize + 1 \in 1..Len(rows)
                                  /\ NextParam(ps) = Last(rows)
      BY <1>2, <1>3, <3>1 DEF RowsCover, Last
    <3>3. PICK i \in 1..Len(rows) : rows[i] = e
      <4>1. ~(Len(rows) > PageSize /\ e > Last(rows))
        BY <1>6, <2>1, <3>1, <3>2
      <4> QED
        BY <2>3, <4>1 DEF RowsCover
    <3>4. i \in 1..m
      <4>1. CASE Len(rows) > PageSize
        <5>1. Len(rows) = PageSize + 1
          BY <4>1 DEF RowsCover
        <5>2. i # PageSize + 1
          BY <1>6, <2>1, <3>1, <3>2, <3>3, <4>1
        <5> QED
          BY <1>2, <1>5, <5>1, <5>2
      <4>2. CASE ~(Len(rows) > PageSize)
        BY <1>2, <1>5, <3>1, <4>2
      <4> QED
        BY <4>1, <4>2
    <3>5. e \in ToSet(page.rows)
      <4>1. page.rows[i] = e /\ DOMAIN page.rows = 1..m
        BY <1>5, <3>3, <3>4
      <4> QED
        BY <3>4, <4>1 DEF ToSet
    <3> QED
      BY <1>1, <3>5
  <2> QED
    BY <1>4, <2>1, <2>2, <2>3
<1> QED
  BY <1>1, <1>6 DEF Covers, ps

(* The rows an answer gives, when a page of names has been read.           *)
LEMMA SelectorStep ==
  ASSUME ListType, SelectorInv, ListNext
  PROVE  SelectorInv'
<1> DEFINE steady == stored \ disturbed
<1> SUFFICES ASSUME ~Logs'
             PROVE  /\ Covers(steady', pages')
                    /\ Covers(steady', fetch'.got)
                    /\ fetch'.rows # <<>> => RowsCover(steady', NextParam(fetch'.got),
                         Head(fetch'.rows))
  BY DEF SelectorInv, Covers, RowsCover, NextParam
<1>1. UNCHANGED list /\ ~Logs
  BY DEF ListNext, ReadTotal, ReadRows, Answer, AnswerLost, LoadMore, Focus, LogRefresh,
         LogRefreshLost, InsertLog, ChangeQueue, storeVars, Logs
<1>2. /\ Covers(steady, pages)
      /\ Covers(steady, fetch.got)
      /\ fetch.rows # <<>> => RowsCover(steady, NextParam(fetch.got), Head(fetch.rows))
  BY <1>1 DEF SelectorInv
<1>3. /\ stored \subseteq Entries /\ fetch \in FetchType
      /\ pages \in Seq(ListPage) /\ fetch.got \in Seq(ListPage)
      /\ fetch.got # <<>> => NextParam(fetch.got) # 0
  BY DEF ListType, FetchType
<1>4. \A S : Covers(S, <<>>)
  BY DEF Covers
<1>5. CASE ReadTotal
  <2>1. fetch'.got = fetch.got /\ fetch'.rows = fetch.rows /\ UNCHANGED <<stored, disturbed, pages>>
    BY <1>3, <1>5 DEF ReadTotal, storeVars, FetchType
  <2> QED
    BY <1>2, <2>1
<1>6. CASE ReadRows
  <2> DEFINE rows == FirstOf(RowsFrom(NextParam(fetch.got)), PageSize + 1)
  <2>1. /\ fetch' = [fetch EXCEPT !.rows = <<rows>>]
        /\ UNCHANGED <<stored, disturbed, pages>>
    BY <1>1, <1>6 DEF ReadRows, storeVars
  <2>2. RowsCover(steady, NextParam(fetch.got), rows)
    BY <1>1, <1>3, NextParamType, NamesRead
  <2> HIDE DEF rows
  <2>3. fetch'.got = fetch.got /\ Head(fetch'.rows) = rows
    BY <1>3, <2>1 DEF FetchType
  <2> QED
    BY <1>2, <2>1, <2>2, <2>3
<1>7. CASE Answer
  <2> DEFINE got == Append(fetch.got, PageRead)
             rows == Head(fetch.rows)
  <2>1. fetch.total # NotRead /\ fetch.rows # NotRead /\ UNCHANGED <<stored, disturbed>>
    BY <1>7 DEF Answer, storeVars
  <2>2. PageRead \in ListPage
    BY <2>1, PageReadType
  <2>3. PageRead = [ rows |-> FirstOf(rows, PageSize),
                     next |-> IF Len(rows) > PageSize THEN Last(rows) ELSE 0 ]
    BY <1>1 DEF PageRead
  <2>4. fetch.rows # <<>> /\ rows \in Seq(Entries)
    BY <1>3, <2>1 DEF NotRead, FetchType
  <2>5. Covers(steady, got)
    <3>1. RowsCover(steady, NextParam(fetch.got), rows)
      BY <1>2, <2>4
    <3>2. PICK page \in ListPage : page = PageRead
      BY <2>2
    <3>3. /\ page.rows = FirstOf(rows, PageSize)
          /\ page.next = IF Len(rows) > PageSize THEN Last(rows) ELSE 0
      BY <2>3, <3>2
    <3>4. steady \in SUBSET Entries
      BY <1>3
    <3> HIDE DEF rows, steady
    <3>5. Covers(steady, Append(fetch.got, page))
      BY <1>2, <1>3, <2>4, <3>1, <3>3, <3>4, CoversMore
    <3> QED
      BY <3>2, <3>5
  <2>6. \/ /\ pages' = pages /\ fetch' = [fetch EXCEPT !.got = got, !.total = NotRead,
                !.rows = NotRead]
        \/ /\ pages' = got /\ fetch' = Idle
    BY <1>7 DEF Answer
  <2> HIDE DEF got
  <2>7. \/ pages' = pages /\ fetch'.got = got /\ fetch'.rows = <<>>
        \/ pages' = got /\ fetch'.got = <<>> /\ fetch'.rows = <<>>
    <3>1. ASSUME fetch' = [fetch EXCEPT !.got = got, !.total = NotRead, !.rows = NotRead]
          PROVE  fetch'.got = got /\ fetch'.rows = <<>>
      BY <1>3, <3>1 DEF FetchType, NotRead
    <3>2. Idle.got = <<>> /\ Idle.rows = <<>>
      BY DEF Idle, NotRead
    <3> QED
      BY <2>6, <3>1, <3>2
  <2> HIDE DEF steady
  <2>8. steady' = steady
    BY <2>1 DEF steady
  <2> QED
    BY <1>2, <1>4, <2>5, <2>7, <2>8
<1>8. CASE AnswerLost
  <2>1. fetch'.got = <<>> /\ fetch'.rows = <<>> /\ UNCHANGED <<stored, disturbed, pages>>
    BY <1>8 DEF AnswerLost, storeVars, Idle, NotRead
  <2> QED
    BY <1>2, <1>4, <2>1
<1>9. CASE LoadMore \/ Focus \/ LogRefresh
  <2>1. UNCHANGED <<stored, disturbed, pages>> /\ (FetchAll \/ FetchNext \/ UNCHANGED fetch)
    BY <1>9 DEF LoadMore, Focus, LogRefresh, storeVars
  <2>2. CASE UNCHANGED fetch
    BY <1>2, <2>1, <2>2
  <2>3. CASE FetchAll \/ FetchNext
    <3>1. fetch'.rows = <<>> /\ (fetch'.got = <<>> \/ fetch'.got = pages)
      BY <2>3, FetchStarts
    <3> QED
      BY <1>2, <1>4, <2>1, <3>1
  <2> QED
    BY <2>1, <2>2, <2>3
<1>10. CASE LogRefreshLost
  BY <1>2, <1>10 DEF LogRefreshLost, storeVars
<1>11. CASE \E e \in Entries : InsertLog(e) \/ ChangeQueue(e)
  <2>1. PICK e \in Entries : ChangeQueue(e)
    BY <1>1, <1>11 DEF InsertLog
  <2>2. /\ UNCHANGED <<pages, fetch>> /\ steady' \subseteq steady
    BY <2>1 DEF ChangeQueue, Touch
  <2> HIDE DEF steady
  <2> QED
    BY <1>2, <2>2, CoversLess
<1> QED
  BY <1>5, <1>6, <1>7, <1>8, <1>9, <1>10, <1>11 DEF ListNext

(* What is in one of two sequences is in the two of them.                  *)
LEMMA ConcatHolds ==
  ASSUME NEW S, NEW s \in Seq(S), NEW t \in Seq(S)
  PROVE  ToSet(s) \subseteq ToSet(s \o t) /\ ToSet(t) \subseteq ToSet(s \o t)
<1>1. /\ Len(s) \in Nat /\ Len(t) \in Nat
      /\ DOMAIN s = 1..Len(s) /\ DOMAIN t = 1..Len(t)
      /\ DOMAIN (s \o t) = 1..(Len(s) + Len(t))
      /\ \A i \in 1..(Len(s) + Len(t)) :
           (s \o t)[i] = IF i <= Len(s) THEN s[i] ELSE t[i - Len(s)]
  <2>1. s \o t \in Seq(S)
    BY ConcatProperties
  <2> QED
    BY <2>1, ConcatProperties, LenProperties
<1>2. ASSUME NEW i \in 1..Len(s) PROVE s[i] \in ToSet(s \o t)
  <2>1. i \in 1..(Len(s) + Len(t)) /\ i <= Len(s)
    BY <1>1
  <2>2. (s \o t)[i] = s[i]
    BY <1>1, <2>1
  <2> QED
    BY <1>1, <2>1, <2>2 DEF ToSet
<1>3. ASSUME NEW j \in 1..Len(t) PROVE t[j] \in ToSet(s \o t)
  <2>1. PICK i \in 1..(Len(s) + Len(t)) : i = Len(s) + j /\ ~(i <= Len(s)) /\ i - Len(s) = j
    BY <1>1
  <2>2. (s \o t)[i] = t[j]
    BY <1>1, <2>1
  <2> QED
    BY <1>1, <2>1, <2>2 DEF ToSet
<1> QED
  BY <1>1, <1>2, <1>3 DEF ToSet

(* The rows of the pages on show, one page each.                           *)
RowsShown == [i \in DOMAIN pages |-> pages[i].rows]

(* The rows on show, page by page.                                         *)
LEMMA ShownType ==
  ASSUME pages \in Seq(ListPage), pages # <<>>
  PROVE  /\ RowsShown \in Seq(Seq(Entries)) /\ RowsShown # <<>> /\ Len(RowsShown) = Len(pages)
         /\ Len(pages) \in Nat \ {0}
         /\ \A i \in 1..Len(pages) : RowsShown[i] = pages[i].rows /\ pages[i] \in ListPage
         /\ Scrolled = FlattenSeq(RowsShown)
<1>1. Len(pages) \in Nat \ {0} /\ DOMAIN pages = 1..Len(pages)
        /\ \A i \in 1..Len(pages) : pages[i] \in ListPage
  BY EmptySeq, LenProperties
<1>2. PICK n \in Nat \ {0} : n = Len(pages)
  BY <1>1
<1>3. \A i \in 1..n : pages[i].rows \in Seq(Entries)
  BY <1>1, <1>2 DEF ListPage
<1>4. RowsShown = [i \in 1..n |-> pages[i].rows]
  BY <1>1, <1>2 DEF RowsShown
<1>5. RowsShown \in Seq(Seq(Entries)) /\ Len(RowsShown) = n
  BY <1>3, <1>4
<1> QED
  BY <1>1, <1>2, <1>4, <1>5 DEF Scrolled, RowsShown

(* What a page on show has is on show.                                     *)
LEMMA ShowsPages ==
  ASSUME pages \in Seq(ListPage), pages # <<>>
  PROVE  \A i \in 1..Len(pages) : ToSet(pages[i].rows) \subseteq ToSet(Scrolled)
<1> DEFINE n == Len(pages)
<1>1. /\ RowsShown \in Seq(Seq(Entries)) /\ RowsShown # <<>> /\ Len(RowsShown) = n
      /\ n \in Nat /\ n > 0
      /\ \A i \in 1..n : RowsShown[i] = pages[i].rows /\ RowsShown[i] \in Seq(Entries)
      /\ Scrolled = FlattenSeq(RowsShown)
  BY ShownType
<1> HIDE DEF n
<1>2. PICK f \in [1..n -> Seq(Entries)] :
        /\ f[1] = RowsShown[1]
        /\ \A k \in 1..(n - 1) : f[k + 1] = f[k] \o RowsShown[k + 1]
        /\ Scrolled = f[n]
  BY <1>1, Flattens
<1> DEFINE K == {k \in 1..n : \A i \in 1..k : ToSet(RowsShown[i]) \subseteq ToSet(f[k])}
<1>3. 1 \in K
  BY <1>1, <1>2
<1>4. ASSUME NEW k \in 1..(n - 1), k \in K PROVE k + 1 \in K
  <2>1. PICK m \in 1..n : m = k + 1
    BY <1>1
  <2>2. k \in 1..n /\ f[k] \in Seq(Entries) /\ RowsShown[m] \in Seq(Entries)
          /\ f[m] = f[k] \o RowsShown[m]
    <3>1. k \in 1..n /\ k \in 1..(n - 1)
      BY <1>1
    <3> HIDE DEF K
    <3>2. f[k] \in Seq(Entries) /\ RowsShown[m] \in Seq(Entries)
      BY <1>1, <3>1
    <3>3. f[k + 1] = f[k] \o RowsShown[k + 1]
      BY <1>2, <3>1
    <3> QED
      BY <2>1, <3>1, <3>2, <3>3
  <2>3. ToSet(f[k]) \subseteq ToSet(f[m]) /\ ToSet(RowsShown[m]) \subseteq ToSet(f[m])
    BY <2>2, ConcatHolds
  <2>4. \A i \in 1..m : i = m \/ i \in 1..k
    BY <2>1
  <2>5. \A i \in 1..k : ToSet(RowsShown[i]) \subseteq ToSet(f[k])
    BY <1>4
  <2>6. \A i \in 1..m : ToSet(RowsShown[i]) \subseteq ToSet(f[m])
    BY <2>3, <2>4, <2>5
  <2> QED
    BY <2>1, <2>6
<1>5. n \in K
  <2> HIDE DEF K
  <2>1. 1..n \subseteq K
    BY <1>1, <1>3, <1>4, UpTo
  <2> QED
    BY <1>1, <2>1
<1> QED
  BY <1>1, <1>2, <1>5 DEF n

(* Pages that leave nothing out show all to whoever has scrolled to the end.*)
LEMMA SelectorComplete ==
  ASSUME ListType, SelectorInv
  PROVE  SelectorShowsAll
<1> SUFFICES ASSUME ~Logs, pages # <<>>, NextParam(pages) = 0, NEW e \in stored \ disturbed
             PROVE  e \in ToSet(Scrolled)
  BY DEF SelectorShowsAll
<1>1. PICK i \in 1..Len(pages) : e \in ToSet(pages[i].rows)
  BY DEF SelectorInv, Covers
<1>2. pages \in Seq(ListPage)
  BY DEF ListType
<1> QED
  BY <1>1, <1>2, ShowsPages

-----------------------------------------------------------------------------
(* The waterfall leaves no line out.                                       *)

(* A page of logs goes on where the pages before it end.                   *)
LEMMA ChainedMore ==
  ASSUME NEW S, NEW got \in Seq(ListPage), NEW page \in ListPage,
         got # <<>> => NextParam(got) # 0,
         page.rows = Slice(S, NextParam(got)),
         page.next = NextAfter(S, NextParam(got)),
         Chained(S, got)
  PROVE  Chained(S, Append(got, page))
<1> DEFINE n == Len(got)
           ps == Append(got, page)
<1>1. /\ n \in Nat /\ ps \in Seq(ListPage) /\ Len(ps) = n + 1 /\ ps[n + 1] = page
      /\ \A i \in 1..n : ps[i] = got[i]
  BY AppendProperties, LenProperties
<1>2. NextParam(got) = Start(ps, n + 1) /\ (n # 0 => got[n].next # 0)
  <2>1. CASE got = <<>>
    BY <2>1 DEF NextParam, Start
  <2>2. CASE got # <<>>
    <3>1. n # 0 /\ n \in 1..n /\ n + 1 # 1 /\ n + 1 - 1 = n
      BY <1>1, <2>2, EmptySeq
    <3>2. NextParam(got) = got[n].next
      BY <2>2, NextParamType
    <3> HIDE DEF n, ps
    <3> QED
      BY <1>1, <2>2, <3>1, <3>2 DEF Start
  <2> QED
    BY <2>1, <2>2
<1>3. \A i \in 1..n : Start(ps, i) = Start(got, i)
  <2> HIDE DEF n, ps
  <2>1. \A i \in 1..n : i = 1 \/ i - 1 \in 1..n
    BY <1>1
  <2> QED
    BY <1>1, <2>1 DEF Start
<1>4. ASSUME NEW i \in 1..(n + 1)
      PROVE  /\ ps[i].rows = Slice(S, Start(ps, i))
             /\ ps[i].next = NextAfter(S, Start(ps, i))
             /\ i < n + 1 => ps[i].next # 0
  <2>1. CASE i = n + 1
    BY <1>1, <1>2, <2>1
  <2>2. CASE i # n + 1
    <3>1. i \in 1..n /\ (i = n \/ i < n)
      BY <1>1, <2>2
    <3>2. /\ got[i].rows = Slice(S, Start(got, i))
          /\ got[i].next = NextAfter(S, Start(got, i))
          /\ i < n => got[i].next # 0
      BY <3>1 DEF Chained
    <3> HIDE DEF n, ps
    <3> QED
      BY <1>1, <1>2, <1>3, <3>1, <3>2
  <2> QED
    BY <2>1, <2>2
<1> HIDE DEF n, ps
<1> QED
  BY <1>1, <1>4 DEF Chained, ps

(* Every step keeps the pages of logs in a chain, or owes them a refresh.  *)
LEMMA LogsStep ==
  ASSUME ListType, LogsInv, ListNext
  PROVE  LogsInv'
<1> SUFFICES ASSUME Logs', due' = 0, ~missed'
             PROVE  /\ ~error' /\ ~fetch'.whole => Chained(stored', pages')
                    /\ Chained(stored', fetch'.got)
                    /\ fetch'.total # <<>> => Head(fetch'.total) = Cardinality(stored')
                    /\ fetch'.rows # <<>> => Head(fetch'.rows) = Slice(stored',
                         NextParam(fetch'.got))
  BY DEF LogsInv, Chained, Slice, NextAfter, Start, NextParam, FirstOf, Listed
<1>1. UNCHANGED list /\ Logs
  BY DEF ListNext, ReadTotal, ReadRows, Answer, AnswerLost, LoadMore, Focus, LogRefresh,
         LogRefreshLost, InsertLog, ChangeQueue, storeVars, Logs
<1>2. /\ stored \subseteq Entries /\ fetch \in FetchType
      /\ pages \in Seq(ListPage) /\ fetch.got \in Seq(ListPage) /\ due \in Nat
      /\ fetch.got # <<>> => NextParam(fetch.got) # 0
  BY DEF ListType, FetchType
<1>3. /\ \A S : Chained(S, <<>>)
      /\ Idle.got = <<>> /\ Idle.total = <<>> /\ Idle.rows = <<>> /\ ~Idle.whole
  BY DEF Chained, Idle, NotRead
<1> DEFINE inv == /\ ~error /\ ~fetch.whole => Chained(stored, pages)
                  /\ Chained(stored, fetch.got)
                  /\ fetch.total # <<>> => Head(fetch.total) = Cardinality(stored)
                  /\ fetch.rows # <<>> => Head(fetch.rows) = Slice(stored, NextParam(fetch.got))
<1>4. due = 0 /\ ~missed => inv
  BY <1>1 DEF LogsInv
<1>5. CASE ReadTotal
  <2>1. /\ fetch' = [fetch EXCEPT !.total = <<Cardinality(stored)>>]
        /\ UNCHANGED <<stored, pages, error, due, missed>>
    BY <1>5 DEF ReadTotal, storeVars
  <2>2. /\ fetch'.got = fetch.got /\ fetch'.rows = fetch.rows /\ fetch'.whole = fetch.whole
        /\ Head(fetch'.total) = Cardinality(stored)
    BY <1>2, <2>1 DEF FetchType
  <2> QED
    BY <1>4, <2>1, <2>2
<1>6. CASE ReadRows
  <2> DEFINE rows == FirstOf(RowsFrom(NextParam(fetch.got)), PageSize)
  <2>1. /\ fetch' = [fetch EXCEPT !.rows = <<rows>>]
        /\ UNCHANGED <<stored, pages, error, due, missed>>
    BY <1>1, <1>6 DEF ReadRows, storeVars
  <2>2. rows = Slice(stored, NextParam(fetch.got))
    BY <1>1 DEF RowsFrom, Slice
  <2> HIDE DEF rows
  <2>3. /\ fetch'.got = fetch.got /\ fetch'.total = fetch.total /\ fetch'.whole = fetch.whole
        /\ Head(fetch'.rows) = rows
    BY <1>2, <2>1 DEF FetchType
  <2> QED
    BY <1>4, <2>1, <2>2, <2>3
<1>7. CASE Answer
  <2> DEFINE got == Append(fetch.got, PageRead)
  <2>1. /\ fetch.total # NotRead /\ fetch.rows # NotRead
        /\ UNCHANGED <<stored, due, missed>>
    BY <1>7 DEF Answer, storeVars
  <2>2. inv
    BY <1>4, <2>1
  <2>3. PICK page \in ListPage : page = PageRead
    BY <2>1, PageReadType
  <2>4. /\ page.rows = Slice(stored, NextParam(fetch.got))
        /\ page.next = NextAfter(stored, NextParam(fetch.got))
    BY <1>1, <2>1, <2>2, <2>3 DEF PageRead, NotRead, NextAfter
  <2>5. Chained(stored, got)
    <3>1. Chained(stored, Append(fetch.got, page))
      <4>1. Chained(stored, fetch.got)
        BY <2>2
      <4> HIDE DEF inv
      <4> QED
        BY <1>2, <2>4, <4>1, ChainedMore
    <3> QED
      BY <2>3, <3>1
  <2>6. \/ /\ fetch.whole
           /\ fetch' = [fetch EXCEPT !.got = got, !.total = NotRead, !.rows = NotRead]
        \/ /\ pages' = got /\ fetch' = Idle
    BY <1>7 DEF Answer
  <2> HIDE DEF got
  <2>7. CASE fetch.whole /\ fetch' = [fetch EXCEPT !.got = got, !.total = NotRead, !.rows = NotRead]
    <3>1. fetch'.got = got /\ fetch'.total = <<>> /\ fetch'.rows = <<>> /\ fetch'.whole
      BY <1>2, <2>7 DEF FetchType, NotRead
    <3> QED
      BY <2>1, <2>5, <3>1
  <2>8. CASE pages' = got /\ fetch' = Idle
    BY <1>3, <2>1, <2>5, <2>8
  <2> QED
    BY <2>6, <2>7, <2>8
<1>8. CASE AnswerLost
  BY <1>3, <1>8 DEF AnswerLost
<1>9. CASE LoadMore
  <2>1. /\ ~error /\ ~missed /\ due = 0 /\ UNCHANGED <<stored, pages>>
        /\ ~(Fetching /\ fetch.whole)
    BY <1>1, <1>9 DEF LoadMore, storeVars
  <2>2. ~fetch.whole
    BY <1>3, <2>1 DEF Fetching
  <2>3. fetch' = [whole |-> FALSE, got |-> pages, total |-> <<>>, rows |-> <<>>]
    BY <1>9, FetchStarts DEF LoadMore
  <2> QED
    BY <1>4, <2>1, <2>2, <2>3
<1>10. CASE Focus \/ LogRefresh
  <2>1. FetchAll
    BY <1>10 DEF Focus, LogRefresh
  <2>2. fetch' = [whole |-> TRUE, got |-> <<>>, total |-> <<>>, rows |-> <<>>]
    BY <2>1, FetchStarts
  <2> QED
    BY <1>3, <2>2
<1>11. CASE LogRefreshLost
  BY <1>11 DEF LogRefreshLost
<1>12. CASE \E e \in Entries : InsertLog(e) \/ ChangeQueue(e)
  BY <1>1, <1>2, <1>12 DEF InsertLog, ChangeQueue
<1> QED
  BY <1>5, <1>6, <1>7, <1>8, <1>9, <1>10, <1>11, <1>12 DEF ListNext

(* The smaller of two.                                                     *)
Lesser(a, b) == IF a < b THEN a ELSE b

(* What comes before a page, with the page after it.                       *)
LEMMA SliceGoesOn ==
  ASSUME NEW T, NEW s \in Seq(T), NEW limit \in Nat, NEW p \in Nat, p <= Len(s)
  PROVE  SubSeq(s, 1, p) \o FirstOf(SubSeq(s, p + 1, Len(s)), limit)
           = SubSeq(s, 1, Lesser(p + limit, Len(s)))
<1> DEFINE c == Len(s)
           rest == SubSeq(s, p + 1, c)
           a == SubSeq(s, 1, p)
           b == FirstOf(rest, limit)
           u == SubSeq(s, 1, Lesser(p + limit, c))
<1>1. c \in Nat /\ p <= c /\ \A i \in 1..c : s[i] \in T
  OBVIOUS
<1>2. /\ rest \in Seq(T) /\ Len(rest) = c - p /\ \A i \in 1..(c - p) : rest[i] = s[p + i]
  <2> HIDE DEF c
  <2>1. /\ \A i \in (p + 1)..c : s[i] \in T
    BY <1>1
  <2>2. /\ rest \in Seq(T)
        /\ Len(rest) = IF p + 1 <= c THEN c - (p + 1) + 1 ELSE 0
        /\ \A i \in 1..(c - (p + 1) + 1) : rest[i] = s[p + 1 + i - 1]
    BY <1>1, <2>1, SubSeqProperties
  <2>3. \A i \in 1..(c - p) : i \in 1..(c - (p + 1) + 1) /\ p + 1 + i - 1 = p + i
    BY <1>1
  <2>4. Len(rest) = c - p
    BY <1>1, <2>2
  <2> HIDE DEF rest
  <2>5. ASSUME NEW i \in 1..(c - p) PROVE rest[i] = s[p + i]
    <3>1. rest[i] = s[p + 1 + i - 1] /\ p + 1 + i - 1 = p + i
      BY <2>2, <2>3
    <3> QED
      BY <3>1
  <2> QED
    BY <2>2, <2>4, <2>5
<1>3. PICK m \in Nat : m = IF c - p < limit THEN c - p ELSE limit
  BY <1>1
<1>4. b \in Seq(T) /\ Len(b) = m /\ \A i \in 1..m : b[i] = s[p + i]
  <2> HIDE DEF rest, c
  <2>0. m = IF Len(rest) < limit THEN Len(rest) ELSE limit
    BY <1>2, <1>3
  <2>1. b \in Seq(T) /\ Len(b) = m /\ \A i \in 1..m : b[i] = rest[i]
    BY <1>2, <2>0, FirstOfIs
  <2> QED
    BY <1>1, <1>2, <1>3, <2>1
<1>5. Lesser(p + limit, c) = p + m /\ p + m <= c /\ p + m \in Nat
  BY <1>1, <1>3 DEF Lesser
<1>6. u \in Seq(T) /\ Len(u) = p + m /\ \A i \in 1..(p + m) : u[i] = s[i]
  <2>1. \A i \in 1..(p + m) : s[i] \in T
    BY <1>1, <1>5
  <2>2. u = SubSeq(s, 1, p + m)
    BY <1>5
  <2> HIDE DEF u
  <2> QED
    BY <1>5, <2>1, <2>2, SubSeqProperties
<1>7. a \in Seq(T) /\ Len(a) = p /\ \A i \in 1..p : a[i] = s[i]
  <2>1. \A i \in 1..p : s[i] \in T
    BY <1>1
  <2> QED
    BY <2>1, SubSeqProperties
<1> HIDE DEF a, b, u, c, rest
<1>8. /\ a \o b \in Seq(T) /\ Len(a \o b) = p + m
      /\ \A i \in 1..(p + m) : (a \o b)[i] = IF i <= p THEN a[i] ELSE b[i - p]
  BY <1>4, <1>7, ConcatProperties
<1>9. ASSUME NEW i \in 1..(p + m) PROVE (a \o b)[i] = u[i]
  <2>1. CASE i <= p
    BY <1>6, <1>7, <1>8, <2>1
  <2>2. CASE ~(i <= p)
    <3>1. PICK j \in 1..m : j = i - p /\ p + j = i
      BY <2>2
    <3>2. (a \o b)[i] = b[j]
      BY <1>8, <2>2, <3>1
    <3>3. b[j] = s[p + j]
      BY <1>4
    <3> QED
      BY <1>6, <3>1, <3>2, <3>3
  <2> QED
    BY <2>1, <2>2
<1>10. a \o b = u
  BY <1>5, <1>6, <1>8, <1>9, SeqEqual
<1> QED
  BY <1>10 DEF a, b, u, c, rest

(* Pages that follow each other show the lines from the first on.          *)
LEMMA ChainShows ==
  ASSUME pages \in Seq(ListPage), pages # <<>>, stored \subseteq Entries, Chained(stored, pages)
  PROVE  /\ Start(pages, Len(pages)) \in Nat
         /\ Scrolled = SubSeq(Listed(stored), 1,
                              Lesser(Start(pages, Len(pages)) + PageSize, Len(Listed(stored))))
<1> DEFINE n == Len(pages)
           all == Listed(stored)
           c == Len(all)
           s(i) == Start(pages, i)
<1>1. /\ RowsShown \in Seq(Seq(Entries)) /\ RowsShown # <<>> /\ Len(RowsShown) = n
      /\ n \in Nat /\ n > 0
      /\ \A i \in 1..n : RowsShown[i] = pages[i].rows
      /\ Scrolled = FlattenSeq(RowsShown)
  BY ShownType
<1>2. all \in Seq(Entries) /\ c \in Nat /\ c = Cardinality(stored)
  <2>1. all \in Seq(stored) /\ c = Cardinality(stored)
    BY ListedIs
  <2> HIDE DEF all, c
  <2>2. all \in Seq(Entries)
    BY <2>1
  <2> QED
    BY <2>1, <2>2 DEF c
<1>3. PageSize \in Nat
  BY InfiniteListsAssumption
<1>4. \A i \in 1..n : /\ RowsShown[i] = FirstOf(SubSeq(all, s(i) + 1, c), PageSize)
                      /\ i < n => pages[i].next # 0
                      /\ pages[i].next = IF c > s(i) + PageSize THEN s(i) + PageSize ELSE 0
  <2>1. \A i \in 1..n : /\ pages[i].rows = Slice(stored, s(i))
                        /\ pages[i].next = NextAfter(stored, s(i))
                        /\ i < n => pages[i].next # 0
    BY DEF Chained
  <2> HIDE DEF n
  <2> QED
    BY <1>1, <1>2, <2>1 DEF Slice, NextAfter
<1>5. s(1) = 0 /\ \A k \in 1..(n - 1) : s(k + 1) = pages[k].next
  <2> HIDE DEF n
  <2>1. \A k \in 1..(n - 1) : k + 1 # 1 /\ k + 1 - 1 = k
    BY <1>1
  <2> QED
    BY <2>1 DEF Start
<1> HIDE DEF n, all, c, s
<1>6. PICK f \in [1..n -> Seq(Entries)] :
        /\ f[1] = RowsShown[1]
        /\ \A k \in 1..(n - 1) : f[k + 1] = f[k] \o RowsShown[k + 1]
        /\ Scrolled = f[n]
  BY <1>1, Flattens
<1> DEFINE K == {k \in 1..n : /\ s(k) \in Nat /\ s(k) <= c
                              /\ f[k] = SubSeq(all, 1, Lesser(s(k) + PageSize, c))}
<1>7. 1 \in K
  <2>1. 1 \in 1..n
    BY <1>1
  <2>2. SubSeq(all, 1, 0) \o FirstOf(SubSeq(all, 0 + 1, c), PageSize)
          = SubSeq(all, 1, Lesser(0 + PageSize, c))
    <3>1. PICK p \in Nat : p = 0 /\ p <= Len(all)
      BY <1>2 DEF c
    <3>2. SubSeq(all, 1, p) \o FirstOf(SubSeq(all, p + 1, c), PageSize)
            = SubSeq(all, 1, Lesser(p + PageSize, c))
      BY <1>2, <1>3, <3>1, SliceGoesOn DEF c
    <3> QED
      BY <3>1, <3>2
  <2>3. SubSeq(all, 1, 0) = <<>>
    BY <1>2
  <2>4. RowsShown[1] \in Seq(Entries)
    BY <1>1, <2>1
  <2>5. <<>> \o RowsShown[1] = RowsShown[1]
    BY <2>4
  <2>6. RowsShown[1] = FirstOf(SubSeq(all, 0 + 1, c), PageSize)
    BY <1>4, <1>5, <2>1
  <2> QED
    <3>1. PICK k \in 1..n : k = 1
      BY <2>1
    <3>2. s(k) = 0 /\ s(k) \in Nat /\ s(k) <= c
      BY <1>2, <1>5, <3>1
    <3>3. f[k] = SubSeq(all, 1, Lesser(0 + PageSize, c))
      BY <1>6, <2>2, <2>3, <2>5, <2>6, <3>1
    <3>4. k \in K
      BY <3>2, <3>3
    <3> QED
      BY <3>1, <3>4
<1>8. ASSUME NEW k \in 1..(n - 1), k \in K PROVE k + 1 \in K
  <2>1. PICK m \in 1..n : m = k + 1
    BY <1>1
  <2>2. k \in 1..n /\ k < n
    BY <1>1
  <2>3. s(k) \in Nat /\ f[k] = SubSeq(all, 1, Lesser(s(k) + PageSize, c))
    BY <1>8
  <2> HIDE DEF K
  <2>4. pages[k].next # 0 /\ pages[k].next = IF c > s(k) + PageSize THEN s(k) + PageSize ELSE 0
    BY <1>4, <2>2
  <2>5. PICK p \in Nat : p = s(k) + PageSize /\ c > p
    BY <1>3, <2>3, <2>4
  <2>6. s(m) = p
    BY <1>5, <2>1, <2>4, <2>5
  <2>7. f[k] = SubSeq(all, 1, p)
    BY <1>2, <2>3, <2>5 DEF Lesser
  <2>8. f[m] = f[k] \o RowsShown[m]
    BY <1>6, <2>1
  <2>9. RowsShown[m] = FirstOf(SubSeq(all, p + 1, c), PageSize)
    BY <1>4, <2>6
  <2>10. SubSeq(all, 1, p) \o FirstOf(SubSeq(all, p + 1, c), PageSize)
           = SubSeq(all, 1, Lesser(p + PageSize, c))
    <3>1. p <= Len(all)
      BY <1>2, <2>5 DEF c
    <3> QED
      BY <1>2, <1>3, <3>1, SliceGoesOn DEF c
  <2>11. f[m] = SubSeq(all, 1, Lesser(p + PageSize, c))
    BY <2>7, <2>8, <2>9, <2>10
  <2>12. m \in K
    BY <1>2, <2>5, <2>6, <2>11 DEF K
  <2> QED
    BY <2>1, <2>12
<1>9. n \in K
  <2> HIDE DEF K
  <2>1. 1..n \subseteq K
    BY <1>1, <1>7, <1>8, UpTo
  <2> QED
    BY <1>1, <2>1
<1> QED
  BY <1>6, <1>9 DEF n, all, c, s

(* Pages that follow each other show the first lines, in order.            *)
LEMMA LogsComplete ==
  ASSUME ListType, LogsInv
  PROVE  LogsShownInOrder
<1> SUFFICES ASSUME Logs, pages # <<>>, ~Fetching, ~error, due = 0, ~missed
             PROVE  /\ IsPrefix(Scrolled, Listed(stored))
                    /\ NextParam(pages) = 0 => Scrolled = Listed(stored)
  BY DEF LogsShownInOrder
<1> DEFINE n == Len(pages)
           all == Listed(stored)
           c == Len(all)
<1>1. pages \in Seq(ListPage) /\ stored \subseteq Entries
  BY DEF ListType
<1>2. Chained(stored, pages)
  BY DEF LogsInv, Fetching, Idle
<1> DEFINE s == Start(pages, n)
           m == Lesser(s + PageSize, c)
<1>3. s \in Nat /\ Scrolled = SubSeq(all, 1, m)
  BY <1>1, <1>2, ChainShows
<1>4. all \in Seq(Entries) /\ c = Cardinality(stored) /\ c \in Nat
  <2>1. all \in Seq(stored) /\ c = Cardinality(stored)
    BY <1>1, ListedIs
  <2> HIDE DEF all, c
  <2>2. all \in Seq(Entries)
    BY <1>1, <2>1
  <2> QED
    BY <2>1, <2>2 DEF c
<1>5. m \in Nat /\ m <= c
  BY <1>3, <1>4, InfiniteListsAssumption DEF Lesser
<1>6. NextParam(pages) = NextAfter(stored, s)
  BY <1>1, <1>2, <1>3, NextParamType DEF Chained
<1> HIDE DEF all, c, n, s, m
<1>7. Len(Scrolled) = m
  BY <1>3, <1>4, <1>5 DEF c
<1>8. IsPrefix(Scrolled, all)
  <2>1. SubSeq(Scrolled, 1, m) = Scrolled
    BY <1>3, <1>4, <1>5 DEF c
  <2> QED
    BY <1>3, <1>5, <1>7, <2>1 DEF IsPrefix, c
<1>9. ASSUME NextParam(pages) = 0 PROVE Scrolled = all
  <2>1. ~(c > s + PageSize)
    BY <1>3, <1>4, <1>6, <1>9, InfiniteListsAssumption DEF NextAfter
  <2>2. m = c
    BY <1>3, <1>4, <2>1, InfiniteListsAssumption DEF Lesser, m
  <2> QED
    BY <1>3, <1>4, <2>2 DEF c
<1> QED
  BY <1>8, <1>9 DEF all

(* The invariant of the lists is inductive.                                *)
LEMMA ListStep ==
  ASSUME ListType, SelectorInv, LogsInv, [ListNext]_listVars
  PROVE  (ListType /\ SelectorInv /\ LogsInv)'
<1>1. CASE ListNext
  BY <1>1, ListTypeStep, SelectorStep, LogsStep
<1>2. CASE UNCHANGED listVars
  <2>1. UNCHANGED <<list, stored, disturbed, pages, fetch, error, due, missed>>
    BY <1>2 DEF listVars, storeVars
  <2>2. ListType'
    BY <2>1 DEF ListType, NextParam
  <2>3. SelectorInv'
    BY <2>1 DEF SelectorInv, Logs, Covers, RowsCover, NextParam
  <2>4. LogsInv'
    BY <2>1 DEF LogsInv, Logs, Chained, Slice, NextAfter, Start, NextParam, FirstOf, Listed
  <2> QED
    BY <2>2, <2>3, <2>4
<1> QED
  BY <1>1, <1>2

(* A list starts with nothing on show and its first page asked for.        *)
LEMMA ListStarts ==
  ASSUME ListInit
  PROVE  ListType /\ SelectorInv /\ LogsInv
<1>1. /\ stored \subseteq Entries /\ pages = <<>> /\ due = 0 /\ ~missed /\ ~error
      /\ fetch = [whole |-> TRUE, got |-> <<>>, total |-> <<>>, rows |-> <<>>]
      /\ error \in BOOLEAN /\ missed \in BOOLEAN
  BY DEF ListInit, Idle, NotRead
<1>2. <<>> \in Seq(ListPage) /\ <<>> \in Seq(Nat) /\ <<>> \in Seq(Seq(Entries))
  OBVIOUS
<1>3. fetch \in FetchType /\ fetch.got = <<>> /\ fetch.total = <<>> /\ fetch.rows = <<>>
  BY <1>1, <1>2 DEF FetchType
<1> QED
  BY <1>1, <1>2, <1>3 DEF ListType, FetchType, SelectorInv, LogsInv, Covers, Chained

(* The inductive invariant of the lists.                                   *)
ListInv == ListType /\ SelectorInv /\ LogsInv

(* It holds of the tab, for every size of page and number of faults.       *)
LEMMA ListAlways == BrowserSpec => []ListInv
<1>1. BrowserInit => ListInv
  BY ListStarts DEF BrowserInit, ListInv
<1>2. ListInv /\ [BrowserNext]_<<vars, formVars, listVars>> => ListInv'
  <2>1. BrowserNext \/ UNCHANGED <<vars, formVars, listVars>> => [ListNext]_listVars
    BY DEF BrowserNext, OnTables, OnForm, OnList
  <2> QED
    BY <2>1, ListStep DEF ListInv
<1> QED
  BY <1>1, <1>2, PTL DEF BrowserSpec

(* Whoever scrolls the queue selector to its end has seen every queue that *)
(* was there all along (api/queues/name: gte(name, cursor), one row more). *)
THEOREM SelectorLosesNone == BrowserSpec => []SelectorShowsAll
<1>1. ListInv => SelectorShowsAll
  BY SelectorComplete DEF ListInv
<1> QED
  BY <1>1, ListAlways, PTL

(* The waterfall of a run shows its first lines in order, each once, as soon*)
(* as the events are answered (listJobLogs; [id]/page.tsx: getNextPageParam).*)
THEOREM WaterfallLosesNone == BrowserSpec => []LogsShownInOrder
<1>1. ListInv => LogsShownInOrder
  BY LogsComplete DEF ListInv
<1> QED
  BY <1>1, ListAlways, PTL
=============================================================================
