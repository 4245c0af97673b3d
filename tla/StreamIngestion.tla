--------------------------- MODULE StreamIngestion ---------------------------
(***************************************************************************)
(* The consumer-group loop of the ingest service: job-stream.ts and, line  *)
(* for line the same control, log-stream.ts.  Any number of ingest         *)
(* replicas read one Redis stream through one consumer group, write what   *)
(* they read to Postgres, then XACK and XDEL it.                           *)
(*                                                                         *)
(* A consumer is one process life: instance.ts names it after a fresh      *)
(* UUID, so a restarted replica is another element of Consumers and never  *)
(* sees the pending list of its former self, except by XAUTOCLAIM.         *)
(***************************************************************************)
EXTENDS Integers, FiniteSets, Sequences

CONSTANTS
  Consumers,   \* process lives: bounds how many replicas and restarts there are
  Payload,     \* what a producer can XADD
  Malformed,   \* the payloads processMessages cannot parse
  MaxEntries,  \* bound on the number of XADDs
  BatchSize,   \* COUNT of XREADGROUP and XAUTOCLAIM
  LiveLookStale, \* may XINFO report an hour of idleness for a live consumer?
  Nobody       \* owner of an entry outside the pending entries list

ASSUME IngestionAssumption ==
  /\ Consumers # {}
  /\ Nobody \notin Consumers
  /\ Malformed \subseteq Payload
  /\ MaxEntries \in Nat
  /\ BatchSize \in Nat \ {0}
  /\ LiveLookStale \in BOOLEAN

VARIABLES
  log,            \* every payload ever XADDed; the id of an entry is its position
  deleted,        \* ids removed by XDEL
  lastDelivered,  \* the group's last-delivered-id, NoGroup before XGROUP CREATE
  owner,          \* pending entries list: the consumer an entry is pending on
  idle,           \* pending ids not delivered for JOB_SYNC_PENDING_IDLE_MS
  pc,             \* where each consumer is in its loop
  batch,          \* ids each consumer is processing
  stale,          \* consumers that cleanupStaleConsumers is about to delete
  stored          \* ids whose rows have been committed to Postgres

redisVars == <<log, deleted, lastDelivered, owner, idle>>
vars == <<log, deleted, lastDelivered, owner, idle, pc, batch, stale, stored>>

NoGroup == -1

Ids == 1..MaxEntries

Wellformed(i) == log[i] \notin Malformed

Pending == {i \in Ids : owner[i] # Nobody}

Delivered == 1..lastDelivered

(* Delivered and off the pending list: no consumer will be given it again. *)
Settled == Delivered \ Pending

Valid(S) == {i \in S : Wellformed(i)}

Invalid(S) == {i \in S : ~Wellformed(i)}

(* XAUTOCLAIM walks the pending list from its lowest id (0-0) and stops at *)
(* BatchSize entries.                                                      *)
Oldest(S) == {i \in S : Cardinality({j \in S : j < i}) < BatchSize}

Working == {"ackInvalid", "delInvalid", "store", "ack", "del"}
Looping == {"claim", "read"} \union Working
Alive == {"cleanup", "prune"} \union Looping
Stage == {"down", "dead"} \union Alive

Goto(c, stage) == pc' = [pc EXCEPT ![c] = stage]

-----------------------------------------------------------------------------
(* Producers, and the passage of time.                                     *)

Xadd(p) ==
  /\ Len(log) < MaxEntries
  /\ log' = Append(log, p)
  /\ UNCHANGED <<deleted, lastDelivered, owner, idle, pc, batch, stale, stored>>

(* 30 seconds go by without the entry being delivered to anybody, whatever *)
(* its owner is doing: it may be dead, or just slow.                       *)
BecomeIdle(i) ==
  /\ i \in Pending \ idle
  /\ idle' = idle \union {i}
  /\ UNCHANGED <<log, deleted, lastDelivered, owner, pc, batch, stale, stored>>

-----------------------------------------------------------------------------
(* Start-up: ensureGroup, then cleanupStaleConsumers.                      *)

(* Mutant of EnsureGroup: the group is created at $ instead of 0.          *)
EnsureGroupAtEnd(c) ==
  /\ pc[c] = "down"
  /\ lastDelivered' = IF lastDelivered = NoGroup THEN Len(log) ELSE lastDelivered
  /\ Goto(c, "cleanup")
  /\ UNCHANGED <<log, deleted, owner, idle, batch, stale, stored>>

(* XGROUP CREATE ... 0 MKSTREAM; BUSYGROUP is not an error.                *)
EnsureGroup(c) ==
  /\ pc[c] = "down"
  /\ lastDelivered' = IF lastDelivered = NoGroup THEN 0 ELSE lastDelivered
  /\ Goto(c, "cleanup")
  /\ UNCHANGED <<log, deleted, owner, idle, batch, stale, stored>>

(* XINFO CONSUMERS: no pending entry, and idle for an hour.  From Redis    *)
(* 7.2 on, idle counts from the last command sent, and a process that runs *)
(* sends one every 5 seconds (BLOCK 5000).  Before, it counts from the     *)
(* last entry received: a quiet hour makes every live consumer look stale. *)
Unheard(d) ==
  \/ pc[d] = "dead"
  \/ LiveLookStale /\ pc[d] \in Looping

(* Mutant of IsStale: consumer.pending === 0 is not tested.                *)
IsStaleWhateverPending(d) == Unheard(d)

IsStale(d) == Unheard(d) /\ \A i \in Pending : owner[i] # d

FindStaleConsumers(c) ==
  /\ pc[c] = "cleanup"
  /\ \E S \in SUBSET {d \in Consumers : IsStale(d)} : stale' = [stale EXCEPT ![c] = S]
  /\ Goto(c, "prune")
  /\ UNCHANGED <<redisVars, batch, stored>>

(* XGROUP DELCONSUMER drops whatever is pending on the consumer by now.    *)
DeleteConsumer(c, d) ==
  /\ pc[c] = "prune"
  /\ d \in stale[c]
  /\ stale' = [stale EXCEPT ![c] = @ \ {d}]
  /\ owner' = [i \in Ids |-> IF owner[i] = d THEN Nobody ELSE owner[i]]
  /\ idle' = {i \in idle : owner[i] # d}
  /\ UNCHANGED <<log, deleted, lastDelivered, pc, batch, stored>>

(* The list is done, or XINFO or DELCONSUMER threw, which is only logged.  *)
EndCleanup(c) ==
  /\ pc[c] \in {"cleanup", "prune"}
  /\ stale' = [stale EXCEPT ![c] = {}]
  /\ Goto(c, "claim")
  /\ UNCHANGED <<redisVars, batch, stored>>

-----------------------------------------------------------------------------
(* The loop: pending entries of any consumer first, then new entries.      *)

(* processMessages starts on the entries a read returned.                  *)
Process(c, S) ==
  /\ batch' = [batch EXCEPT ![c] = S]
  /\ Goto(c, IF Invalid(S) # {} THEN "ackInvalid" ELSE "store")

Deliver(c, S) ==
  /\ owner' = [i \in Ids |-> IF i \in S THEN c ELSE owner[i]]
  /\ idle' = idle \ S
  /\ Process(c, S)

(* Mutant of ClaimPending: a consumer re-reads only its own pending list.  *)
ClaimOwnPending(c) ==
  LET mine == {i \in idle : owner[i] = c} IN
  /\ pc[c] = "claim"
  /\ mine # {}
  /\ Deliver(c, Oldest(mine))
  /\ UNCHANGED <<log, deleted, lastDelivered, stale, stored>>

(* XAUTOCLAIM ... 0-0 COUNT BatchSize                                      *)
ClaimPending(c) ==
  /\ pc[c] = "claim"
  /\ idle # {}
  /\ Deliver(c, Oldest(idle))
  /\ UNCHANGED <<log, deleted, lastDelivered, stale, stored>>

(* Nothing is idle, or XAUTOCLAIM threw: readPendingMessages returns [].   *)
ClaimNothing(c) ==
  /\ pc[c] = "claim"
  /\ Goto(c, "read")
  /\ UNCHANGED <<redisVars, batch, stale, stored>>

NextCursor ==
  IF Len(log) < lastDelivered + BatchSize THEN Len(log) ELSE lastDelivered + BatchSize

(* XREADGROUP ... COUNT BatchSize BLOCK 5000 ... >                         *)
ReadNew(c) ==
  /\ pc[c] = "read"
  /\ lastDelivered < Len(log)
  /\ Deliver(c, (lastDelivered + 1)..NextCursor)
  /\ lastDelivered' = NextCursor
  /\ UNCHANGED <<log, deleted, stale, stored>>

(* BLOCK runs out, or XREADGROUP throws and the loop sleeps a second.      *)
ReadNothing(c) ==
  /\ pc[c] = "read"
  /\ Goto(c, "claim")
  /\ UNCHANGED <<redisVars, batch, stale, stored>>

-----------------------------------------------------------------------------
(* processMessages and ackAndDelete.                                       *)

Xack(S) ==
  /\ owner' = [i \in Ids |-> IF i \in S THEN Nobody ELSE owner[i]]
  /\ idle' = idle \ S

(* Mutant of AckInvalid: one bad payload acknowledges its whole batch.     *)
AckBatchOfInvalid(c) ==
  /\ pc[c] = "ackInvalid"
  /\ Xack(batch[c])
  /\ Goto(c, "delInvalid")
  /\ UNCHANGED <<log, deleted, lastDelivered, batch, stale, stored>>

AckInvalid(c) ==
  /\ pc[c] = "ackInvalid"
  /\ Xack(Invalid(batch[c]))
  /\ Goto(c, "delInvalid")
  /\ UNCHANGED <<log, deleted, lastDelivered, batch, stale, stored>>

(* Mutant of DelInvalid: one bad payload deletes its whole batch.          *)
DelBatchOfInvalid(c) ==
  /\ pc[c] = "delInvalid"
  /\ deleted' = deleted \union batch[c]
  /\ batch' = [batch EXCEPT ![c] = Valid(@)]
  /\ Goto(c, IF Valid(batch[c]) = {} THEN "claim" ELSE "store")
  /\ UNCHANGED <<log, lastDelivered, owner, idle, stale, stored>>

DelInvalid(c) ==
  /\ pc[c] = "delInvalid"
  /\ deleted' = deleted \union Invalid(batch[c])
  /\ batch' = [batch EXCEPT ![c] = Valid(@)]
  /\ Goto(c, IF Valid(batch[c]) = {} THEN "claim" ELSE "store")
  /\ UNCHANGED <<log, lastDelivered, owner, idle, stale, stored>>

(* safeUpsertJobRuns / persistLogEvents: one statement, all or nothing.    *)
Store(c) ==
  /\ pc[c] = "store"
  /\ stored' = stored \union batch[c]
  /\ Goto(c, "ack")
  /\ UNCHANGED <<redisVars, batch, stale>>

Ack(c) ==
  /\ pc[c] = "ack"
  /\ Xack(batch[c])
  /\ Goto(c, "del")
  /\ UNCHANGED <<log, deleted, lastDelivered, batch, stale, stored>>

Del(c) ==
  /\ pc[c] = "del"
  /\ deleted' = deleted \union batch[c]
  /\ batch' = [batch EXCEPT ![c] = {}]
  /\ Goto(c, "claim")
  /\ UNCHANGED <<log, lastDelivered, owner, idle, stale, stored>>

-----------------------------------------------------------------------------
(* Failures.                                                               *)

(* A Redis or Postgres call throws before taking effect: the loop logs it, *)
(* sleeps a second and starts over.  A call that takes effect and loses    *)
(* its reply is the call followed by this.                                 *)
Fail(c) ==
  /\ pc[c] \in Working
  /\ batch' = [batch EXCEPT ![c] = {}]
  /\ Goto(c, "claim")
  /\ UNCHANGED <<redisVars, stale, stored>>

(* The process dies, or ensureGroup threw at start-up, after which main    *)
(* only logs and this process never consumes.  At least one life is left:  *)
(* the orchestrator keeps a replica running.                               *)
Crash(c) ==
  /\ pc[c] # "dead"
  /\ \E d \in Consumers \ {c} : pc[d] # "dead"
  /\ batch' = [batch EXCEPT ![c] = {}]
  /\ stale' = [stale EXCEPT ![c] = {}]
  /\ Goto(c, "dead")
  /\ UNCHANGED <<redisVars, stored>>

-----------------------------------------------------------------------------
Init ==
  /\ log = <<>>
  /\ deleted = {}
  /\ lastDelivered = NoGroup
  /\ owner = [i \in Ids |-> Nobody]
  /\ idle = {}
  /\ pc = [c \in Consumers |-> "down"]
  /\ batch = [c \in Consumers |-> {}]
  /\ stale = [c \in Consumers |-> {}]
  /\ stored = {}

(* startJobStreamIngestion up to the loop.                                 *)
StartUp(c) ==
  \/ EnsureGroup(c)
  \/ FindStaleConsumers(c)
  \/ \E d \in Consumers : DeleteConsumer(c, d)
  \/ EndCleanup(c)

Receive(c) == ClaimPending(c) \/ ClaimNothing(c) \/ ReadNew(c) \/ ReadNothing(c)

AckAndDelete(c) == AckInvalid(c) \/ DelInvalid(c) \/ Ack(c) \/ Del(c)

(* What a consumer does when nothing fails.                                *)
Step(c) == StartUp(c) \/ Receive(c) \/ Store(c) \/ AckAndDelete(c)

Next ==
  \/ \E p \in Payload : Xadd(p)
  \/ \E i \in Ids : BecomeIdle(i)
  \/ \E c \in Consumers : Step(c) \/ Fail(c) \/ Crash(c)

(* A live process keeps running its loop, 30 seconds do pass, and neither  *)
(* Redis nor Postgres refuses the same kind of call for ever.              *)
Fairness ==
  /\ \A i \in Ids : WF_vars(BecomeIdle(i))
  /\ \A c \in Consumers :
       /\ WF_vars(Step(c))
       /\ SF_vars(ClaimPending(c) \/ ReadNew(c))
       /\ SF_vars(Store(c))
       /\ SF_vars(Ack(c) \/ AckInvalid(c))

Spec == Init /\ [][Next]_vars

FairSpec == Spec /\ Fairness

-----------------------------------------------------------------------------
(* Every variable has its type: whatever is pending has been delivered,    *)
(* idle entries are pending, and a batch holds only delivered entries.     *)
TypeOK ==
  /\ log \in Seq(Payload)
  /\ Len(log) <= MaxEntries
  /\ lastDelivered \in {NoGroup} \union 0..Len(log)
  /\ owner \in [Ids -> Consumers \union {Nobody}]
  /\ pc \in [Consumers -> Stage]
  /\ batch \in [Consumers -> SUBSET Delivered]
  /\ stale \in [Consumers -> SUBSET Consumers]
  /\ Pending \subseteq Delivered
  /\ idle \subseteq Pending
  /\ deleted \subseteq Delivered
  /\ stored \subseteq Delivered

(* An entry leaves the pending list only after its row is in Postgres,     *)
(* however the loop of one consumer interleaves with the XAUTOCLAIM of     *)
(* another, a crash, a failed call or a start-up clean-up (job-stream.ts:  *)
(* processMessages upserts before ackAndDelete; stream-consumers.ts keeps  *)
(* consumers with pending entries).                                        *)
SettledIsStored == \A i \in Settled : Wellformed(i) => i \in stored

(* XDEL is the only thing that destroys an event: it never hits one that a *)
(* consumer could still be handed, or one that is not in Postgres.         *)
DeletedIsDone == \A i \in deleted : i \in Settled /\ (Wellformed(i) => i \in stored)

(* A consumer deleted by cleanupStaleConsumers takes no event with it: the *)
(* step never shrinks the pending list.                                    *)
CleanupDropsNothing ==
  [][\A c, d \in Consumers : DeleteConsumer(c, d) => owner' = owner]_vars

(* The abstract promise, with an entry settled once it is delivered and    *)
(* off the pending list.                                                   *)
Promise == INSTANCE DurableDelivery WITH settled <- Settled

(* Every step of the consumer loops is a step of the promise, or changes   *)
(* nothing it talks about.                                                 *)
DeliversDurably == Promise!Spec

(* Every entry ends up off the pending list, and with SettledIsStored in   *)
(* Postgres, whatever crashes and failed calls come first.                 *)
EventuallySettled == \A i \in Ids : Promise!SettledInTheEnd(i)

=============================================================================
