------------------------ MODULE StreamIngestionProofs ------------------------
(***************************************************************************)
(* What holds of the consumer-group loop for any number of process lives,  *)
(* entries and batch sizes.                                                *)
(***************************************************************************)
EXTENDS StreamIngestion, TLAPS

(* TypeOK is not inductive alone: a step past start-up needs the group to  *)
(* exist, or Delivered would not be an initial segment.                    *)
GroupExists == \A c \in Consumers : pc[c] \in Alive => lastDelivered # NoGroup

TypeInv == TypeOK /\ GroupExists

-----------------------------------------------------------------------------
(* Appending to the log leaves the payload of every earlier id alone.      *)
LEMMA AppendKeeps ==
  ASSUME NEW s \in Seq(Payload), NEW p \in Payload
  PROVE  /\ Append(s, p) \in Seq(Payload)
         /\ Len(Append(s, p)) = Len(s) + 1
         /\ \A i \in 1..Len(s) : Append(s, p)[i] = s[i]
OBVIOUS

(* Whatever is delivered was, or is now, given to the consumer; the owners *)
(* of other entries stay.                                                  *)
LEMMA DeliverType ==
  ASSUME TypeInv, NEW c \in Consumers, NEW S \in SUBSET Ids, Deliver(c, S)
  PROVE  /\ owner' \in [Ids -> Consumers \union {Nobody}]
         /\ Pending' = Pending \union S
         /\ idle' \subseteq Pending'
         /\ pc' \in [Consumers -> Stage]
         /\ \A d \in Consumers \ {c} : pc'[d] = pc[d] /\ batch'[d] = batch[d]
         /\ pc'[c] \in {"ackInvalid", "store"}
         /\ batch' = [batch EXCEPT ![c] = S]
BY IngestionAssumption
   DEF TypeInv, TypeOK, Deliver, Process, Goto, Pending, Stage, Alive, Looping, Working

(* The initial state is typed.                                             *)
LEMMA TypeInit == Init => TypeInv
<1> SUFFICES ASSUME Init PROVE TypeInv
  OBVIOUS
<1>1. log \in Seq(Payload) /\ Len(log) = 0
  BY DEF Init
<1>2. Len(log) <= MaxEntries
  BY <1>1, IngestionAssumption
<1>3. Pending = {}
  BY DEF Init, Pending
<1>4. Delivered = {}
  BY DEF Init, Delivered, NoGroup
<1>5. lastDelivered \in {NoGroup} \union 0..Len(log)
  BY DEF Init
<1>6. /\ owner \in [Ids -> Consumers \union {Nobody}]
      /\ batch \in [Consumers -> SUBSET Delivered]
      /\ stale \in [Consumers -> SUBSET Consumers]
  BY DEF Init
<1>7. pc \in [Consumers -> Stage] /\ GroupExists
  BY DEF Init, GroupExists, Stage, Alive, Looping, Working
<1> QED
  BY <1>1, <1>2, <1>3, <1>4, <1>5, <1>6, <1>7 DEF Init, TypeInv, TypeOK

(* Every step of every consumer keeps the typing.                          *)
LEMMA TypeStep == TypeInv /\ [Next]_vars => TypeInv'
<1> SUFFICES ASSUME TypeInv, [Next]_vars PROVE TypeInv'
  OBVIOUS
<1> USE DEF TypeInv
<1>1. ASSUME NEW p \in Payload, Xadd(p) PROVE TypeInv'
  <2>1. /\ log' \in Seq(Payload)
        /\ Len(log') = Len(log) + 1
        /\ Len(log) \in Nat
    BY <1>1, AppendKeeps DEF Xadd, TypeOK
  <2> QED
    BY <1>1, <2>1, IngestionAssumption DEF Xadd, TypeOK, GroupExists, Pending, Delivered, NoGroup
<1>2. ASSUME NEW i \in Ids, BecomeIdle(i) PROVE TypeInv'
  BY <1>2 DEF BecomeIdle, TypeOK, GroupExists, Pending, Delivered
<1>3. ASSUME NEW c \in Consumers, EnsureGroup(c) PROVE TypeInv'
  <2>1. lastDelivered' \in 0..Len(log)
    BY <1>3 DEF EnsureGroup, TypeOK
  <2>2. Delivered' = Delivered
    BY <1>3, <2>1 DEF EnsureGroup, Delivered, NoGroup
  <2> QED
    BY <1>3, <2>1, <2>2
       DEF EnsureGroup, Goto, TypeOK, GroupExists, Pending, NoGroup, Stage, Alive
<1>4. ASSUME NEW c \in Consumers, FindStaleConsumers(c) PROVE TypeInv'
  BY <1>4 DEF FindStaleConsumers, redisVars, Goto, TypeOK, GroupExists, Pending, Delivered,
              Stage, Alive
<1>5. ASSUME NEW c \in Consumers, NEW d \in Consumers, DeleteConsumer(c, d) PROVE TypeInv'
  <2>1. /\ owner' \in [Ids -> Consumers \union {Nobody}]
        /\ Pending' = {i \in Pending : owner[i] # d}
    BY <1>5 DEF DeleteConsumer, TypeOK, Pending
  <2> QED
    BY <1>5, <2>1 DEF DeleteConsumer, TypeOK, GroupExists, Delivered
<1>6. ASSUME NEW c \in Consumers, EndCleanup(c) PROVE TypeInv'
  BY <1>6 DEF EndCleanup, redisVars, Goto, TypeOK, GroupExists, Pending, Delivered,
              Stage, Alive, Looping
<1>7. ASSUME NEW c \in Consumers, ClaimPending(c) PROVE TypeInv'
  <2> DEFINE S == Oldest(idle)
  <2>1. S \subseteq Pending
    BY DEF Oldest, TypeOK
  <2>2. S \in SUBSET Ids
    BY <2>1 DEF Pending
  <2>3. Deliver(c, S) /\ UNCHANGED <<log, deleted, lastDelivered, stale, stored>>
    BY <1>7 DEF ClaimPending
  <2>4. lastDelivered # NoGroup
    BY <1>7 DEF ClaimPending, GroupExists, Alive, Looping
  <2> HIDE DEF S
  <2>5. /\ owner' \in [Ids -> Consumers \union {Nobody}]
        /\ Pending' = Pending \union S
        /\ idle' \subseteq Pending'
        /\ pc' \in [Consumers -> Stage]
        /\ batch' = [batch EXCEPT ![c] = S]
    BY <2>1, <2>2, <2>3, DeliverType
  <2>6. S \subseteq Delivered
    BY <2>1 DEF TypeOK
  <2>7. Pending' = Pending
    BY <2>1, <2>5
  <2> QED
    BY <2>3, <2>4, <2>5, <2>6, <2>7 DEF TypeOK, GroupExists, Delivered
<1>8. ASSUME NEW c \in Consumers, ClaimNothing(c) PROVE TypeInv'
  BY <1>8 DEF ClaimNothing, redisVars, Goto, TypeOK, GroupExists, Pending, Delivered,
              Stage, Alive, Looping
<1>9. ASSUME NEW c \in Consumers, ReadNew(c) PROVE TypeInv'
  <2> DEFINE S == (lastDelivered + 1)..NextCursor
  <2>1. lastDelivered \in 0..Len(log) /\ Len(log) \in Nat
    BY <1>9 DEF ReadNew, TypeOK, GroupExists, Alive, Looping
  <2>2. NextCursor \in lastDelivered..Len(log)
    BY <1>9, <2>1, IngestionAssumption DEF ReadNew, NextCursor
  <2>3. S \in SUBSET Ids
    BY <2>1, <2>2, IngestionAssumption DEF TypeOK, Ids
  <2>4. Delivered' = Delivered \union S
    BY <1>9, <2>1, <2>2 DEF ReadNew, Delivered
  <2> HIDE DEF S
  <2>5. Deliver(c, S)
    BY <1>9 DEF ReadNew, S
  <2>6. NextCursor # NoGroup /\ lastDelivered' \in 0..Len(log')
    BY <1>9, <2>1, <2>2 DEF ReadNew, NoGroup
  <2> QED
    BY <1>9, <2>3, <2>4, <2>5, <2>6, DeliverType DEF ReadNew, TypeOK, GroupExists, Alive, Looping
<1>10. ASSUME NEW c \in Consumers, ReadNothing(c) PROVE TypeInv'
  BY <1>10 DEF ReadNothing, redisVars, Goto, TypeOK, GroupExists, Pending, Delivered,
               Stage, Alive, Looping
<1>11. ASSUME NEW c \in Consumers, AckInvalid(c) \/ Ack(c) PROVE TypeInv'
  <2>1. PICK S : Xack(S)
    BY <1>11 DEF AckInvalid, Ack
  <2>2. /\ owner' \in [Ids -> Consumers \union {Nobody}]
        /\ Pending' = Pending \ S
        /\ idle' \subseteq Pending'
    BY <2>1, IngestionAssumption DEF Xack, TypeOK, Pending
  <2>3. /\ UNCHANGED <<log, deleted, lastDelivered, batch, stale, stored>>
        /\ pc[c] \in Alive
        /\ \E t \in Alive : pc' = [pc EXCEPT ![c] = t]
    BY <1>11 DEF AckInvalid, Ack, Goto, Alive, Looping, Working
  <2> QED
    BY <2>2, <2>3 DEF TypeOK, GroupExists, Delivered, Stage
<1>12. ASSUME NEW c \in Consumers, DelInvalid(c) PROVE TypeInv'
  <2>1. Valid(batch[c]) \subseteq Delivered /\ Invalid(batch[c]) \subseteq Delivered
    BY DEF Valid, Invalid, TypeOK
  <2> QED
    BY <1>12, <2>1 DEF DelInvalid, Goto, TypeOK, GroupExists, Pending, Delivered,
                       Stage, Alive, Looping, Working
<1>13. ASSUME NEW c \in Consumers, Store(c) PROVE TypeInv'
  BY <1>13 DEF Store, redisVars, Goto, TypeOK, GroupExists, Pending, Delivered,
               Stage, Alive, Looping, Working
<1>14. ASSUME NEW c \in Consumers, Del(c) PROVE TypeInv'
  BY <1>14 DEF Del, Goto, TypeOK, GroupExists, Pending, Delivered, Stage, Alive, Looping, Working
<1>15. ASSUME NEW c \in Consumers, Fail(c) PROVE TypeInv'
  BY <1>15 DEF Fail, redisVars, Goto, TypeOK, GroupExists, Pending, Delivered,
               Stage, Alive, Looping, Working
<1>16. ASSUME NEW c \in Consumers, Crash(c) PROVE TypeInv'
  BY <1>16 DEF Crash, redisVars, Goto, TypeOK, GroupExists, Pending, Delivered,
               Stage, Alive, Looping, Working
<1>17. CASE UNCHANGED vars
  BY <1>17 DEF vars, TypeOK, GroupExists, Pending, Delivered
<1> QED
  BY <1>1, <1>2, <1>3, <1>4, <1>5, <1>6, <1>7, <1>8, <1>9, <1>10, <1>11, <1>12, <1>13, <1>14,
     <1>15, <1>16, <1>17 DEF Next, Step, StartUp, Receive, AckAndDelete

(* Type correctness: cursor, pending list, idle set and batches stay in    *)
(* step for any number of replicas, restarts, entries and batch sizes.     *)
THEOREM TypeCorrect == Spec => []TypeOK
<1>1. Spec => []TypeInv
  BY TypeInit, TypeStep, PTL DEF Spec
<1>2. TypeInv => TypeOK
  BY DEF TypeInv
<1> QED
  BY <1>1, <1>2, PTL

-----------------------------------------------------------------------------
(***************************************************************************)
(* Nothing is deleted from the stream before it is in Postgres.            *)
(***************************************************************************)

(* A read by a consumer makes nothing unsettled: XAUTOCLAIM hands out      *)
(* pending entries, XREADGROUP undelivered ones.                           *)
LEMMA ReadKeepsSettled ==
  ASSUME TypeInv, NEW c \in Consumers, ClaimPending(c) \/ ReadNew(c)
  PROVE  Settled' = Settled
<1>1. CASE ClaimPending(c)
  <2> DEFINE S == Oldest(idle)
  <2>1. S \subseteq Pending
    BY DEF Oldest, TypeInv, TypeOK
  <2>2. S \in SUBSET Ids
    BY <2>1 DEF Pending
  <2>3. Deliver(c, S) /\ lastDelivered' = lastDelivered
    BY <1>1 DEF ClaimPending
  <2> HIDE DEF S
  <2>4. Pending' = Pending \union S
    BY <2>2, <2>3, DeliverType
  <2> QED
    BY <2>1, <2>3, <2>4 DEF Settled, Delivered
<1>2. CASE ReadNew(c)
  <2> DEFINE S == (lastDelivered + 1)..NextCursor
  <2>1. lastDelivered \in 0..Len(log) /\ Len(log) \in Nat /\ Len(log) <= MaxEntries
    BY <1>2 DEF ReadNew, TypeInv, TypeOK, GroupExists, Alive, Looping
  <2>2. NextCursor \in lastDelivered..Len(log)
    BY <1>2, <2>1, IngestionAssumption DEF ReadNew, NextCursor
  <2>3. S \in SUBSET Ids
    BY <2>1, <2>2, IngestionAssumption DEF Ids
  <2>4. Delivered' = Delivered \union S /\ Delivered \intersect S = {}
    BY <1>2, <2>1, <2>2 DEF ReadNew, Delivered
  <2> HIDE DEF S
  <2>5. Deliver(c, S)
    BY <1>2 DEF ReadNew, S
  <2>6. Pending' = Pending \union S
    BY <2>3, <2>5, DeliverType
  <2> QED
    BY <2>4, <2>6 DEF Settled
<1> QED
  BY <1>1, <1>2

(* What an acknowledgement settles.                                        *)
LEMMA XackSettles ==
  ASSUME TypeInv, NEW S \in SUBSET Delivered, Xack(S), lastDelivered' = lastDelivered
  PROVE  Settled' = Settled \union S
<1>1. Pending' = Pending \ S
  BY IngestionAssumption DEF Xack, Pending, TypeInv, TypeOK
<1>2. Delivered' = Delivered
  BY DEF Delivered
<1> QED
  BY <1>1, <1>2 DEF Settled

(* No step hands a settled entry out again.                                *)
LEMMA SettledGrows == TypeInv /\ [Next]_vars => Settled \subseteq Settled'
<1> SUFFICES ASSUME TypeInv, [Next]_vars PROVE Settled \subseteq Settled'
  OBVIOUS
<1>1. ASSUME NEW c \in Consumers, ClaimPending(c) \/ ReadNew(c) PROVE Settled \subseteq Settled'
  BY <1>1, ReadKeepsSettled
<1>2. ASSUME NEW c \in Consumers, EnsureGroup(c) PROVE Settled \subseteq Settled'
  <2>1. Pending' = Pending
    BY <1>2 DEF EnsureGroup, Pending
  <2>2. Delivered' = Delivered
    BY <1>2 DEF EnsureGroup, Delivered, NoGroup
  <2> QED
    BY <2>1, <2>2 DEF Settled
<1>3. ASSUME NEW c \in Consumers, NEW d \in Consumers, DeleteConsumer(c, d)
      PROVE  Settled \subseteq Settled'
  BY <1>3 DEF DeleteConsumer, Settled, Delivered, Pending
<1>4. ASSUME NEW c \in Consumers, AckInvalid(c) PROVE Settled \subseteq Settled'
  <2>1. Invalid(batch[c]) \in SUBSET Delivered
    BY DEF Invalid, TypeInv, TypeOK
  <2> QED
    BY <1>4, <2>1, XackSettles DEF AckInvalid
<1>5. ASSUME NEW c \in Consumers, Ack(c) PROVE Settled \subseteq Settled'
  <2>1. batch[c] \in SUBSET Delivered
    BY DEF TypeInv, TypeOK
  <2> QED
    BY <1>5, <2>1, XackSettles DEF Ack
<1>6. CASE UNCHANGED <<lastDelivered, owner>>
  BY <1>6 DEF Settled, Delivered, Pending
<1>7. ASSUME NEW c \in Consumers, Step(c) PROVE Settled \subseteq Settled'
  BY <1>1, <1>2, <1>3, <1>4, <1>5, <1>6, <1>7
     DEF Step, StartUp, Receive, AckAndDelete, FindStaleConsumers, EndCleanup, ClaimNothing,
         ReadNothing, DelInvalid, Store, Del, redisVars
<1>8. ASSUME NEW c \in Consumers, Fail(c) \/ Crash(c) PROVE Settled \subseteq Settled'
  BY <1>6, <1>8 DEF Fail, Crash, redisVars
<1>9. ASSUME NEW p \in Payload, Xadd(p) PROVE Settled \subseteq Settled'
  BY <1>6, <1>9 DEF Xadd
<1>10. ASSUME NEW i \in Ids, BecomeIdle(i) PROVE Settled \subseteq Settled'
  BY <1>6, <1>10 DEF BecomeIdle
<1>11. CASE UNCHANGED vars
  BY <1>6, <1>11 DEF vars
<1> QED
  BY <1>7, <1>8, <1>9, <1>10, <1>11 DEF Next

(* Producers append: an entry keeps its payload.                           *)
LEMMA LogKept ==
  TypeInv /\ [Next]_vars => \A i \in Delivered : Wellformed(i)' <=> Wellformed(i)
<1> SUFFICES ASSUME TypeInv, [Next]_vars
             PROVE  \A i \in Delivered : Wellformed(i)' <=> Wellformed(i)
  OBVIOUS
<1>1. ASSUME NEW p \in Payload, Xadd(p)
      PROVE  \A i \in Delivered : Wellformed(i)' <=> Wellformed(i)
  <2>1. Delivered \subseteq 1..Len(log)
    BY DEF Delivered, TypeInv, TypeOK, NoGroup
  <2>2. \A i \in 1..Len(log) : log'[i] = log[i]
    BY <1>1, AppendKeeps DEF Xadd, TypeInv, TypeOK
  <2> QED
    BY <2>1, <2>2 DEF Wellformed
<1>2. CASE UNCHANGED log
  BY <1>2 DEF Wellformed
<1>3. CASE \E c \in Consumers : Step(c) \/ Fail(c) \/ Crash(c)
  BY <1>2, <1>3
     DEF Step, StartUp, Receive, AckAndDelete, Fail, Crash, EnsureGroup, FindStaleConsumers,
         DeleteConsumer, EndCleanup, ClaimPending, ClaimNothing, ReadNew, ReadNothing,
         AckInvalid, DelInvalid, Store, Ack, Del, redisVars
<1>4. CASE \E i \in Ids : BecomeIdle(i)
  BY <1>2, <1>4 DEF BecomeIdle
<1>5. CASE UNCHANGED vars
  BY <1>2, <1>5 DEF vars
<1> QED
  BY <1>1, <1>3, <1>4, <1>5 DEF Next

(* What a consumer knows at each point of processMessages: the batch it    *)
(* writes parses, the batch it acknowledges is written, and the entries it *)
(* deletes are settled.                                                    *)
BatchParsed == \A c \in Consumers : pc[c] \in {"store", "ack", "del"} => Invalid(batch[c]) = {}
BatchStored == \A c \in Consumers : pc[c] \in {"ack", "del"} => batch[c] \subseteq stored
BatchSettled ==
  \A c \in Consumers : /\ pc[c] = "delInvalid" => Invalid(batch[c]) \subseteq Settled
                       /\ pc[c] = "del" => batch[c] \subseteq Settled

DoneInv == TypeInv /\ BatchParsed /\ BatchStored /\ BatchSettled /\ DeletedIsDone

(* Nothing is in flight at first.                                          *)
LEMMA DoneInit == Init => DoneInv
<1> SUFFICES ASSUME Init PROVE DoneInv
  OBVIOUS
<1> QED
  BY TypeInit DEF Init, DoneInv, BatchParsed, BatchStored, BatchSettled, DeletedIsDone

(* A step that leaves one consumer's place and batch alone leaves what it  *)
(* knows alone.                                                            *)
LEMMA OthersKept ==
  ASSUME DoneInv, [Next]_vars, stored \subseteq stored',
         NEW c \in Consumers, pc'[c] = pc[c], batch'[c] = batch[c]
  PROVE  /\ pc'[c] \in {"store", "ack", "del"} => Invalid(batch[c])' = {}
         /\ pc'[c] \in {"ack", "del"} => batch'[c] \subseteq stored'
         /\ pc'[c] = "delInvalid" => Invalid(batch[c])' \subseteq Settled'
         /\ pc'[c] = "del" => batch'[c] \subseteq Settled'
<1>1. \A i \in batch[c] : Wellformed(i)' <=> Wellformed(i)
  BY LogKept DEF DoneInv, TypeInv, TypeOK
<1>2. Invalid(batch[c])' = Invalid(batch[c])
  BY <1>1 DEF Invalid
<1> QED
  BY <1>2, SettledGrows DEF DoneInv, BatchParsed, BatchStored, BatchSettled

(* Only a consumer that has done the work deletes.                         *)
LEMMA DeletedKept ==
  ASSUME DoneInv, [Next]_vars, stored \subseteq stored', deleted' = deleted
  PROVE  DeletedIsDone'
BY LogKept, SettledGrows DEF DoneInv, DeletedIsDone, TypeInv, TypeOK

(* Every step keeps what the consumers know and what was deleted done.     *)
LEMMA DoneStep == DoneInv /\ [Next]_vars => DoneInv'
<1> SUFFICES ASSUME DoneInv, [Next]_vars PROVE DoneInv'
  OBVIOUS
<1>a. TypeInv /\ TypeInv'
  BY TypeStep DEF DoneInv
<1>b. ASSUME stored \subseteq stored', deleted' = deleted,
             \A c \in Consumers : pc'[c] = pc[c] /\ batch'[c] = batch[c]
      PROVE  DoneInv'
  BY <1>a, <1>b, OthersKept, DeletedKept DEF DoneInv, BatchParsed, BatchStored, BatchSettled
<1>c. ASSUME NEW c \in Consumers,
             stored \subseteq stored', deleted' = deleted,
             \A d \in Consumers \ {c} : pc'[d] = pc[d] /\ batch'[d] = batch[d],
             pc'[c] \in {"store", "ack", "del"} => Invalid(batch[c])' = {},
             pc'[c] \in {"ack", "del"} => batch'[c] \subseteq stored',
             pc'[c] = "delInvalid" => Invalid(batch[c])' \subseteq Settled',
             pc'[c] = "del" => batch'[c] \subseteq Settled'
      PROVE  DoneInv'
  BY <1>a, <1>c, OthersKept, DeletedKept DEF DoneInv, BatchParsed, BatchStored, BatchSettled
<1>1. CASE UNCHANGED vars
  BY <1>b, <1>1 DEF vars
<1>2. ASSUME NEW p \in Payload, Xadd(p) PROVE DoneInv'
  BY <1>b, <1>2 DEF Xadd
<1>3. ASSUME NEW i \in Ids, BecomeIdle(i) PROVE DoneInv'
  BY <1>b, <1>3 DEF BecomeIdle
<1>4. ASSUME NEW c \in Consumers, NEW d \in Consumers, DeleteConsumer(c, d) PROVE DoneInv'
  BY <1>b, <1>4 DEF DeleteConsumer
<1>5. ASSUME NEW c \in Consumers,
             \/ EnsureGroup(c) \/ FindStaleConsumers(c) \/ EndCleanup(c)
             \/ ClaimNothing(c) \/ ReadNothing(c) \/ Fail(c) \/ Crash(c)
      PROVE  DoneInv'
  <2>1. /\ stored' = stored /\ deleted' = deleted
        /\ pc'[c] \in {"cleanup", "prune", "claim", "read", "dead"}
        /\ \A d \in Consumers \ {c} : pc'[d] = pc[d] /\ batch'[d] = batch[d]
    BY <1>5, <1>a DEF EnsureGroup, FindStaleConsumers, EndCleanup, ClaimNothing, ReadNothing,
                      Fail, Crash, Goto, redisVars, TypeInv, TypeOK
  <2> QED
    BY <1>c, <2>1
<1>6. ASSUME NEW c \in Consumers, ClaimPending(c) \/ ReadNew(c) PROVE DoneInv'
  <2>1. PICK S : Deliver(c, S)
    BY <1>6 DEF ClaimPending, ReadNew
  <2>2. /\ batch'[c] = S
        /\ pc'[c] = IF Invalid(S) # {} THEN "ackInvalid" ELSE "store"
        /\ \A d \in Consumers \ {c} : pc'[d] = pc[d] /\ batch'[d] = batch[d]
    BY <2>1, <1>a DEF Deliver, Process, Goto, TypeInv, TypeOK
  <2>3. stored' = stored /\ deleted' = deleted /\ log' = log
    BY <1>6 DEF ClaimPending, ReadNew
  <2>4. Invalid(batch[c])' = Invalid(S)
    BY <2>2, <2>3 DEF Invalid, Wellformed
  <2> QED
    BY <1>c, <2>2, <2>3, <2>4
<1>7. ASSUME NEW c \in Consumers, AckInvalid(c) PROVE DoneInv'
  <2>1. /\ batch' = batch /\ stored' = stored /\ deleted' = deleted /\ log' = log
        /\ pc'[c] = "delInvalid"
        /\ \A d \in Consumers \ {c} : pc'[d] = pc[d]
    BY <1>7, <1>a DEF AckInvalid, Goto, TypeInv, TypeOK
  <2>2. Invalid(batch[c]) \in SUBSET Delivered
    BY <1>a DEF Invalid, TypeInv, TypeOK
  <2>3. Invalid(batch[c]) \subseteq Settled'
    BY <1>7, <1>a, <2>2, XackSettles DEF AckInvalid
  <2>4. Invalid(batch[c])' = Invalid(batch[c])
    BY <2>1 DEF Invalid, Wellformed
  <2> QED
    BY <1>c, <2>1, <2>3, <2>4
<1>8. ASSUME NEW c \in Consumers, Store(c) PROVE DoneInv'
  <2>1. /\ batch' = batch /\ deleted' = deleted /\ log' = log
        /\ stored' = stored \union batch[c]
        /\ pc[c] = "store" /\ pc'[c] = "ack"
        /\ \A d \in Consumers \ {c} : pc'[d] = pc[d]
    BY <1>8, <1>a DEF Store, Goto, redisVars, TypeInv, TypeOK
  <2>2. Invalid(batch[c])' = {}
    BY <2>1 DEF Invalid, Wellformed, DoneInv, BatchParsed
  <2> QED
    BY <1>c, <2>1, <2>2
<1>9. ASSUME NEW c \in Consumers, Ack(c) PROVE DoneInv'
  <2>1. /\ batch' = batch /\ stored' = stored /\ deleted' = deleted /\ log' = log
        /\ pc[c] = "ack" /\ pc'[c] = "del"
        /\ \A d \in Consumers \ {c} : pc'[d] = pc[d]
    BY <1>9, <1>a DEF Ack, Goto, TypeInv, TypeOK
  <2>2. Invalid(batch[c])' = {} /\ batch'[c] \subseteq stored'
    BY <2>1 DEF Invalid, Wellformed, DoneInv, BatchParsed, BatchStored
  <2>3. batch[c] \in SUBSET Delivered
    BY <1>a DEF TypeInv, TypeOK
  <2>4. batch[c] \subseteq Settled'
    BY <1>9, <1>a, <2>3, XackSettles DEF Ack
  <2> QED
    BY <1>c, <2>1, <2>2, <2>4
<1>10. ASSUME NEW c \in Consumers, DelInvalid(c) PROVE DoneInv'
  <2>1. /\ stored' = stored /\ log' = log
        /\ deleted' = deleted \union Invalid(batch[c])
        /\ pc[c] = "delInvalid" /\ pc'[c] \in {"claim", "store"}
        /\ batch'[c] = Valid(batch[c])
        /\ \A d \in Consumers \ {c} : pc'[d] = pc[d] /\ batch'[d] = batch[d]
    BY <1>10, <1>a DEF DelInvalid, Goto, TypeInv, TypeOK
  <2>2. Invalid(batch[c])' = {}
    BY <2>1 DEF Invalid, Valid, Wellformed
  <2>3. Invalid(batch[c]) \subseteq Settled /\ Settled \subseteq Settled'
    BY <1>a, <2>1, SettledGrows DEF DoneInv, BatchSettled
  <2>4. DeletedIsDone'
    BY <2>1, <2>3 DEF DoneInv, DeletedIsDone, Invalid, Wellformed
  <2> QED
    BY <1>a, <2>1, <2>2, <2>4, OthersKept DEF DoneInv, BatchParsed, BatchStored, BatchSettled
<1>11. ASSUME NEW c \in Consumers, Del(c) PROVE DoneInv'
  <2>1. /\ stored' = stored /\ log' = log
        /\ deleted' = deleted \union batch[c]
        /\ pc[c] = "del" /\ pc'[c] = "claim"
        /\ \A d \in Consumers \ {c} : pc'[d] = pc[d] /\ batch'[d] = batch[d]
    BY <1>11, <1>a DEF Del, Goto, TypeInv, TypeOK
  <2>2. /\ batch[c] \subseteq Settled /\ Settled \subseteq Settled'
        /\ batch[c] \subseteq stored
    BY <1>a, <2>1, SettledGrows DEF DoneInv, BatchSettled, BatchStored
  <2>3. DeletedIsDone'
    BY <2>1, <2>2 DEF DoneInv, DeletedIsDone, Wellformed
  <2> QED
    BY <1>a, <2>1, <2>3, OthersKept DEF DoneInv, BatchParsed, BatchStored, BatchSettled
<1> QED
  BY <1>1, <1>2, <1>3, <1>4, <1>5, <1>6, <1>7, <1>8, <1>9, <1>10, <1>11
     DEF Next, Step, StartUp, Receive, AckAndDelete

(* XDEL never destroys an event that is not in Postgres or that a consumer *)
(* could still be handed, even when clean-up takes a live consumer for a   *)
(* dead one (job-stream.ts ackAndDelete after safeUpsertJobRuns).          *)
THEOREM DeletedOnlyWhenDone == Spec => []DeletedIsDone
<1>1. Spec => []DoneInv
  BY DoneInit, DoneStep, PTL DEF Spec
<1>2. DoneInv => DeletedIsDone
  BY DEF DoneInv
<1> QED
  BY <1>1, <1>2, PTL

-----------------------------------------------------------------------------
(***************************************************************************)
(* Nothing is settled before it is in Postgres, provided XINFO never takes *)
(* a live consumer for a stale one.                                        *)
(***************************************************************************)

(* The consumers a start-up clean-up is about to delete are dead, and a    *)
(* dead consumer without pending entries never gets one.                   *)
StaleDead ==
  \A c \in Consumers : \A d \in stale[c] :
    pc[d] = "dead" /\ \A i \in Pending : owner[i] # d

StoredInv == DoneInv /\ StaleDead /\ SettledIsStored

(* Nothing has been delivered at first.                                    *)
LEMMA StoredInit == Init => StoredInv
<1> SUFFICES ASSUME Init PROVE StoredInv
  OBVIOUS
<1>1. Settled = {}
  BY DEF Init, Settled, Delivered, NoGroup
<1> QED
  BY <1>1, DoneInit DEF Init, StoredInv, StaleDead, SettledIsStored

(* Deleting a consumer that owns nothing changes no owner.                 *)
LEMMA DeleteDead ==
  ASSUME StoredInv, NEW c \in Consumers, NEW d \in Consumers, DeleteConsumer(c, d)
  PROVE  owner' = owner
<1>1. \A i \in Ids : owner[i] # d
  BY IngestionAssumption DEF DeleteConsumer, StoredInv, StaleDead, Pending
<1>2. owner \in [Ids -> Consumers \union {Nobody}]
  BY DEF StoredInv, DoneInv, TypeInv, TypeOK
<1> QED
  BY <1>1, <1>2 DEF DeleteConsumer

(* A consumer on a clean-up's list stays dead and stays without entries:   *)
(* only a live consumer is delivered any.                                  *)
LEMMA StaleStep ==
  ASSUME ~LiveLookStale, StoredInv, [Next]_vars
  PROVE  StaleDead'
<1>a. TypeOK
  BY DEF StoredInv, DoneInv, TypeInv
<1>b. ASSUME stale' = stale, owner' = owner,
             \A d \in Consumers : pc[d] = "dead" => pc'[d] = "dead"
      PROVE  StaleDead'
  BY <1>a, <1>b DEF StoredInv, StaleDead, Pending, TypeOK
<1>1. CASE UNCHANGED vars
  BY <1>b, <1>1 DEF vars
<1>2. CASE \/ \E p \in Payload : Xadd(p)
           \/ \E i \in Ids : BecomeIdle(i)
  BY <1>b, <1>2 DEF Xadd, BecomeIdle
<1>3. ASSUME NEW c \in Consumers,
             \/ EnsureGroup(c) \/ ClaimNothing(c) \/ ReadNothing(c) \/ DelInvalid(c) \/ Store(c)
             \/ Del(c) \/ Fail(c)
      PROVE  StaleDead'
  <2>1. stale' = stale /\ owner' = owner /\ pc[c] # "dead"
    BY <1>3 DEF EnsureGroup, ClaimNothing, ReadNothing, DelInvalid, Store, Del, Fail, redisVars,
                Working
  <2>2. \A d \in Consumers \ {c} : pc'[d] = pc[d]
    BY <1>3, <1>a DEF EnsureGroup, ClaimNothing, ReadNothing, DelInvalid, Store, Del, Fail, Goto,
                      TypeOK
  <2> QED
    BY <1>b, <2>1, <2>2
<1>4. ASSUME NEW c \in Consumers, FindStaleConsumers(c) PROVE StaleDead'
  <2>1. PICK S \in SUBSET {d \in Consumers : IsStale(d)} : stale' = [stale EXCEPT ![c] = S]
    BY <1>4 DEF FindStaleConsumers
  <2>2. \A d \in S : pc[d] = "dead" /\ \A i \in Pending : owner[i] # d
    BY DEF IsStale, Unheard
  <2>3. owner' = owner /\ \A d \in Consumers : pc[d] = "dead" => pc'[d] = "dead"
    BY <1>4, <1>a DEF FindStaleConsumers, redisVars, Goto, TypeOK
  <2>4. \A e \in Consumers : \A d \in stale'[e] :
          pc[d] = "dead" /\ \A i \in Pending : owner[i] # d
    BY <1>a, <2>1, <2>2 DEF StoredInv, StaleDead, TypeOK
  <2>5. \A e \in Consumers : stale'[e] \subseteq Consumers
    BY <1>a, <2>1 DEF TypeOK
  <2> QED
    BY <2>3, <2>4, <2>5 DEF StaleDead, Pending
<1>5. ASSUME NEW c \in Consumers, NEW d \in Consumers, DeleteConsumer(c, d) PROVE StaleDead'
  <2>1. owner' = owner /\ pc' = pc
    BY <1>5, DeleteDead DEF DeleteConsumer
  <2>2. \A e \in Consumers : stale'[e] \subseteq stale[e]
    BY <1>5, <1>a DEF DeleteConsumer, TypeOK
  <2> QED
    BY <2>1, <2>2 DEF StoredInv, StaleDead, Pending
<1>6. ASSUME NEW c \in Consumers, EndCleanup(c) \/ Crash(c) PROVE StaleDead'
  <2>1. owner' = owner /\ \A d \in Consumers : pc[d] = "dead" => pc'[d] = "dead"
    BY <1>6, <1>a DEF EndCleanup, Crash, redisVars, Goto, TypeOK
  <2>2. \A e \in Consumers : stale'[e] \subseteq stale[e] /\ stale[e] \subseteq Consumers
    BY <1>6, <1>a DEF EndCleanup, Crash, TypeOK
  <2> QED
    BY <2>1, <2>2 DEF StoredInv, StaleDead, Pending
<1>7. ASSUME NEW c \in Consumers, ClaimPending(c) \/ ReadNew(c) PROVE StaleDead'
  <2>1. PICK S : Deliver(c, S)
    BY <1>7 DEF ClaimPending, ReadNew
  <2>2. stale' = stale /\ pc[c] # "dead"
    BY <1>7 DEF ClaimPending, ReadNew
  <2>3. \A d \in Consumers \ {c} : pc'[d] = pc[d]
    BY <2>1, <1>a DEF Deliver, Process, Goto, TypeOK
  <2>4. \A e \in Consumers : \A d \in stale[e] : d \in Consumers \ {c}
    BY <1>a, <2>2 DEF StoredInv, StaleDead, TypeOK
  <2>5. \A i \in Ids : owner'[i] = owner[i] \/ owner'[i] = c
    BY <2>1 DEF Deliver
  <2> QED
    BY <2>2, <2>3, <2>4, <2>5, IngestionAssumption DEF StoredInv, StaleDead, Pending
<1>8. ASSUME NEW c \in Consumers, AckInvalid(c) \/ Ack(c) PROVE StaleDead'
  <2>1. PICK S : Xack(S)
    BY <1>8 DEF AckInvalid, Ack
  <2>2. stale' = stale /\ \A d \in Consumers : pc[d] = "dead" => pc'[d] = "dead"
    BY <1>8, <1>a DEF AckInvalid, Ack, Goto, TypeOK
  <2>3. \A i \in Ids : owner'[i] = owner[i] \/ owner'[i] = Nobody
    BY <2>1 DEF Xack
  <2>4. \A e \in Consumers : stale[e] \subseteq Consumers
    BY <1>a DEF TypeOK
  <2> QED
    BY <2>2, <2>3, <2>4, IngestionAssumption DEF StoredInv, StaleDead, Pending
<1> QED
  BY <1>1, <1>2, <1>3, <1>4, <1>5, <1>6, <1>7, <1>8 DEF Next, Step, StartUp, Receive, AckAndDelete

(* Only an acknowledgement settles an entry.                               *)
LEMMA SettledOnlyByXack ==
  ASSUME StoredInv, [Next]_vars
  PROVE  \/ Settled' = Settled
         \/ \E c \in Consumers : Ack(c) /\ Settled' = Settled \union batch[c]
         \/ \E c \in Consumers : AckInvalid(c) /\ Settled' = Settled \union Invalid(batch[c])
<1>a. TypeInv
  BY DEF StoredInv, DoneInv
<1>b. CASE UNCHANGED <<lastDelivered, owner>>
  BY <1>b DEF Settled, Delivered, Pending
<1>1. ASSUME NEW c \in Consumers, Ack(c) PROVE Settled' = Settled \union batch[c]
  <2>1. batch[c] \in SUBSET Delivered
    BY <1>a DEF TypeInv, TypeOK
  <2> QED
    BY <1>1, <1>a, <2>1, XackSettles DEF Ack
<1>2. ASSUME NEW c \in Consumers, AckInvalid(c)
      PROVE  Settled' = Settled \union Invalid(batch[c])
  <2>1. Invalid(batch[c]) \in SUBSET Delivered
    BY <1>a DEF Invalid, TypeInv, TypeOK
  <2> QED
    BY <1>2, <1>a, <2>1, XackSettles DEF AckInvalid
<1>3. ASSUME NEW c \in Consumers, EnsureGroup(c) PROVE Settled' = Settled
  <2>1. Pending' = Pending
    BY <1>3 DEF EnsureGroup, Pending
  <2>2. Delivered' = Delivered
    BY <1>3 DEF EnsureGroup, Delivered, NoGroup
  <2> QED
    BY <2>1, <2>2 DEF Settled
<1>4. ASSUME NEW c \in Consumers, NEW d \in Consumers, DeleteConsumer(c, d)
      PROVE  Settled' = Settled
  BY <1>4, DeleteDead DEF DeleteConsumer, Settled, Delivered, Pending
<1>5. ASSUME NEW c \in Consumers, ClaimPending(c) \/ ReadNew(c) PROVE Settled' = Settled
  BY <1>5, <1>a, ReadKeepsSettled
<1>6. CASE \E c \in Consumers :
             \/ FindStaleConsumers(c) \/ EndCleanup(c) \/ ClaimNothing(c) \/ ReadNothing(c)
             \/ DelInvalid(c) \/ Store(c) \/ Del(c) \/ Fail(c) \/ Crash(c)
  BY <1>b, <1>6
     DEF FindStaleConsumers, EndCleanup, ClaimNothing, ReadNothing, DelInvalid, Store, Del, Fail,
         Crash, redisVars
<1>7. CASE \/ \E p \in Payload : Xadd(p)
           \/ \E i \in Ids : BecomeIdle(i)
           \/ UNCHANGED vars
  BY <1>b, <1>7 DEF Xadd, BecomeIdle, vars
<1> QED
  BY <1>1, <1>2, <1>3, <1>4, <1>5, <1>6, <1>7 DEF Next, Step, StartUp, Receive, AckAndDelete

(* Postgres keeps what was committed.                                      *)
LEMMA StoredGrows == [Next]_vars => stored \subseteq stored'
BY DEF Next, Step, StartUp, Receive, AckAndDelete, Xadd, BecomeIdle, EnsureGroup,
       FindStaleConsumers, DeleteConsumer, EndCleanup, ClaimPending, ClaimNothing,
       ReadNew, ReadNothing, AckInvalid, DelInvalid, Store, Ack, Del, Fail, Crash, vars

(* Every step keeps settled entries written: what it settles, if anything, *)
(* the consumer had written or could not parse.                            *)
LEMMA StoredStep == ~LiveLookStale /\ StoredInv /\ [Next]_vars => StoredInv'
<1> SUFFICES ASSUME ~LiveLookStale, StoredInv, [Next]_vars PROVE StoredInv'
  OBVIOUS
<1>1. DoneInv'
  BY DoneStep DEF StoredInv
<1>2. StaleDead'
  BY StaleStep
<1>3. /\ stored \subseteq stored'
      /\ \A i \in Delivered : Wellformed(i)' <=> Wellformed(i)
      /\ TypeOK
  BY StoredGrows, LogKept DEF StoredInv, DoneInv, TypeInv
<1>4. SettledIsStored'
  <2>1. CASE Settled' = Settled
    BY <1>3, <2>1 DEF StoredInv, SettledIsStored, Settled
  <2>2. ASSUME NEW c \in Consumers, Ack(c), Settled' = Settled \union batch[c]
        PROVE  SettledIsStored'
    <3>1. batch[c] \subseteq stored
      BY <2>2 DEF Ack, StoredInv, DoneInv, BatchStored
    <3> QED
      BY <1>3, <2>2, <3>1 DEF StoredInv, SettledIsStored, Settled
  <2>3. ASSUME NEW c \in Consumers, AckInvalid(c), Settled' = Settled \union Invalid(batch[c])
        PROVE  SettledIsStored'
    <3>1. \A i \in Invalid(batch[c]) : i \in Delivered /\ ~Wellformed(i)
      BY <1>3 DEF Invalid, TypeOK
    <3> QED
      BY <1>3, <2>3, <3>1 DEF StoredInv, SettledIsStored, Settled
  <2> QED
    BY <2>1, <2>2, <2>3, SettledOnlyByXack
<1> QED
  BY <1>1, <1>2, <1>4 DEF StoredInv

(* An event leaves the pending list only once its row is in Postgres, for  *)
(* any number of replicas crashing, stalling and reclaiming each other's   *)
(* entries (job-stream.ts processMessages), as long as clean-up recognises *)
(* live consumers.                                                         *)
THEOREM AcknowledgedIsStored ==
  ASSUME ~LiveLookStale
  PROVE  Spec => []SettledIsStored
<1>1. Init => StoredInv
  BY StoredInit
<1>2. StoredInv /\ [Next]_vars => StoredInv'
  BY StoredStep
<1>3. StoredInv => SettledIsStored
  BY DEF StoredInv
<1> QED
  BY <1>1, <1>2, <1>3, PTL DEF Spec

(* Start-up clean-up never takes a pending entry away                      *)
(* (stream-consumers.ts cleanupStaleConsumers).                            *)
THEOREM CleanupIsHarmless ==
  ASSUME ~LiveLookStale
  PROVE  Spec => CleanupDropsNothing
<1>1. Init => StoredInv
  BY StoredInit
<1>2. StoredInv /\ [Next]_vars => StoredInv'
  BY StoredStep
<1>3. StoredInv /\ [Next]_vars
        => [\A c, d \in Consumers : DeleteConsumer(c, d) => owner' = owner]_vars
  BY DeleteDead
<1> QED
  BY <1>1, <1>2, <1>3, PTL DEF Spec, CleanupDropsNothing

-----------------------------------------------------------------------------
(***************************************************************************)
(* The consumer group implements DurableDelivery.                          *)
(***************************************************************************)

(* The promise starts empty, and so does the group.                        *)
LEMMA PromiseInit == Init => Promise!Init
<1> SUFFICES ASSUME Init PROVE Promise!Init
  OBVIOUS
<1>1. Settled = {}
  BY DEF Init, Settled, Delivered, NoGroup
<1> QED
  BY <1>1 DEF Init, Promise!Init

(* A step appends, writes or settles as the promise allows, or shows       *)
(* nothing of itself.                                                      *)
LEMMA PromiseStep ==
  ~LiveLookStale /\ StoredInv /\ [Next]_vars => [Promise!Next]_Promise!vars
<1> SUFFICES ASSUME ~LiveLookStale, StoredInv, [Next]_vars
             PROVE  Promise!Next \/ UNCHANGED Promise!vars
  BY DEF Promise!vars
<1>a. /\ TypeInv /\ DoneInv
      /\ Delivered \subseteq Promise!Ids
  BY DEF StoredInv, DoneInv, TypeInv, TypeOK, Delivered, Promise!Ids, NoGroup
<1>1. ASSUME NEW p \in Payload, Xadd(p) PROVE Promise!Next
  <2>1. Settled' = Settled
    BY <1>1 DEF Xadd, Settled, Delivered, Pending
  <2> QED
    BY <1>1, <2>1 DEF Xadd, Promise!Next, Promise!Append1
<1>2. ASSUME NEW c \in Consumers, Store(c) PROVE Promise!Next
  <2>1. Settled' = Settled
    BY <1>2 DEF Store, redisVars, Settled, Delivered, Pending
  <2>2. batch[c] \subseteq Promise!Wellformed
    <3>1. batch[c] \subseteq Delivered /\ Invalid(batch[c]) = {}
      BY <1>2, <1>a DEF Store, DoneInv, BatchParsed, TypeInv, TypeOK
    <3> QED
      BY <1>a, <3>1 DEF Invalid, Wellformed, Promise!Wellformed
  <2> QED
    BY <1>2, <2>1, <2>2 DEF Store, redisVars, Promise!Next, Promise!StoreSome
<1>3. ASSUME NEW c \in Consumers, Ack(c), Settled' = Settled \union batch[c] PROVE Promise!Next
  <2>1. batch[c] \subseteq stored
    BY <1>3, <1>a DEF Ack, DoneInv, BatchStored
  <2> QED
    BY <1>3, <2>1 DEF Ack, Promise!Next, Promise!SettleSome
<1>4. ASSUME NEW c \in Consumers, AckInvalid(c), Settled' = Settled \union Invalid(batch[c])
      PROVE  Promise!Next
  <2>1. Invalid(batch[c]) \subseteq Promise!Ids \ Promise!Wellformed
    BY <1>a DEF Invalid, Wellformed, Promise!Wellformed, TypeInv, TypeOK
  <2> QED
    BY <1>4, <2>1 DEF AckInvalid, Promise!Next, Promise!SettleSome
<1>5. CASE /\ ~\E p \in Payload : Xadd(p)
           /\ ~\E c \in Consumers : Store(c)
           /\ Settled' = Settled
  <2>1. log' = log /\ stored' = stored
    BY <1>5 DEF Next, Step, StartUp, Receive, AckAndDelete, BecomeIdle, EnsureGroup,
                FindStaleConsumers, DeleteConsumer, EndCleanup, ClaimPending,
                ClaimNothing, ReadNew, ReadNothing, AckInvalid, DelInvalid, Ack, Del, Fail, Crash,
                redisVars, vars
  <2> QED
    BY <1>5, <2>1 DEF Promise!vars
<1> QED
  BY <1>1, <1>2, <1>3, <1>4, <1>5, SettledOnlyByXack

(* Every step of any number of consumers is a step of the abstract promise *)
(* or invisible to it: redelivery, reclaiming, restarts and clean-up never *)
(* show as anything but writing an entry and then settling it.             *)
THEOREM ImplementsPromise ==
  ASSUME ~LiveLookStale
  PROVE  Spec => DeliversDurably
<1>1. Init => StoredInv /\ Promise!Init
  BY StoredInit, PromiseInit
<1>2. StoredInv /\ [Next]_vars => StoredInv'
  BY StoredStep
<1>3. StoredInv /\ [Next]_vars => [Promise!Next]_Promise!vars
  BY PromiseStep
<1> QED
  BY <1>1, <1>2, <1>3, PTL DEF Spec, DeliversDurably, Promise!Spec
=============================================================================
