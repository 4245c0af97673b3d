--------------------------- MODULE DurableDelivery ---------------------------
(***************************************************************************)
(* What the ingest service promises to whoever appends to a job or log     *)
(* stream, with no consumer groups, batches or processes in sight:         *)
(*                                                                         *)
(*   - an entry may be written to the database any number of times;        *)
(*   - an entry is settled (nobody will be handed it again) only once it   *)
(*     has been written, or when it cannot be written at all;              *)
(*   - every entry is settled in the end.                                  *)
(*                                                                         *)
(* StreamIngestion is shown to implement this module.                      *)
(***************************************************************************)
EXTENDS Naturals, Sequences

CONSTANTS
  Payload,    \* everything a producer can append
  Malformed   \* the payloads the parser rejects

VARIABLES
  log,        \* every payload appended so far; an entry's id is its position
  stored,     \* ids whose contents have reached the database
  settled     \* ids that will never be delivered again

vars == <<log, stored, settled>>

Ids == DOMAIN log

Wellformed == {i \in Ids : log[i] \notin Malformed}

Init ==
  /\ log = <<>>
  /\ stored = {}
  /\ settled = {}

Append1(p) ==
  /\ log' = Append(log, p)
  /\ UNCHANGED <<stored, settled>>

(* Writing is idempotent: a redelivered entry is written again unnoticed.  *)
StoreSome ==
  /\ \E S \in SUBSET Wellformed : stored' = stored \union S
  /\ UNCHANGED <<log, settled>>

SettleSome ==
  /\ \E S \in SUBSET (stored \union (Ids \ Wellformed)) : settled' = settled \union S
  /\ UNCHANGED <<log, stored>>

Next ==
  \/ \E p \in Payload : Append1(p)
  \/ StoreSome
  \/ SettleSome

Spec == Init /\ [][Next]_vars

(* The rest of the promise: no entry is left behind.                       *)
SettledInTheEnd(i) == i \in Ids ~> i \in settled

=============================================================================
